--------------------------- MODULE MCSnappyUnsnap ---------------------------
(* Small Snappy streams and a small ring for TLC.                          *)
EXTENDS SnappyUnsnap, SequencesExt

Literal(tag, len) == [tag |-> tag, len |-> len, dist |-> 0]
CopyOf(tag, len, dist) == [tag |-> tag, len |-> len, dist |-> dist]

\* The stream of a sequence of symbols.
Extended(st, y) ==
  LET from == st.start[Len(st.start)]
      at   == st.dst[Len(st.dst)]
  IN [syms  |-> Append(st.syms, y),
      start |-> Append(st.start, from + SymBytes(y)),
      dst   |-> Append(st.dst, at + y.len),
      text  |-> st.text \o
        [k \in 1 .. y.len |->
           IF IsLiteral(y) THEN from + y.tag + k - 1
           ELSE st.text[at - y.dist + 1 + ((k - 1) % y.dist)]]]

StreamOf(syms) ==
  FoldLeft(Extended, [syms |-> <<>>, start |-> <<0>>, dst |-> <<0>>,
                      text |-> <<>>], syms)

\* Short symbols only, enough to fill all batches; a literal longer than the
\* ring; a mixture in which every strategy has a turn; the empty stream.
MCStreams ==
  {StreamOf(<<>>),
   StreamOf(<<Literal(1, 1)>> \o [i \in 1 .. 13 |-> CopyOf(1, 1 + (i % 3), i)]),
   StreamOf(<<Literal(1, 1), Literal(2, 17), CopyOf(2, 3, 2), Literal(1, 1),
              CopyOf(1, 1, 5), Literal(1, 4), CopyOf(1, 2, 2)>>),
   StreamOf(<<Literal(1, 3), CopyOf(1, 2, 2), Literal(1, 1), Literal(1, 1),
              CopyOf(1, 1, 1), Literal(1, 2), Literal(1, 1), CopyOf(2, 4, 3),
              Literal(1, 1), CopyOf(1, 1, 6), Literal(1, 1), Literal(1, 3)>>)}
=============================================================================

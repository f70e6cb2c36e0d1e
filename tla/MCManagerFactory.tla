-------------------------- MODULE MCManagerFactory --------------------------
(* Results of at most three chunks, and managers of all formats, for TLC.  *)
EXTENDS ManagerFactory

\* Buffers at different distances from a multiple of 16, all at a word.
MCBases == {0, 8, 24}

\* The formats' headers: without options, LZ4 and GDeflate, Cascaded.
MCFormats == {1, 4, 24}

\* All types with LZ4 and Cascaded, all algorithms with GDeflate.
MCOptions ==
  [format : {"lz4", "cascaded"}, type : Widths, algo : {0}]
  \cup [format : {"snappy", "ans"}, type : {0}, algo : {0}]
  \cup [format : {"gdeflate"}, type : {0}, algo : 0 .. 2]
=============================================================================

-------------------------------- MODULE ReaderMC --------------------------------
(***************************************************************************)
(* Instances of Reader for TLC.                                            *)
(***************************************************************************)
EXTENDS Reader

\* A file, a FIFO with a picture and two audio streams, stdin with streams beyond
\* the table, and a URL whose second program is the first that has streams.
SomeSources ==
    {[kind |-> "file", types |-> <<"video", "audio">>, extra |-> {0, 1},
      programs |-> <<>>],
     [kind |-> "fifo", types |-> <<"picture", "audio", "audio">>, extra |-> {0, 2},
      programs |-> <<>>],
     [kind |-> "pipe", types |-> <<"video", "data", "audio", "data", "audio">>,
      extra |-> {0}, programs |-> <<>>],
     [kind |-> "url", types |-> <<"audio", "video", "subtitle", "video">>,
      extra |-> {1, 3}, programs |-> <<<<>>, <<1, 0>>, <<2, 3>>>>]}
=============================================================================

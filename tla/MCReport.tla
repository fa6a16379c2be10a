------------------------------ MODULE MCReport ------------------------------
(* Small streams: none, an empty first page (an empty store), repeated      *)
(* sizes, a batch that lowers the minimum and raises the maximum.           *)
EXTENDS Report

Streams ==
  { <<>>, << <<>> >>, << <<2>> >>, << <<2, 2>>, <<1>> >>, << <<3, 1>>, <<4, 0>> >>,
    << <<1>>, <<2, 1>>, <<5>> >> }

AllModes == [json : BOOLEAN, silent : BOOLEAN, dynamic : BOOLEAN]
=============================================================================

---------------------------- MODULE FirehosePorts ----------------------------
(***************************************************************************)
(* The profiles of the firehose functions of the seven languages: one for  *)
(* the function that runs "seq" and "par", one for the function that runs  *)
(* "chan".  Each record is read off the consumer, the producer loop and    *)
(* the lines after the shutdown of that function (module Firehose explains *)
(* the fields).                                                            *)
(***************************************************************************)

\* One loop over the channels that reads each counter once.
OneRead == << << {"delivered", "samples"} >> >>

GoShared ==
    [layout |-> "shared", consumer |-> "claim", publish |-> "once",
     polls |-> OneRead, empty |-> {"raise"}, teardown |-> "late"]
PythonShared == GoShared
RustShared == GoShared
CsShared == GoShared
JavaShared == [GoShared EXCEPT !.publish = "spin"]

\* Indexing an empty std::vector is undefined: it may fault or read garbage.
CppShared == [GoShared EXCEPT !.empty = {"raise", "row"}, !.teardown = "early"]

\* `undefined` percentiles are left out of the JSON row.
TsShared == [GoShared EXCEPT !.consumer = "turn", !.empty = {"row"}]

\* Appends each channel's samples and adds up the same reads.
RustChan == [GoShared EXCEPT !.layout = "chan"]
CppChan == [CppShared EXCEPT !.layout = "chan"]
GoChan == [RustChan EXCEPT !.consumer = "plain"]

\* Sums the counters first, then maps over them again in the same turn.
TsChan == [TsShared EXCEPT !.layout = "chan",
                           !.polls = << << {"delivered"} >>, << {"samples"} >> >>]

\* Slices every channel's samples, and sums the counters later.
PythonChan == [RustChan EXCEPT
    !.polls = << << {"samples"} >>, << {"delivered"} >> >>]

\* counts.Sum() sizes the array; the copy reads each counter twice more.
CsChan == [GoChan EXCEPT
    !.polls = << << {"delivered", "samples"} >>, << {"copy"}, {"pos"} >> >>]

\* Each counter is read for `delivered` and again for the size of the array;
\* the copy reads it once more.
JavaChan == [RustChan EXCEPT
    !.publish = "spin",
    !.polls = << << {"delivered"}, {"samples"} >>, << {"copy", "pos"} >> >>]

AllPorts ==
    {PythonShared, GoShared, RustShared, CppShared, CsShared, JavaShared, TsShared,
     PythonChan, GoChan, RustChan, CppChan, CsChan, JavaChan, TsChan}
=============================================================================

-------------------------------- MODULE MCGrpc --------------------------------
(* The constants of Grpc that a configuration cannot write down.           *)
EXTENDS Grpc, TLC

MCKeys == {<<"m", "h">>, <<"m", "*">>, <<"n", "*">>}

\* One service, as in the tests; n is not one of its methods.
MCAccepts == <<{<<"m", "*">>}>>

\* Two services.
MCAcceptsTwo == <<{<<"m", "h">>}, {<<"m", "*">>}>>

CONSTANTS c1, c2

ServedKey == <<"m", "h">>

NotServed == <<"n", "*">>

\* Two calls for the endpoint of any host, of which one gives up; the same with
\* a call for a method that is not served; and one that has an interrupt, for a
\* method that streams its responses.
MCScenarios ==
  {[target |-> c1 :> ServedKey @@ c2 :> ServedKey, streaming |-> {}, interruptible |-> {},
    program |-> c1 :> <<"write", "finish">> @@ c2 :> <<"cancel", "finish">>],
   [target |-> c1 :> NotServed @@ c2 :> ServedKey, streaming |-> {}, interruptible |-> {},
    program |-> c1 :> <<"finish">> @@ c2 :> <<"cancel", "finish">>],
   [target |-> c1 :> ServedKey @@ c2 :> ServedKey, streaming |-> {<<"m", "*">>}, interruptible |-> {c1},
    program |-> c1 :> <<"write", "read", "finish">> @@ c2 :> <<>>]}

=============================================================================

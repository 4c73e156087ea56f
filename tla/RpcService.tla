------------------------------ MODULE RpcService ------------------------------
(***************************************************************************)
(* What a server promises of its RPCs, to the client that makes one and to *)
(* the LabVIEW code that answers it.  Nothing is said about threads, tags  *)
(* or the completion queue.                                                *)
(*                                                                         *)
(* A call listens for an RPC, accepts one, is replaced by the next call    *)
(* that listens, is told to LabVIEW and open; it ends once, with at most   *)
(* one answer, which is what LabVIEW last set; it is used again only when  *)
(* it is over and LabVIEW's id of it is closed.                            *)
(***************************************************************************)
EXTENDS Sequences

CONSTANT Calls

VARIABLES
    phase,      \* how far each call is
    answers,    \* the statuses sent to the client of a call
    verdict,    \* what LabVIEW last set as the status of a call
    ids,        \* calls that LabVIEW can reach
    accepting   \* the server takes new RPCs

serviceVars == <<phase, answers, verdict, ids, accepting>>

Init ==
    \E first \in Calls :
        /\ phase = [c \in Calls |-> IF c = first THEN "listening" ELSE "free"]
        /\ answers = [c \in Calls |-> <<>>]
        /\ verdict = [c \in Calls |-> "OK"]
        /\ ids = {}
        /\ accepting = TRUE

\* The call c gets from one phase to another.
Move(c, from, to) == phase[c] = from /\ phase' = [phase EXCEPT ![c] = to]

\* A client's RPC reaches the call that listens.
Accept(c) ==
    /\ accepting
    /\ Move(c, "listening", "accepted")
    /\ UNCHANGED <<answers, verdict, ids, accepting>>

\* Each call that accepted an RPC is replaced by one that listens, d.
Replace(c, d) ==
    /\ phase[c] = "accepted" /\ phase[d] = "free"
    /\ phase' = [phase EXCEPT ![c] = "connecting", ![d] = "listening"]
    /\ answers' = [answers EXCEPT ![d] = <<>>]
    /\ verdict' = [verdict EXCEPT ![d] = "OK"]
    /\ UNCHANGED <<ids, accepting>>

\* LabVIEW gets an id of the call.
Tell(c) ==
    /\ phase[c] = "connecting"
    /\ ids' = ids \cup {c}
    /\ UNCHANGED <<phase, answers, verdict, accepting>>

\* A call that LabVIEW knows opens.
Open(c) ==
    /\ c \in ids
    /\ Move(c, "connecting", "open")
    /\ UNCHANGED <<answers, verdict, ids, accepting>>

\* Nobody answers this method.
Reject(c) ==
    /\ c \notin ids
    /\ Move(c, "connecting", "over")
    /\ answers' = [answers EXCEPT ![c] = Append(@, "UNIMPLEMENTED")]
    /\ UNCHANGED <<verdict, ids, accepting>>

\* LabVIEW decides what the answer will be.  A decision may come when the call
\* is over and its id is closed; it changes no answer then.
SetVerdict(c, s) ==
    /\ c \in ids \/ phase[c] = "over"
    /\ verdict' = [verdict EXCEPT ![c] = s]
    /\ UNCHANGED <<phase, answers, ids, accepting>>

\* LabVIEW ends an open RPC: the client gets the verdict.
Answer(c) ==
    /\ Move(c, "open", "over")
    /\ answers' = [answers EXCEPT ![c] = Append(@, verdict[c])]
    /\ UNCHANGED <<verdict, ids, accepting>>

\* The client has gone, or the server cancelled the RPC.
GoAway(c) ==
    /\ Move(c, "open", "over")
    /\ UNCHANGED <<answers, verdict, ids, accepting>>

\* LabVIEW's id is closed, which only happens to a call that is over.
Close(c) ==
    /\ phase[c] = "over"
    /\ ids' = ids \ {c}
    /\ phase' \in {phase, [phase EXCEPT ![c] = "free"]}
    /\ UNCHANGED <<answers, verdict, accepting>>

\* A call that LabVIEW cannot reach any more is given back.
Release(c) ==
    /\ c \notin ids
    /\ Move(c, "over", "free")
    /\ UNCHANGED <<answers, verdict, ids, accepting>>

\* A call that nobody will connect to any more is given back.
Withdraw(c) ==
    /\ ~accepting
    /\ c \notin ids
    /\ Move(c, "listening", "free")
    /\ UNCHANGED <<answers, verdict, ids, accepting>>

Stop ==
    /\ accepting' = FALSE
    /\ UNCHANGED <<phase, answers, verdict, ids>>

Next ==
    \/ \E c \in Calls :
          \/ Accept(c)
          \/ \E d \in Calls : Replace(c, d)
          \/ Tell(c)
          \/ Open(c)
          \/ Reject(c)
          \/ \E s \in {"OK", "INTERNAL"} : SetVerdict(c, s)
          \/ Answer(c)
          \/ GoAway(c)
          \/ Close(c)
          \/ Release(c)
          \/ Withdraw(c)
    \/ Stop

Spec == Init /\ [][Next]_serviceVars

=============================================================================

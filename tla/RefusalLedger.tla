--------------------------- MODULE RefusalLedger ---------------------------
(***************************************************************************)
(* What a table of refusals promises, without sequence numbers.            *)
(*                                                                         *)
(* A ledger holds the last refusal of each flavor.  A call that may forget *)
(* refusals begins before its request and ends with or after the answer.   *)
(* Everything recorded in between, kept[c], was not answered by that       *)
(* request and outlives it, however many other calls begin, end and forget *)
(* in the meantime, and even when the clock reads the same throughout.     *)
(*                                                                         *)
(* RefusalMemory implements it twice: the quota rejections, forgotten by   *)
(* accepted DELETEs of NodeGroups, and the flavor hold-outs, forgotten by  *)
(* accepted launches of the flavor.                                        *)
(***************************************************************************)
EXTENDS Integers

CONSTANTS Flavors, Callers

VARIABLES
    now,
    ledger,     \* the last refusal of each flavor, and when it was recorded
    inFlight,   \* the calls that may still forget refusals
    kept        \* the refusals a call must not forget

vars == <<now, ledger, inFlight, kept>>

Init ==
    /\ now = 0
    /\ ledger = {}
    /\ inFlight = {}
    /\ kept = [c \in Callers |-> {}]

\* A call that is not in flight has nothing to forget: kept is the ledger.
Keeping(rest, flying, of) ==
    [c \in Callers |-> IF c \in flying THEN of[c] ELSE rest]

Begin(c) ==
    /\ c \notin inFlight
    /\ inFlight' = inFlight \cup {c}
    /\ kept' = [kept EXCEPT ![c] = {}]
    /\ UNCHANGED <<now, ledger>>

\* A refusal of f; it may also end the call of one caller.
Record(f, ended) ==
    LET others(table) == {e \in table : e.flavor # f}
        new == [flavor |-> f, at |-> now]
    IN  /\ ended \subseteq inFlight
        /\ ledger' = others(ledger) \cup {new}
        /\ inFlight' = inFlight \ ended
        /\ kept' = Keeping(ledger', inFlight',
                           [c \in Callers |-> others(kept[c]) \cup {new}])
        /\ UNCHANGED now

\* The answer of c's request releases the flavors in S.
Forget(c, S) ==
    /\ c \in inFlight
    /\ ledger' = {e \in ledger : e.flavor \notin S \/ e \in kept[c]}
    /\ inFlight' = inFlight \ {c}
    /\ kept' = Keeping(ledger', inFlight', [d \in Callers |-> kept[d] \cap ledger'])
    /\ UNCHANGED now

\* The answer releases nothing.
End(c) == Forget(c, {})

Tick == now' = now + 1 /\ UNCHANGED <<ledger, inFlight, kept>>

\* The ledger is lost with the process, and so are the calls.
Lose ==
    /\ ledger' = {}
    /\ inFlight' = {}
    /\ kept' = [c \in Callers |-> {}]
    /\ UNCHANGED now

Next ==
    \/ \E c \in Callers :
          \/ Begin(c) \/ End(c)
          \/ \E S \in SUBSET Flavors : Forget(c, S)
    \/ \E f \in Flavors : \E ended \in SUBSET Callers : Record(f, ended)
    \/ Tick
    \/ Lose

Spec == Init /\ [][Next]_vars

=============================================================================

---------------------------- MODULE Confirmation ----------------------------
(***************************************************************************)
(* execution/confirmation.py: tasks wait for the confirmation of a         *)
(* signature, with a timeout; whoever reads the websocket marks it.        *)
(* Nobody in the repository does either.  An asyncio.Event that is set     *)
(* wakes its waiters, which then run in the order of the loop: a timeout   *)
(* can come first.                                                         *)
(***************************************************************************)
CONSTANTS Tasks, Signatures

VARIABLES
    events,     \* _events: the signatures that have an Event, set or not
    set,        \* those whose Event is set
    waits,      \* what each task does: idle, waiting, woken, or the answer it has got
    waitsFor,   \* the signature it asked for
    early       \* not in the code: it asked before the signature was confirmed

confirmationVars == <<events, set, waits, waitsFor, early>>

ConfirmationInit ==
    /\ events = {} /\ set = {}
    /\ waits = [t \in Tasks |-> "idle"]
    /\ waitsFor \in [Tasks -> Signatures]
    /\ early = [t \in Tasks |-> FALSE]

(* Mutant: every wait makes an Event of its own.                           *)
WaitAfresh(t, s) ==
    /\ waits[t] = "idle"
    /\ events' = events \cup {s} /\ set' = set \ {s}
    /\ waits' = [waits EXCEPT ![t] = "waiting"]
    /\ waitsFor' = [waitsFor EXCEPT ![t] = s] /\ early' = [early EXCEPT ![t] = s \notin set]

(* Event.wait() returns at once when the Event is set.                     *)
wait(t, s) ==
    /\ waits[t] = "idle"
    /\ events' = events \cup {s}
    /\ waits' = [waits EXCEPT ![t] = IF s \in set THEN "true" ELSE "waiting"]
    /\ waitsFor' = [waitsFor EXCEPT ![t] = s]
    /\ early' = [early EXCEPT ![t] = s \notin set]
    /\ UNCHANGED set

mark_confirmed(s) ==
    /\ events' = events \cup {s} /\ set' = set \cup {s}
    /\ waits' = [t \in Tasks |-> IF waits[t] = "waiting" /\ waitsFor[t] = s THEN "woken"
                                 ELSE waits[t]]
    /\ UNCHANGED <<waitsFor, early>>

Resumes(t) ==
    /\ waits[t] = "woken" /\ waits' = [waits EXCEPT ![t] = "true"]
    /\ UNCHANGED <<events, set, waitsFor, early>>

(* wait_for() of Python 3.12 cancels the wait even if it has been woken.   *)
TimesOut(t) ==
    /\ waits[t] \in {"waiting", "woken"} /\ waits' = [waits EXCEPT ![t] = "false"]
    /\ UNCHANGED <<events, set, waitsFor, early>>

(* The caller takes its answer, or is cancelled while it waits.            *)
Leaves(t) ==
    /\ waits[t] # "idle" /\ waits' = [waits EXCEPT ![t] = "idle"]
    /\ UNCHANGED <<events, set, waitsFor, early>>

ConfirmationNext ==
    \/ \E t \in Tasks : Resumes(t) \/ TimesOut(t) \/ Leaves(t) \/ \E s \in Signatures : wait(t, s)
    \/ \E s \in Signatures : mark_confirmed(s)

ConfirmationSpec == ConfirmationInit /\ [][ConfirmationNext]_confirmationVars

-----------------------------------------------------------------------------
(* Properties *)

(* A task waits for an Event of the table, and is woken once it is set.    *)
WaitersKnown ==
    /\ set \subseteq events
    /\ \A t \in Tasks : waits[t] # "idle" => waitsFor[t] \in events
    /\ \A t \in Tasks : waits[t] = "waiting" => waitsFor[t] \notin set

(* A wait that loses the race against a confirmation can be repeated: one  *)
(* that begins after the confirmation is answered True at once and never   *)
(* times out.  True is never said without a confirmation, nobody sleeps    *)
(* through one (confirmation.py lines 17-26).                              *)
ConfirmationsKept ==
    \A t \in Tasks :
        /\ waits[t] \in {"true", "woken"} => waitsFor[t] \in set
        /\ waits[t] # "idle" /\ ~early[t] => waits[t] = "true"
        /\ waits[t] = "waiting" => waitsFor[t] \notin set
=============================================================================

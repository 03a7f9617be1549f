----------------------------- MODULE MapService ------------------------------
(***************************************************************************)
(* What a handler promises the callers of map(): it knows experiments from *)
(* init() to reset(), takes one request at a time, and gives each request  *)
(* one answer, correct for that request alone, or refuses it.  Nothing is  *)
(* loaded, evaluated or called back.                                       *)
(***************************************************************************)
CONSTANTS
    None,
    Callers,
    Experiments,     \* what init() finds in the mapping directory
    Requests,
    Correct(_, _)    \* whether a value answers a request

VARIABLES
    known,           \* the experiments that can be asked about
    pending,         \* [Callers -> the request being served, or None]
    answer           \* [Callers -> what the last call returned, or None]

vars == <<known, pending, answer>>

Init ==
    /\ known = {}
    /\ pending = [c \in Callers |-> None] /\ answer = [c \in Callers |-> None]

Free == \A c \in Callers : pending[c] = None

Open  == Free /\ known = {} /\ known' = Experiments /\ UNCHANGED <<pending, answer>>
Close == Free /\ known' = {} /\ UNCHANGED <<pending, answer>>

Ask(c, r) ==
    /\ Free /\ r.exp \in known
    /\ pending' = [pending EXCEPT ![c] = r]
    /\ answer' = [answer EXCEPT ![c] = None]
    /\ UNCHANGED known

Answer(c) ==
    /\ pending[c] # None
    /\ pending' = [pending EXCEPT ![c] = None]
    /\ answer' = [answer EXCEPT ![c] = answer'[c]]
    /\ answer'[c] # None /\ Correct(pending[c], answer'[c])
    /\ UNCHANGED known

\* An exception: the caller has nothing.
Refuse(c) ==
    /\ pending[c] # None /\ answer[c] = None
    /\ pending' = [pending EXCEPT ![c] = None]
    /\ UNCHANGED <<known, answer>>

\* The caller asked about an experiment nobody knows, or called init().
Forget(c) ==
    /\ Free
    /\ answer' = [answer EXCEPT ![c] = None]
    /\ UNCHANGED <<known, pending>>

Next ==
    \/ Open \/ Close
    \/ \E c \in Callers : \/ \E r \in Requests : Ask(c, r)
                          \/ Answer(c) \/ Refuse(c) \/ Forget(c)

Spec == Init /\ [][Next]_vars
=============================================================================

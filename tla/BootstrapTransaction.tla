------------------------- MODULE BootstrapTransaction -------------------------
(***************************************************************************)
(* What the bootstrap coordinator promises, with no processes, no journal  *)
(* revisions, no failures and no power loss: one transaction is adopted    *)
(* once and for all; the parts of its steps come into existence strictly   *)
(* in step order; a step is committed when all of its parts exist; and     *)
(* nothing that is committed is ever undone.                               *)
(***************************************************************************)
EXTENDS Integers

CONSTANTS
    TxIDs,      \* transaction IDs
    Digests,    \* configuration digests
    None,       \* no transaction yet
    NumSteps,   \* number of steps; the last one has no part of its own
    Parts(_)    \* Parts(s): the parts of step s

VARIABLES
    owner,      \* <<transaction ID, digest>> that owns the machine, or None
    created,    \* set of <<owner, step, part>> that exist
    committed   \* number of steps durably committed

tvars == <<owner, created, committed>>

TInit == owner = None /\ created = {} /\ committed = 0

Adopt ==
    /\ owner = None
    /\ owner' \in TxIDs \X Digests
    /\ UNCHANGED <<created, committed>>

(* The next part of the one step that is open.                             *)
Create ==
    /\ owner # None
    /\ \E k \in Parts(committed + 1) :
          created' = created \cup {<<owner, committed + 1, k>>}
    /\ UNCHANGED <<owner, committed>>

Commit ==
    /\ owner # None
    /\ committed < NumSteps
    /\ \A k \in Parts(committed + 1) : <<owner, committed + 1, k>> \in created
    /\ committed' = committed + 1
    /\ UNCHANGED <<owner, created>>

TNext == Adopt \/ Create \/ Commit

TSpec == TInit /\ [][TNext]_tvars
=============================================================================

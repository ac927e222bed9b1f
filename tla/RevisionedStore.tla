---------------------------- MODULE RevisionedStore ---------------------------
(***************************************************************************)
(* What the file-backed stores of the daemons promise: one document that   *)
(* is replaced by its next revision, one writer at a time.  A replacement  *)
(* is durable, or of uncertain durability until something settles it; a    *)
(* power loss may take back only what is uncertain.                        *)
(***************************************************************************)
EXTENDS Integers

CONSTANTS
    Documents,  \* documents, each with a field rev
    Blank       \* the document before the first commit, of revision 0

VARIABLES
    value,      \* the document that is read now
    maybe       \* the documents that a power loss could leave

svars == <<value, maybe>>

SInit == value = Blank /\ maybe = {Blank}

Replace ==
    \E d \in Documents :
        /\ d.rev = value.rev + 1
        /\ value' = d
        /\ maybe' \in {{d}, maybe \cup {d}}

Settle == value' = value /\ maybe' = {value}

LosePower == value' \in maybe /\ maybe' = {value'}

SNext == Replace \/ Settle \/ LosePower

SSpec == SInit /\ [][SNext]_svars
=============================================================================

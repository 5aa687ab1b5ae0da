---------------------------- MODULE SecureBuffer ----------------------------
(***************************************************************************)
(* class SecureBuffer (src/source/key_vault.h, key_vault.cpp): a move-only *)
(* owner of a heap block that is locked in RAM and zeroed before it is     *)
(* given back.                                                             *)
(*                                                                         *)
(* The objects of a program are used by several threads at once, each      *)
(* object by one thread at a time; what they share is the heap and the     *)
(* page locks, of which a page has one.  The calls into the heap and the   *)
(* kernel that a constructor or a wipe makes are steps of their own.       *)
(*                                                                         *)
(* Covered: construction, both moves (onto itself as well), wipe,          *)
(* destruction, wipe of an empty or moved-from object, mlock that fails.   *)
(* Not covered: copies (deleted), the bytes themselves.                    *)
(***************************************************************************)
EXTENDS Naturals

CONSTANTS
    Objects,
    Blocks,       \* what new[] can return
    Pages,
    PagesOf,      \* the pages each block lies on
    MaxSize,      \* bound: bytes of a buffer
    Null

ASSUME SecureBufferAssumption ==
    /\ Null \notin Blocks \union Objects
    /\ PagesOf \in [Blocks -> SUBSET Pages]
    /\ MaxSize \in Nat
    /\ Objects \intersect {"ready", "unborn"} = {}

VARIABLES
    data_, size_,  \* members of each object
    pc,            \* what each object is in the middle of
    then,          \* after its wipe: stay, end, or take over from an object
    length,        \* of each block; 0 if it is free
    secret,        \* offsets in each block that hold bytes of a secret
    privileged,    \* CAP_IPC_LOCK, or no RLIMIT_MEMLOCK: mlock does not fail
    locked,        \* pages locked in RAM
    disturbed      \* history: blocks that lost a lock to another's munlock

members == <<data_, size_>>
kernel  == <<privileged, locked, disturbed>>
heap    == <<length, secret>>
vars    == <<members, pc, then, heap, kernel>>

Wiping == {"zero", "unlock", "delete"}
Steps  == {"unborn", "lock", "clear", "ready", "take", "lent"} \union Wiping

TypeOK ==
    /\ data_ \in [Objects -> Blocks \union {Null}]
    /\ size_ \in [Objects -> 0..MaxSize]
    /\ pc \in [Objects -> Steps]
    /\ then \in [Objects -> {"ready", "unborn"} \union Objects]
    /\ length \in [Blocks -> 0..MaxSize]
    /\ secret \in [Blocks -> SUBSET (1..MaxSize)]
    /\ privileged \in BOOLEAN
    /\ locked \subseteq Pages
    /\ disturbed \subseteq Blocks

Init ==
    /\ data_ = [o \in Objects |-> Null]
    /\ size_ = [o \in Objects |-> 0]
    /\ pc = [o \in Objects |-> "unborn"]
    /\ then = [o \in Objects |-> "ready"]
    /\ length = [b \in Blocks |-> 0]
    /\ secret = [b \in Blocks |-> {}]
    /\ privileged \in BOOLEAN
    /\ locked = {}
    /\ disturbed = {}

Goto(o, l) == pc' = [pc EXCEPT ![o] = l]

-----------------------------------------------------------------------------
(***************************************************************************)
(* The constructor: new[], mlock, memset.                                  *)
(***************************************************************************)
ConstructEmpty(o) ==
    /\ pc[o] = "unborn"
    /\ Goto(o, "ready")
    /\ UNCHANGED <<members, then, heap, kernel>>

\* A new[] that throws leaves nothing.
Allocate(o, n, b) ==
    /\ pc[o] = "unborn"
    /\ n > 0
    /\ length[b] = 0
    /\ length' = [length EXCEPT ![b] = n]
    /\ data_' = [data_ EXCEPT ![o] = b]
    /\ size_' = [size_ EXCEPT ![o] = n]
    /\ Goto(o, "lock")
    /\ UNCHANGED <<then, secret, kernel>>

\* The result of mlock is ignored.
Lock(o) ==
    /\ pc[o] = "lock"
    /\ \/ locked' = locked \union PagesOf[data_[o]]
       \/ ~privileged /\ UNCHANGED locked
    /\ disturbed' = disturbed \ {data_[o]}
    /\ Goto(o, "clear")
    /\ UNCHANGED <<members, then, heap, privileged>>

\* memset, and the loop of wipe, reach as far as size_ says.
ZeroBytes(o) == secret' = [secret EXCEPT ![data_[o]] = @ \ (1..size_[o])]

Clear(o) ==
    /\ pc[o] = "clear"
    /\ ZeroBytes(o)
    /\ Goto(o, "ready")
    /\ UNCHANGED <<members, then, length, kernel>>

\* The owner puts a passphrase in through data().
Fill(o) ==
    /\ pc[o] = "ready"
    /\ data_[o] # Null
    /\ secret' = [secret EXCEPT ![data_[o]] = 1..size_[o]]
    /\ UNCHANGED <<members, pc, then, length, kernel>>

-----------------------------------------------------------------------------
(***************************************************************************)
(* Moves.                                                                  *)
(***************************************************************************)
\* Slip: the source is not nulled.
StealKeeping(o, p) ==
    /\ data_' = [data_ EXCEPT ![o] = data_[p]]
    /\ size_' = [size_ EXCEPT ![o] = size_[p]]

\* Slip: the size stays behind.
StealPointer(o, p) ==
    /\ data_' = [data_ EXCEPT ![o] = data_[p], ![p] = Null]
    /\ size_' = [size_ EXCEPT ![p] = 0]

\* o takes the members of p and nulls them.
Steal(o, p) ==
    /\ data_' = [data_ EXCEPT ![o] = data_[p], ![p] = Null]
    /\ size_' = [size_ EXCEPT ![o] = size_[p], ![p] = 0]

MoveConstruct(o, p) ==
    /\ pc[o] = "unborn"
    /\ pc[p] = "ready"
    /\ Steal(o, p)
    /\ Goto(o, "ready")
    /\ UNCHANGED <<then, heap, kernel>>

\* Where a call of wipe() begins: with the bytes, or past it if there are none.
EnterWipe(o, ifNull) == IF data_[o] # Null THEN "zero" ELSE ifNull

\* Slip: the assignment takes over without a wipe of its own.
MoveAssignUnwiped(o, p) ==
    /\ pc[o] = "ready" /\ pc[p] = "ready" /\ o # p
    /\ then' = [then EXCEPT ![o] = p]
    /\ pc' = [pc EXCEPT ![o] = "take", ![p] = "lent"]
    /\ UNCHANGED <<members, heap, kernel>>

\* Assignment of an object to itself does nothing.
MoveAssign(o, p) ==
    /\ pc[o] = "ready" /\ pc[p] = "ready" /\ o # p
    /\ then' = [then EXCEPT ![o] = p]
    /\ pc' = [pc EXCEPT ![o] = EnterWipe(o, "take"), ![p] = "lent"]
    /\ UNCHANGED <<members, heap, kernel>>

Take(o) ==
    /\ pc[o] = "take"
    /\ Steal(o, then[o])
    /\ pc' = [pc EXCEPT ![o] = "ready", ![then[o]] = "ready"]
    /\ then' = [then EXCEPT ![o] = "ready"]
    /\ UNCHANGED <<heap, kernel>>

-----------------------------------------------------------------------------
(***************************************************************************)
(* wipe and the destructor, which calls it.                                *)
(***************************************************************************)
Wipe(o) ==
    /\ pc[o] = "ready"
    /\ Goto(o, EnterWipe(o, "ready"))
    /\ UNCHANGED <<members, then, heap, kernel>>

Destroy(o) ==
    /\ pc[o] = "ready"
    /\ then' = [then EXCEPT ![o] = IF data_[o] # Null THEN "unborn" ELSE @]
    /\ Goto(o, EnterWipe(o, "unborn"))
    /\ UNCHANGED <<members, heap, kernel>>

Zero(o) ==
    /\ pc[o] = "zero"
    /\ ZeroBytes(o)
    /\ Goto(o, "unlock")
    /\ UNCHANGED <<members, then, length, kernel>>

\* The other blocks on a page of b.
Neighbours(b) == {c \in Blocks \ {b} : PagesOf[b] \intersect PagesOf[c] # {}}

\* Slip: munlockall.
UnlockAll(o) ==
    /\ pc[o] = "unlock"
    /\ locked' = {}
    /\ disturbed' = disturbed \union Neighbours(data_[o])
    /\ Goto(o, "delete")
    /\ UNCHANGED <<members, then, heap, privileged>>

\* All pages the block touches, whoever else is on them.
Unlock(o) ==
    /\ pc[o] = "unlock"
    /\ locked' = locked \ PagesOf[data_[o]]
    /\ disturbed' = disturbed \union Neighbours(data_[o])
    /\ Goto(o, "delete")
    /\ UNCHANGED <<members, then, heap, privileged>>

\* Slip: what follows the wipe is forgotten.
DeleteIntoAssignment(o) ==
    /\ pc[o] = "delete"
    /\ length' = [length EXCEPT ![data_[o]] = 0]
    /\ data_' = [data_ EXCEPT ![o] = Null]
    /\ size_' = [size_ EXCEPT ![o] = 0]
    /\ Goto(o, then[o])
    /\ then' = [then EXCEPT ![o] = "ready"]
    /\ UNCHANGED <<secret, kernel>>

\* delete[], the members are reset, and wipe returns to its caller.
Delete(o) ==
    /\ pc[o] = "delete"
    /\ length' = [length EXCEPT ![data_[o]] = 0]
    /\ data_' = [data_ EXCEPT ![o] = Null]
    /\ size_' = [size_ EXCEPT ![o] = 0]
    /\ IF then[o] \in Objects
       THEN Goto(o, "take") /\ UNCHANGED then
       ELSE Goto(o, then[o]) /\ then' = [then EXCEPT ![o] = "ready"]
    /\ UNCHANGED <<secret, kernel>>

Step(o) ==
    \/ ConstructEmpty(o) \/ (\E n \in 1..MaxSize, b \in Blocks : Allocate(o, n, b))
    \/ Lock(o) \/ Clear(o) \/ Fill(o)
    \/ (\E p \in Objects : MoveConstruct(o, p) \/ MoveAssign(o, p)) \/ Take(o)
    \/ Wipe(o) \/ Destroy(o) \/ Zero(o) \/ Unlock(o) \/ Delete(o)

Next == \E o \in Objects : Step(o)

Spec == Init /\ [][Next]_vars

-----------------------------------------------------------------------------
(***************************************************************************)
(* Properties.                                                             *)
(***************************************************************************)
\* Every allocated block has one owner, which knows its length, and no pointer
\* dangles: through any sequence of moves and assignments nothing is freed
\* twice and nothing is lost.
OwnedOnce ==
    /\ \A b \in Blocks : length[b] > 0 => \E o \in Objects : data_[o] = b
    /\ \A o \in Objects : data_[o] # Null => size_[o] = length[data_[o]] /\ size_[o] > 0
    /\ \A o, p \in Objects : data_[o] # Null /\ data_[o] = data_[p] => o = p

\* Bytes of a secret lie only in a block whose owner will still zero all of them:
\* never in one that was given back, and never in one whose pages wipe has
\* already unlocked.
SecretHasOwner ==
    \A b \in Blocks : secret[b] # {} =>
        \E o \in Objects :
            /\ data_[o] = b
            /\ pc[o] \notin {"unlock", "delete"}
            /\ secret[b] \subseteq 1..size_[o]

\* Where mlock does not fail, the pages of a secret are locked from the first byte
\* on until the last is erased, through all moves, unless another buffer that
\* touches one of the pages has been wiped in between.
LockedUnlessDisturbed ==
    \A b \in Blocks :
        privileged /\ secret[b] # {} /\ b \notin disturbed => PagesOf[b] \subseteq locked

-----------------------------------------------------------------------------
(***************************************************************************)
(* The promise of the class, see Custody.                                  *)
(***************************************************************************)
custodianOf(b) ==
    IF secret[b] = {} THEN Null
    ELSE IF \E o \in Objects : data_[o] = b THEN CHOOSE o \in Objects : data_[o] = b
    ELSE "nowhere"

Secrets == INSTANCE Custody
    WITH Holders <- Objects, Secrets <- Blocks, Nobody <- Null,
         custodian <- [b \in Blocks |-> custodianOf(b)]

CustodySpec == Secrets!Spec

=============================================================================

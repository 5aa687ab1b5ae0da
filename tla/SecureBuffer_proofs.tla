------------------------ MODULE SecureBuffer_proofs ------------------------
(***************************************************************************)
(* Proofs about SecureBuffer, for any objects, any heap and any pages.     *)
(*                                                                         *)
(* The invariant has four layers: where an object in the middle of a call  *)
(* stands (Places), who owns which block (OwnedOnce), where the secrets    *)
(* are (SecretsHeld), and which pages are locked for whom (Covered).       *)
(***************************************************************************)
EXTENDS SecureBuffer, TLAPS

\* An object in the middle of a constructor or a wipe has a block; one that is not
\* constructed, or about to take over, has none.
Placed(o) ==
    /\ pc[o] \in {"unborn", "take"} => data_[o] = Null
    /\ pc[o] \in {"lock", "clear"} \union Wiping => data_[o] # Null
    /\ pc[o] = "take" => then[o] \in Objects

\* The source of an assignment waits for it, and for no other.
Lends(o) ==
    then[o] \in Objects =>
        /\ pc[o] \in Wiping \union {"take"}
        /\ pc[then[o]] = "lent"
        /\ \A p \in Objects : then[p] = then[o] => p = o

Places == TypeOK /\ \A o \in Objects : Placed(o) /\ Lends(o)

\* A secret lies where an owner keeps it or is about to zero it.
Keeping == {"ready", "lent", "zero"}

SecretsHeld ==
    \A b \in Blocks : secret[b] # {} =>
        \E o \in Objects : data_[o] = b /\ pc[o] \in Keeping /\ secret[b] \subseteq 1..size_[o]

\* From mlock to munlock the pages of a block are locked.
Covered ==
    \A o \in Objects :
        /\ privileged /\ data_[o] # Null
        /\ pc[o] \notin {"lock", "delete"} /\ data_[o] \notin disturbed
        => PagesOf[data_[o]] \subseteq locked

IInv == Places /\ OwnedOnce /\ SecretsHeld /\ Covered

-----------------------------------------------------------------------------
(***************************************************************************)
(* Types and places.                                                       *)
(***************************************************************************)
LEMMA TypesKept ==
    ASSUME Places, NEW o \in Objects, Step(o)
    PROVE  TypeOK'
<1> USE SecureBufferAssumption DEF Places, TypeOK, members, kernel, heap, Goto
<1>1. CASE ConstructEmpty(o)
  BY <1>1 DEF ConstructEmpty, Steps
<1>2. CASE \E n \in 1..MaxSize, b \in Blocks : Allocate(o, n, b)
  BY <1>2 DEF Allocate, Steps
<1>3. CASE Lock(o)
  BY <1>3 DEF Lock, Steps, Placed
<1>4. CASE Clear(o)
  BY <1>4 DEF Clear, ZeroBytes, Steps, Placed
<1>5. CASE Fill(o)
  <2>1. 1..size_[o] \subseteq 1..MaxSize
    OBVIOUS
  <2> QED
    BY <1>5, <2>1 DEF Fill
<1>6. CASE \E p \in Objects : MoveConstruct(o, p)
  BY <1>6 DEF MoveConstruct, Steal, Steps
<1>7. CASE \E p \in Objects : MoveAssign(o, p)
  BY <1>7 DEF MoveAssign, EnterWipe, Steps, Wiping
<1>8. CASE Take(o)
  BY <1>8 DEF Take, Steal, Steps, Placed
<1>9. CASE Wipe(o)
  BY <1>9 DEF Wipe, EnterWipe, Steps, Wiping
<1>10. CASE Destroy(o)
  BY <1>10 DEF Destroy, EnterWipe, Steps, Wiping
<1>11. CASE Zero(o)
  BY <1>11 DEF Zero, ZeroBytes, Steps, Wiping, Placed
<1>12. CASE Unlock(o)
  BY <1>12 DEF Unlock, Neighbours, Steps, Wiping
<1>13. CASE Delete(o)
  BY <1>13 DEF Delete, Steps, Placed, Wiping
<1> QED
  BY <1>1, <1>2, <1>3, <1>4, <1>5, <1>6, <1>7, <1>8, <1>9, <1>10, <1>11, <1>12, <1>13 DEF Step

LEMMA PlacesKept ==
    ASSUME Places, NEW o \in Objects, Step(o), NEW q \in Objects
    PROVE  (Placed(q) /\ Lends(q))'
<1> USE SecureBufferAssumption DEF Places, TypeOK, members, kernel, heap, Goto, Placed, Lends, Wiping
<1>1. CASE ConstructEmpty(o)
  BY <1>1 DEF ConstructEmpty
<1>2. CASE \E n \in 1..MaxSize, b \in Blocks : Allocate(o, n, b)
  BY <1>2 DEF Allocate
<1>3. CASE Lock(o)
  BY <1>3 DEF Lock
<1>4. CASE Clear(o)
  BY <1>4 DEF Clear
<1>5. CASE Fill(o)
  BY <1>5 DEF Fill
<1>6. CASE \E p \in Objects : MoveConstruct(o, p)
  BY <1>6 DEF MoveConstruct, Steal
<1>7. CASE \E p \in Objects : MoveAssign(o, p)
  BY <1>7 DEF MoveAssign, EnterWipe
<1>8. CASE Take(o)
  BY <1>8 DEF Take, Steal
<1>9. CASE Wipe(o)
  BY <1>9 DEF Wipe, EnterWipe
<1>10. CASE Destroy(o)
  BY <1>10 DEF Destroy, EnterWipe
<1>11. CASE Zero(o)
  BY <1>11 DEF Zero
<1>12. CASE Unlock(o)
  BY <1>12 DEF Unlock
<1>13. CASE Delete(o)
  BY <1>13 DEF Delete
<1> QED
  BY <1>1, <1>2, <1>3, <1>4, <1>5, <1>6, <1>7, <1>8, <1>9, <1>10, <1>11, <1>12, <1>13 DEF Step

-----------------------------------------------------------------------------
(***************************************************************************)
(* Owners.                                                                 *)
(***************************************************************************)
\* A move gives a block to an object that has none: it still has one owner.
LEMMA StealKeepsOwners ==
    ASSUME TypeOK, OwnedOnce, NEW o \in Objects, NEW p \in Objects,
           o # p, data_[o] = Null, Steal(o, p), length' = length
    PROVE  OwnedOnce'
<1> USE SecureBufferAssumption DEF TypeOK, Steal
<1>1. \A b \in Blocks : length'[b] > 0 => \E q \in Objects : data_'[q] = b
  <2> SUFFICES ASSUME NEW b \in Blocks, length[b] > 0
               PROVE  \E q \in Objects : data_'[q] = b
    OBVIOUS
  <2>1. PICK q \in Objects : data_[q] = b
    BY DEF OwnedOnce
  <2>2. CASE q = p
    BY <2>1, <2>2
  <2>3. CASE q # p
    BY <2>1, <2>3
  <2> QED
    BY <2>2, <2>3
<1>2. \A q \in Objects : data_'[q] # Null => size_'[q] = length'[data_'[q]] /\ size_'[q] > 0
  BY DEF OwnedOnce
<1>3. \A q, r \in Objects : data_'[q] # Null /\ data_'[q] = data_'[r] => q = r
  BY DEF OwnedOnce
<1> QED
  BY <1>1, <1>2, <1>3 DEF OwnedOnce

LEMMA OwnersKept ==
    ASSUME Places, OwnedOnce, NEW o \in Objects, Step(o)
    PROVE  OwnedOnce'
<1> USE SecureBufferAssumption DEF members, heap
<1>1. CASE UNCHANGED <<members, length>>
  BY <1>1 DEF OwnedOnce
<1>2. CASE \E n \in 1..MaxSize, b \in Blocks : Allocate(o, n, b)
  <2>1. PICK n \in 1..MaxSize, b \in Blocks : Allocate(o, n, b)
    BY <1>2
  <2> USE DEF Allocate, Places, Placed, TypeOK
  <2>2. data_[o] = Null /\ \A q \in Objects : data_[q] # b
    BY <2>1 DEF OwnedOnce
  <2>3. \A c \in Blocks : length'[c] > 0 => \E q \in Objects : data_'[q] = c
    <3> SUFFICES ASSUME NEW c \in Blocks, length'[c] > 0
                 PROVE  \E q \in Objects : data_'[q] = c
      OBVIOUS
    <3>1. CASE c = b
      BY <2>1, <3>1
    <3>2. CASE c # b
      <4>1. PICK q \in Objects : data_[q] = c
        BY <2>1, <3>2 DEF OwnedOnce
      <4> QED
        BY <2>1, <2>2, <4>1
    <3> QED
      BY <3>1, <3>2
  <2>4. \A q \in Objects : data_'[q] # Null => size_'[q] = length'[data_'[q]] /\ size_'[q] > 0
    BY <2>1, <2>2 DEF OwnedOnce
  <2>5. \A q, r \in Objects : data_'[q] # Null /\ data_'[q] = data_'[r] => q = r
    BY <2>1, <2>2 DEF OwnedOnce
  <2> QED
    BY <2>3, <2>4, <2>5 DEF OwnedOnce
<1>3. CASE \E p \in Objects : MoveConstruct(o, p)
  BY <1>3, StealKeepsOwners DEF MoveConstruct, Places, Placed
<1>4. CASE Take(o)
  BY <1>4, StealKeepsOwners DEF Take, Places, Placed, Lends
<1>5. CASE Delete(o)
  <2> USE <1>5 DEF Delete, Places, Placed, Wiping, TypeOK
  <2>1. data_[o] \in Blocks
    OBVIOUS
  <2>2. \A c \in Blocks : length'[c] > 0 => \E q \in Objects : data_'[q] = c
    <3> SUFFICES ASSUME NEW c \in Blocks, length'[c] > 0
                 PROVE  \E q \in Objects : data_'[q] = c
      OBVIOUS
    <3>1. c # data_[o] /\ length[c] > 0
      BY <2>1
    <3>2. PICK q \in Objects : data_[q] = c
      BY <3>1 DEF OwnedOnce
    <3> QED
      BY <3>1, <3>2
  <2>3. \A q \in Objects : data_'[q] # Null => size_'[q] = length'[data_'[q]] /\ size_'[q] > 0
    BY <2>1 DEF OwnedOnce
  <2>4. \A q, r \in Objects : data_'[q] # Null /\ data_'[q] = data_'[r] => q = r
    BY DEF OwnedOnce
  <2> QED
    BY <2>2, <2>3, <2>4 DEF OwnedOnce
<1> QED
  BY <1>1, <1>2, <1>3, <1>4, <1>5
     DEF Step, ConstructEmpty, Lock, Clear, Fill, MoveAssign, Wipe, Destroy, Zero, Unlock

-----------------------------------------------------------------------------
(***************************************************************************)
(* Secrets.                                                                *)
(***************************************************************************)
\* What an object owns no other one does, so its secret is kept by it or there is
\* none.
LEMMA SecretOfOwner ==
    ASSUME OwnedOnce, SecretsHeld, Places, NEW o \in Objects, data_[o] # Null,
           secret[data_[o]] # {}
    PROVE  pc[o] \in Keeping /\ secret[data_[o]] \subseteq 1..size_[o]
BY DEF OwnedOnce, SecretsHeld, Places, TypeOK

LEMMA SecretsKept ==
    ASSUME Places, OwnedOnce, SecretsHeld, NEW o \in Objects, Step(o),
           NEW b \in Blocks, secret'[b] # {}
    PROVE  \E q \in Objects : data_'[q] = b /\ pc'[q] \in Keeping /\ secret'[b] \subseteq 1..size_'[q]
<1> USE SecureBufferAssumption DEF members, heap, Goto, Keeping, Wiping
<1>1. CASE ConstructEmpty(o)
  BY <1>1 DEF ConstructEmpty, SecretsHeld, Places, TypeOK
<1>2. CASE \E n \in 1..MaxSize, c \in Blocks : Allocate(o, n, c)
  BY <1>2 DEF Allocate, SecretsHeld, Places, TypeOK, Placed
<1>3. CASE Lock(o)
  BY <1>3 DEF Lock, SecretsHeld, Places, TypeOK
<1>4. CASE Clear(o)
  BY <1>4 DEF Clear, ZeroBytes, SecretsHeld, Places, TypeOK, Placed
<1>5. CASE Fill(o)
  <2> USE <1>5 DEF Fill, Places, TypeOK
  <2>1. CASE b = data_[o]
    <3>1. secret'[b] = 1..size_[o] /\ data_'[o] = b /\ pc'[o] = "ready" /\ size_'[o] = size_[o]
      BY <2>1
    <3> QED
      BY <3>1
  <2>2. CASE b # data_[o]
    <3>1. secret'[b] = secret[b] /\ data_' = data_ /\ pc' = pc /\ size_' = size_
      BY <2>2
    <3> QED
      BY <3>1 DEF SecretsHeld
  <2> QED
    BY <2>1, <2>2
<1>6. CASE \E p \in Objects : MoveConstruct(o, p)
  <2>1. PICK p \in Objects : MoveConstruct(o, p)
    BY <1>6
  <2>2. PICK q \in Objects : data_[q] = b /\ pc[q] \in Keeping /\ secret[b] \subseteq 1..size_[q]
    BY <2>1 DEF MoveConstruct, SecretsHeld
  <2> USE <2>1, <2>2 DEF MoveConstruct, Steal, Places, TypeOK, Placed
  <2>3. CASE q = p
    BY <2>3
  <2>4. CASE q # p
    BY <2>4
  <2> QED
    BY <2>3, <2>4
<1>7. CASE \E p \in Objects : MoveAssign(o, p)
  BY <1>7 DEF MoveAssign, EnterWipe, SecretsHeld, Places, TypeOK
<1>8. CASE Take(o)
  <2>1. PICK q \in Objects : data_[q] = b /\ pc[q] \in Keeping /\ secret[b] \subseteq 1..size_[q]
    BY <1>8 DEF Take, SecretsHeld
  <2> USE <1>8, <2>1 DEF Take, Steal, Places, TypeOK, Placed, Lends
  <2>2. CASE q = then[o]
    BY <2>2
  <2>3. CASE q # then[o]
    BY <2>3
  <2> QED
    BY <2>2, <2>3
<1>9. CASE Wipe(o)
  BY <1>9 DEF Wipe, EnterWipe, SecretsHeld, Places, TypeOK
<1>10. CASE Destroy(o)
  BY <1>10 DEF Destroy, EnterWipe, SecretsHeld, Places, TypeOK
<1>11. CASE Zero(o)
  <2> USE <1>11 DEF Zero, ZeroBytes, Places, TypeOK, Placed
  <2>1. CASE b = data_[o]
    BY <2>1, SecretOfOwner
  <2>2. CASE b # data_[o]
    BY <2>2 DEF SecretsHeld
  <2> QED
    BY <2>1, <2>2
<1>12. CASE Unlock(o)
  BY <1>12 DEF Unlock, SecretsHeld, Places, TypeOK
<1>13. CASE Delete(o)
  <2>1. b # data_[o] /\ secret' = secret
    BY <1>13, SecretOfOwner DEF Delete, Places, TypeOK, Placed
  <2> QED
    BY <1>13, <2>1 DEF Delete, SecretsHeld, Places, TypeOK, Placed
<1> QED
  BY <1>1, <1>2, <1>3, <1>4, <1>5, <1>6, <1>7, <1>8, <1>9, <1>10, <1>11, <1>12, <1>13 DEF Step

-----------------------------------------------------------------------------
(***************************************************************************)
(* Page locks.                                                             *)
(***************************************************************************)
\* The lock of what an object holds after a step is the one it, or the object it
\* took it from, held before: of a step that changes neither locks nor history.
LEMMA CoverMoves ==
    ASSUME Covered, UNCHANGED kernel, NEW q \in Objects, NEW p \in Objects,
           data_[p] = data_'[q],
           pc'[q] \notin {"lock", "delete"} => pc[p] \notin {"lock", "delete"},
           privileged', data_'[q] # Null, pc'[q] \notin {"lock", "delete"},
           data_'[q] \notin disturbed'
    PROVE  PagesOf[data_'[q]] \subseteq locked'
BY DEF Covered, kernel

LEMMA CoverKept ==
    ASSUME Places, OwnedOnce, Covered, NEW o \in Objects, Step(o)
    PROVE  Covered'
<1> SUFFICES ASSUME NEW q \in Objects, privileged', data_'[q] # Null,
                    pc'[q] \notin {"lock", "delete"}, data_'[q] \notin disturbed'
             PROVE  PagesOf[data_'[q]] \subseteq locked'
  BY DEF Covered
<1> USE SecureBufferAssumption DEF Goto, Places, TypeOK
<1>1. CASE Lock(o)
  <2> USE <1>1 DEF Lock, members, Placed
  <2>1. data_[o] \in Blocks /\ locked \subseteq locked'
    OBVIOUS
  <2>2. CASE q = o
    BY <2>1, <2>2
  <2>3. CASE q # o
    <3>1. data_[q] # data_[o]
      BY <2>3 DEF OwnedOnce
    <3> QED
      BY <2>1, <2>3, <3>1 DEF Covered
  <2> QED
    BY <2>2, <2>3
<1>2. CASE Unlock(o)
  <2> USE <1>2 DEF Unlock, members, Placed, Wiping
  <2>1. q # o
    OBVIOUS
  <2>2. data_[q] \in Blocks /\ data_[o] \in Blocks /\ data_[q] # data_[o]
    BY <2>1 DEF OwnedOnce
  <2>3. data_[q] \notin disturbed /\ data_[q] \notin Neighbours(data_[o])
    OBVIOUS
  <2>4. PagesOf[data_[q]] \subseteq locked
    BY <2>1, <2>3 DEF Covered
  <2>5. PagesOf[data_[o]] \intersect PagesOf[data_[q]] = {}
    BY <2>2, <2>3 DEF Neighbours
  <2> QED
    BY <2>4, <2>5
<1>3. CASE \E p \in Objects : MoveConstruct(o, p)
  <2>1. PICK p \in Objects : MoveConstruct(o, p)
    BY <1>3
  <2> USE <2>1 DEF MoveConstruct, Steal, Placed
  <2>2. CASE q = o
    <3>1. data_[p] = data_'[o] /\ pc[p] = "ready"
      OBVIOUS
    <3> QED
      BY <2>2, <3>1, CoverMoves
  <2>3. CASE q # o
    <3>1. data_[q] = data_'[q] /\ pc[q] = pc'[q]
      BY <2>3
    <3> QED
      BY <3>1, CoverMoves
  <2> QED
    BY <2>2, <2>3
<1>4. CASE Take(o)
  <2> USE <1>4 DEF Take, Steal, Placed, Lends
  <2>1. then[o] \in Objects /\ pc[then[o]] = "lent" /\ then[o] # o
    OBVIOUS
  <2>2. CASE q = o
    <3>1. data_[then[o]] = data_'[o]
      BY <2>1
    <3> QED
      BY <2>1, <2>2, <3>1, CoverMoves
  <2>3. CASE q # o
    <3>1. q # then[o] /\ data_[q] = data_'[q] /\ pc[q] = pc'[q]
      BY <2>1, <2>3
    <3> QED
      BY <3>1, CoverMoves
  <2> QED
    BY <2>2, <2>3
<1>5. CASE ConstructEmpty(o) \/ Clear(o) \/ Fill(o) \/ Wipe(o) \/ Destroy(o) \/ Zero(o)
           \/ \E p \in Objects : MoveAssign(o, p)
  <2>1. UNCHANGED kernel /\ data_[q] = data_'[q] /\ pc[q] \notin {"lock", "delete"}
    BY <1>5 DEF ConstructEmpty, Clear, Fill, Wipe, Destroy, Zero, MoveAssign, EnterWipe, members
  <2> QED
    BY <2>1, CoverMoves
<1>6. CASE (\E n \in 1..MaxSize, b \in Blocks : Allocate(o, n, b)) \/ Delete(o)
  <2>1. UNCHANGED kernel /\ q # o /\ data_[q] = data_'[q] /\ pc[q] \notin {"lock", "delete"}
    BY <1>6 DEF Allocate, Delete, Wiping, Placed, Lends
  <2> QED
    BY <2>1, CoverMoves
<1> QED
  BY <1>1, <1>2, <1>3, <1>4, <1>5, <1>6 DEF Step

-----------------------------------------------------------------------------
(***************************************************************************)
(* The invariant and what follows from it.                                 *)
(***************************************************************************)
THEOREM InvariantHolds == Spec => []IInv
<1>1. Init => IInv
  BY SecureBufferAssumption
     DEF Init, IInv, Places, TypeOK, Steps, Wiping, Placed, Lends, OwnedOnce, SecretsHeld, Covered
<1>2. IInv /\ [Next]_vars => IInv'
  <2> SUFFICES ASSUME IInv, [Next]_vars
               PROVE  IInv'
    OBVIOUS
  <2>1. CASE Next
    <3>1. PICK o \in Objects : Step(o)
      BY <2>1 DEF Next
    <3>2. Places'
      BY <3>1, TypesKept, PlacesKept DEF IInv, Places
    <3>3. OwnedOnce'
      BY <3>1, OwnersKept DEF IInv
    <3>4. SecretsHeld'
      BY <3>1, SecretsKept DEF IInv, SecretsHeld
    <3>5. Covered'
      BY <3>1, CoverKept DEF IInv
    <3> QED
      BY <3>2, <3>3, <3>4, <3>5 DEF IInv
  <2>2. CASE UNCHANGED vars
    BY <2>2 DEF vars, members, heap, kernel, IInv, Places, TypeOK, Placed, Lends,
                OwnedOnce, SecretsHeld, Covered
  <2> QED
    BY <2>1, <2>2
<1> QED
  BY <1>1, <1>2, PTL DEF Spec

\* The values of all variables keep their types: of the members of every object,
\* and of heap, page locks and history.
THEOREM TypeCorrect == Spec => []TypeOK
<1>1. IInv => TypeOK
  BY DEF IInv, Places
<1> QED
  BY <1>1, InvariantHolds, PTL

\* Through any constructions, moves, assignments, wipes and destructions every
\* allocated block has exactly one owner, which knows its length.
THEOREM BlocksOwnedOnce == Spec => []OwnedOnce
<1>1. IInv => OwnedOnce
  BY DEF IInv
<1> QED
  BY <1>1, InvariantHolds, PTL

\* The bytes of a secret lie only in a block whose owner will still zero all of
\* them before it unlocks and returns it.
THEOREM SecretsHaveOwners == Spec => []SecretHasOwner
<1>1. IInv => SecretHasOwner
  BY DEF IInv, SecretsHeld, SecretHasOwner, Keeping
<1> QED
  BY <1>1, InvariantHolds, PTL

\* Where mlock does not fail, a secret lies on locked pages, unless the wipe of
\* another buffer on one of them has unlocked it.
THEOREM SecretsLocked == Spec => []LockedUnlessDisturbed
<1>1. IInv => LockedUnlessDisturbed
  BY SecureBufferAssumption
     DEF IInv, SecretsHeld, Covered, LockedUnlessDisturbed, Keeping
<1> QED
  BY <1>1, InvariantHolds, PTL

-----------------------------------------------------------------------------
(***************************************************************************)
(* SecureBuffer implements Custody.                                        *)
(***************************************************************************)
LEMMA ChosenOwner ==
    ASSUME NEW f, NEW b, NEW o \in Objects, f[o] = b, \A p \in Objects : f[p] = b => p = o
    PROVE  (CHOOSE p \in Objects : f[p] = b) = o
OBVIOUS

\* The custodian of a secret is the owner of its block, before and after a step.
LEMMA CustodianIsOwner ==
    ASSUME OwnedOnce, NEW b \in Blocks, NEW o \in Objects, data_[o] = b, secret[b] # {}
    PROVE  custodianOf(b) = o
<1>1. \A p \in Objects : data_[p] = b => p = o
  BY SecureBufferAssumption DEF OwnedOnce
<1>2. (CHOOSE p \in Objects : data_[p] = b) = o
  BY <1>1, ChosenOwner
<1> QED
  BY <1>2 DEF custodianOf

LEMMA CustodianIsOwnerNext ==
    ASSUME OwnedOnce', NEW b \in Blocks, NEW o \in Objects, data_'[o] = b, secret'[b] # {}
    PROVE  custodianOf(b)' = o
<1>1. \A p \in Objects : data_'[p] = b => p = o
  BY SecureBufferAssumption DEF OwnedOnce
<1>2. (CHOOSE p \in Objects : data_'[p] = b) = o
  BY <1>1, ChosenOwner
<1> QED
  BY <1>2 DEF custodianOf

\* A secret that is neither changed nor moved keeps its custodian.
LEMMA CustodianKept ==
    ASSUME OwnedOnce, OwnedOnce', SecretsHeld, NEW b \in Blocks, secret'[b] = secret[b],
           secret[b] # {} => \A q \in Objects : data_[q] = b => data_'[q] = b
    PROVE  custodianOf(b)' = custodianOf(b)
<1>1. CASE secret[b] = {}
  BY <1>1 DEF custodianOf
<1>2. CASE secret[b] # {}
  <2>1. PICK q \in Objects : data_[q] = b
    BY <1>2 DEF SecretsHeld
  <2> QED
    BY <1>2, <2>1, CustodianIsOwner, CustodianIsOwnerNext
<1> QED
  BY <1>1, <1>2

\* Who has no secret in his block is the custodian of none.
LEMMA FreeOfSecrets ==
    ASSUME OwnedOnce, SecretsHeld, NEW o \in Objects,
           data_[o] # Null => secret[data_[o]] = {}
    PROVE  Secrets!Free(o)
<1> SUFFICES ASSUME NEW b \in Blocks, custodianOf(b) = o
             PROVE  FALSE
  BY DEF Secrets!Free
<1>1. secret[b] # {}
  BY SecureBufferAssumption DEF custodianOf
<1>2. PICK q \in Objects : data_[q] = b
  BY <1>1 DEF SecretsHeld
<1>3. custodianOf(b) = q
  BY <1>1, <1>2, CustodianIsOwner
<1> QED
  BY <1>1, <1>2, <1>3, SecureBufferAssumption

custodian == [b \in Blocks |-> custodianOf(b)]

\* A move is a hand-over of the secret, if there is one.
LEMMA StealHandsOver ==
    ASSUME IInv, IInv', NEW o \in Objects, NEW p \in Objects,
           o # p, data_[o] = Null, Steal(o, p), secret' = secret
    PROVE  [Secrets!Next]_custodian
<1> USE SecureBufferAssumption DEF IInv, Places
<1>1. \A b \in Blocks : b # data_[p] => custodianOf(b)' = custodianOf(b)
  <2> SUFFICES ASSUME NEW b \in Blocks, b # data_[p]
               PROVE  custodianOf(b)' = custodianOf(b)
    OBVIOUS
  <2>1. \A q \in Objects : data_[q] = b => data_'[q] = b
    BY DEF Steal, TypeOK
  <2> QED
    BY <2>1, CustodianKept
<1>2. CASE data_[p] = Null \/ secret[data_[p]] = {}
  <2>1. \A b \in Blocks : b = data_[p] => custodianOf(b)' = custodianOf(b)
    BY <1>2 DEF custodianOf
  <2> QED
    BY <1>1, <2>1 DEF custodian
<1>3. CASE data_[p] # Null /\ secret[data_[p]] # {}
  <2>1. data_[p] \in Blocks
    BY <1>3 DEF TypeOK
  <2>2. custodianOf(data_[p]) = p
    BY <1>3, <2>1, CustodianIsOwner
  <2>3. Secrets!Free(o)
    BY FreeOfSecrets
  <2>4. PICK b \in Blocks : b = data_[p]
    BY <2>1
  <2>5. data_'[o] = b
    BY <2>4 DEF Steal, TypeOK
  <2>6. custodianOf(b)' = o
    BY <1>3, <2>4, <2>5, CustodianIsOwnerNext
  <2>7. custodian' = [custodian EXCEPT ![b] = o]
    BY <1>1, <2>4, <2>6 DEF custodian
  <2>8. Secrets!HandOver(b, o)
    BY <2>2, <2>3, <2>4, <2>7 DEF Secrets!HandOver, custodian
  <2> QED
    BY <2>8 DEF Secrets!Next
<1> QED
  BY <1>2, <1>3

\* What happens to secrets that stay where they are: one is put in, or erased.
LEMMA FillReceives ==
    ASSUME IInv, IInv', NEW o \in Objects, Fill(o)
    PROVE  [Secrets!Next]_custodian
<1> USE SecureBufferAssumption DEF IInv, Places
<1>1. PICK b \in Blocks : b = data_[o]
  BY DEF Fill, TypeOK
<1>2. secret' = [secret EXCEPT ![b] = 1..size_[o]] /\ data_' = data_
  BY <1>1 DEF Fill, members
<1>3. secret'[b] # {}
  <2>1. secret'[b] = 1..size_[o]
    BY <1>2 DEF TypeOK
  <2>2. size_[o] \in Nat /\ size_[o] > 0
    BY <1>1 DEF OwnedOnce, TypeOK
  <2> QED
    BY <2>1, <2>2
<1>4. custodianOf(b)' = o
  BY <1>1, <1>2, <1>3, CustodianIsOwnerNext
<1>5. \A c \in Blocks : c # b => custodianOf(c)' = custodianOf(c)
  BY <1>2, CustodianKept DEF TypeOK
<1>6. custodian' = [custodian EXCEPT ![b] = o]
  BY <1>4, <1>5 DEF custodian
<1>7. CASE secret[b] = {}
  <2>1. custodianOf(b) = Null
    BY <1>7 DEF custodianOf
  <2>2. Secrets!Free(o)
    BY <1>1, <1>7, FreeOfSecrets
  <2>3. Secrets!Receive(b, o)
    BY <1>6, <2>1, <2>2 DEF Secrets!Receive, custodian
  <2> QED
    BY <2>3 DEF Secrets!Next
<1>8. CASE secret[b] # {}
  <2>1. custodianOf(b) = o
    BY <1>1, <1>8, CustodianIsOwner
  <2> QED
    BY <1>6, <2>1 DEF custodian
<1> QED
  BY <1>7, <1>8

LEMMA ZeroErases ==
    ASSUME IInv, IInv', NEW o \in Objects, Zero(o)
    PROVE  [Secrets!Next]_custodian
<1> USE SecureBufferAssumption DEF IInv, Places
<1>1. PICK b \in Blocks : b = data_[o]
  BY DEF Zero, TypeOK, Placed, Wiping
<1>2. secret' = [secret EXCEPT ![b] = @ \ (1..size_[o])] /\ data_' = data_
  BY <1>1 DEF Zero, ZeroBytes, members
<1>3. secret'[b] = {}
  BY <1>1, <1>2, SecretOfOwner DEF TypeOK
<1>4. custodianOf(b)' = Null
  BY <1>3 DEF custodianOf
<1>5. \A c \in Blocks : c # b => custodianOf(c)' = custodianOf(c)
  BY <1>2, CustodianKept DEF TypeOK
<1>6. custodian' = [custodian EXCEPT ![b] = Null]
  BY <1>4, <1>5 DEF custodian
<1>7. CASE secret[b] = {}
  <2>1. custodianOf(b) = Null
    BY <1>7 DEF custodianOf
  <2> QED
    BY <1>6, <2>1 DEF custodian
<1>8. CASE secret[b] # {}
  <2>1. custodianOf(b) = o
    BY <1>1, <1>8, CustodianIsOwner
  <2>2. Secrets!Erase(b)
    BY <1>6, <2>1 DEF Secrets!Erase, custodian
  <2> QED
    BY <2>2 DEF Secrets!Next
<1> QED
  BY <1>7, <1>8

\* Every other step leaves all secrets where they are.
LEMMA OthersStutter ==
    ASSUME IInv, IInv', NEW o \in Objects,
           \/ ConstructEmpty(o) \/ Lock(o) \/ Clear(o) \/ Wipe(o) \/ Destroy(o) \/ Unlock(o)
           \/ Delete(o)
           \/ \E n \in 1..MaxSize, b \in Blocks : Allocate(o, n, b)
           \/ \E p \in Objects : MoveAssign(o, p)
    PROVE  UNCHANGED custodian
<1> USE SecureBufferAssumption DEF IInv, Places, TypeOK, members, heap
<1> SUFFICES ASSUME NEW b \in Blocks
             PROVE  custodianOf(b)' = custodianOf(b)
  BY DEF custodian
<1>1. secret'[b] = secret[b]
  <2>1. CASE Clear(o)
    <3>1. secret[data_[o]] = {}
      BY <2>1, SecretOfOwner DEF Clear, Placed, Keeping
    <3> QED
      BY <2>1, <3>1 DEF Clear, ZeroBytes
  <2>2. CASE ~Clear(o)
    BY <2>2 DEF ConstructEmpty, Lock, Wipe, Destroy, Unlock, Delete, Allocate, MoveAssign
  <2> QED
    BY <2>1, <2>2
<1>2. secret[b] # {} => \A q \in Objects : data_[q] = b => data_'[q] = b
  <2>1. CASE Delete(o)
    <3>1. secret[data_[o]] = {} /\ \A q \in Objects \ {o} : data_'[q] = data_[q]
      BY <2>1, SecretOfOwner DEF Delete, Placed, Wiping, Keeping
    <3> QED
      BY <3>1
  <2>2. CASE \E n \in 1..MaxSize, c \in Blocks : Allocate(o, n, c)
    BY <2>2 DEF Allocate, Placed
  <2>3. CASE data_' = data_
    BY <2>3
  <2> QED
    BY <2>1, <2>2, <2>3 DEF ConstructEmpty, Lock, Clear, Wipe, Destroy, Unlock, MoveAssign
<1> QED
  BY <1>1, <1>2, CustodianKept

\* SecureBuffer implements Custody: whatever happens to buffers, a secret has one
\* custodian at a time, passes whole from one to the next, and goes only by being
\* erased.
THEOREM ImplementsCustody == Spec => CustodySpec
<1>1. Init => Secrets!Init
  BY DEF Init, Secrets!Init, custodianOf
<1>2. IInv /\ IInv' /\ [Next]_vars => [Secrets!Next]_custodian
  <2> SUFFICES ASSUME IInv, IInv', [Next]_vars
               PROVE  [Secrets!Next]_custodian
    OBVIOUS
  <2>1. CASE Next
    <3>1. PICK o \in Objects : Step(o)
      BY <2>1 DEF Next
    <3>2. CASE \E p \in Objects : MoveConstruct(o, p)
      <4>1. PICK p \in Objects : MoveConstruct(o, p)
        BY <3>2
      <4> QED
        BY <4>1, StealHandsOver DEF MoveConstruct, IInv, Places, Placed, heap
    <3>3. CASE Take(o)
      BY <3>3, StealHandsOver DEF Take, IInv, Places, Placed, Lends, heap
    <3> QED
      BY <3>1, <3>2, <3>3, FillReceives, ZeroErases, OthersStutter DEF Step
  <2>2. CASE UNCHANGED vars
    BY <2>2 DEF vars, members, heap, custodian, custodianOf
  <2> QED
    BY <2>1, <2>2
<1> QED
  BY <1>1, <1>2, InvariantHolds, PTL DEF Spec, CustodySpec, Secrets!Spec, custodian
=============================================================================

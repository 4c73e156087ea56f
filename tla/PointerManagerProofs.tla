------------------------- MODULE PointerManagerProofs -------------------------
(***************************************************************************)
(* Proofs about gPointerManager for any number of objects, addresses and   *)
(* threads.  HeldObjectLives, RegisteredObjectLives and NothingLeaks are   *)
(* inductive together: a lookup only hands out what the map holds, the map *)
(* only holds what is on the heap, and only a reference keeps it there.    *)
(***************************************************************************)
EXTENDS PointerManager, TLAPS

\* The inductive invariant.
IInv == TypeOK /\ HeldObjectLives /\ RegisteredObjectLives /\ NothingLeaks

\* Initially nothing is registered, held or allocated.
LEMMA InitEstablishesIInv == Init => IInv
  BY PointerAssumption
     DEF Init, IInv, TypeOK, HeldObjectLives, RegisteredObjectLives,
         NothingLeaks

\* RegisterPointer puts a new object into the map and on the heap.
LEMMA RegisterKeepsIInv ==
  ASSUME IInv, NEW o \in Objects, NEW a \in Addrs, RegisterPointer(o, a)
  PROVE  IInv'
<1> USE PointerAssumption DEF IInv, RegisterPointer
<1>1. _registeredPointers[a] = None
  BY DEF TypeOK, RegisteredObjectLives
<1>2. TypeOK'
  BY DEF TypeOK
<1>3. HeldObjectLives'
  BY DEF TypeOK, HeldObjectLives
<1>4. RegisteredObjectLives'
  BY <1>1 DEF TypeOK, RegisteredObjectLives
<1>5. NothingLeaks'
  BY <1>1 DEF TypeOK, NothingLeaks
<1> QED
  BY <1>2, <1>3, <1>4, <1>5

\* TryCastTo hands out an object of the map.
LEMMA TryCastToKeepsIInv ==
  ASSUME IInv, NEW t \in Threads, NEW id \in Addrs \X Objects, NEW T \in Types,
         TryCastTo(t, id, T)
  PROVE  IInv'
<1> USE PointerAssumption DEF IInv, TryCastTo
<1>1. id[1] \in Addrs /\ id[2] \in Objects
  OBVIOUS
<1>2. TypeOK'
  BY <1>1 DEF TypeOK
<1>3. HeldObjectLives'
  BY <1>1 DEF TypeOK, HeldObjectLives, RegisteredObjectLives
<1>4. RegisteredObjectLives'
  BY DEF RegisteredObjectLives
<1>5. NothingLeaks'
  BY DEF TypeOK, NothingLeaks
<1> QED
  BY <1>2, <1>3, <1>4, <1>5

\* Erasing an entry deletes the object only if no thread holds it.
LEMMA EraseKeepsIInv ==
  ASSUME IInv, NEW a \in Addrs, Erase(a)
  PROVE  IInv'
<1> USE PointerAssumption DEF IInv, Erase, Survivors
<1>1. TypeOK'
  BY DEF TypeOK
<1>2. HeldObjectLives'
  BY DEF TypeOK, HeldObjectLives
<1>3. RegisteredObjectLives'
  BY DEF TypeOK, RegisteredObjectLives
<1>4. NothingLeaks'
  BY DEF TypeOK, NothingLeaks
<1> QED
  BY <1>1, <1>2, <1>3, <1>4

\* Releasing a shared_ptr deletes the object only if it was the last one.
LEMMA ReleaseKeepsIInv ==
  ASSUME IInv, NEW t \in Threads, Release(t)
  PROVE  IInv'
<1> USE PointerAssumption DEF IInv, Release, Survivors
<1>1. TypeOK'
  BY DEF TypeOK
<1>2. HeldObjectLives'
  BY DEF TypeOK, HeldObjectLives
<1>3. RegisteredObjectLives'
  BY DEF TypeOK, RegisteredObjectLives
<1>4. NothingLeaks'
  BY DEF TypeOK, NothingLeaks
<1> QED
  BY <1>1, <1>2, <1>3, <1>4

\* Every step of the manager and its users preserves the invariant.
LEMMA NextKeepsIInv == IInv /\ [Next]_vars => IInv'
<1> SUFFICES ASSUME IInv, [Next]_vars PROVE IInv'
  OBVIOUS
<1>1. CASE \E o \in Objects, a \in Addrs : RegisterPointer(o, a)
  BY <1>1, RegisterKeepsIInv
<1>2. CASE \E t \in Threads, id \in Addrs \X Objects, T \in Types :
              TryCastTo(t, id, T)
  BY <1>2, TryCastToKeepsIInv
<1>3. CASE \E t \in Threads : UnregisterPointer(t)
  <2> PICK t \in Threads : UnregisterPointer(t)
    BY <1>3
  <2>1. at[t] \in Addrs
    BY DEF UnregisterPointer, IInv, HeldObjectLives
  <2> QED
    BY <2>1, EraseKeepsIInv DEF UnregisterPointer
<1>4. CASE \E id \in Addrs \X Objects : FreeSerializationSession(id)
  BY <1>4, EraseKeepsIInv DEF FreeSerializationSession
<1>5. CASE \E t \in Threads : Release(t)
  BY <1>5, ReleaseKeepsIInv
<1>6. CASE UNCHANGED vars
  BY <1>6 DEF vars, IInv, TypeOK, HeldObjectLives, RegisteredObjectLives,
              NothingLeaks
<1> QED
  BY <1>1, <1>2, <1>3, <1>4, <1>5, <1>6 DEF Next

\* The inductive invariant holds in every reachable state.
THEOREM IInvInvariant == Spec => []IInv
  BY InitEstablishesIInv, NextKeepsIInv, PTL DEF Spec

\* Type correctness of the pointer manager.
THEOREM TypeCorrect == Spec => []TypeOK
<1>1. IInv => TypeOK
  BY DEF IInv
<1> QED
  BY <1>1, IInvInvariant, PTL

\* No API function works on a destroyed object, whatever other threads
\* unregister meanwhile (pointer_manager.h:18).
THEOREM HeldObjectsLive == Spec => []HeldObjectLives
<1>1. IInv => HeldObjectLives
  BY DEF IInv
<1> QED
  BY <1>1, IInvInvariant, PTL

\* A lookup can only find objects that exist, at their own address.
THEOREM RegisteredObjectsLive == Spec => []RegisteredObjectLives
<1>1. IInv => RegisteredObjectLives
  BY DEF IInv
<1> QED
  BY <1>1, IInvInvariant, PTL

\* Unregistered objects are deleted by the last thread that lets go of them
\* (pointer_manager.h:20).
THEOREM NothingIsLeaked == Spec => []NothingLeaks
<1>1. IInv => NothingLeaks
  BY DEF IInv
<1> QED
  BY <1>1, IInvInvariant, PTL

\* An object that was unregistered is never found again
\* (grpc_client.cc:870).
THEOREM UnregisteredIsGone == Spec => UnregisteredStaysGone
<1>1. ASSUME IInv, [Next]_vars, NEW o \in Objects, Unregistered(o)
      PROVE  KeptAway(o)
  <2> USE <1>1, PointerAssumption DEF IInv, Unregistered, KeptAway
  <2>0. o # None
    OBVIOUS
  <2>1. CASE \E p \in Objects, a \in Addrs : RegisterPointer(p, a)
    BY <2>1 DEF TypeOK, RegisterPointer
  <2>2. CASE \E t \in Threads, id \in Addrs \X Objects, T \in Types :
                TryCastTo(t, id, T)
    <3> PICK t \in Threads, id \in Addrs \X Objects, T \in Types :
               TryCastTo(t, id, T)
      BY <2>2
    <3>1. _registeredPointers[id[1]] # o
      OBVIOUS
    <3> QED
      BY <3>1 DEF TypeOK, TryCastTo
  <2>3. CASE \E a \in Addrs : Erase(a)
    BY <2>3, <2>0 DEF TypeOK, Erase
  <2>4. CASE \E t \in Threads : Release(t)
    BY <2>4, <2>0 DEF TypeOK, Release
  <2>5. CASE UNCHANGED vars
    BY <2>5 DEF vars
  <2>6. (\E t \in Threads : UnregisterPointer(t)) => \E a \in Addrs : Erase(a)
    BY DEF UnregisterPointer, HeldObjectLives
  <2>7. (\E id \in Addrs \X Objects : FreeSerializationSession(id))
            => \E a \in Addrs : Erase(a)
    BY DEF FreeSerializationSession
  <2> QED
    BY <2>1, <2>2, <2>3, <2>4, <2>5, <2>6, <2>7 DEF Next
<1>2. IInv /\ [Next]_vars
        => [\A o \in Objects : Unregistered(o) => KeptAway(o)]_vars
  BY <1>1
<1> QED
  BY <1>2, IInvInvariant, PTL DEF Spec, UnregisteredStaysGone
=============================================================================

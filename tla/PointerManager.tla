---------------------------- MODULE PointerManager ----------------------------
(***************************************************************************)
(* gPointerManager (pointer_manager.h): the objects whose addresses are    *)
(* handed to LabVIEW as ids.  An id is an address; the manager maps the    *)
(* registered addresses to shared_ptrs.  Every method holds _mutex for its *)
(* whole body and is one step.  The allocator may give the address of a    *)
(* destroyed object to a new one.                                          *)
(***************************************************************************)
CONSTANTS Objects,   \* object identities, each created once
          Addrs,     \* addresses the allocator can return
          Threads,   \* LabVIEW execution threads
          Types,     \* types an id can be cast to
          TypesOf,   \* the types dynamic_pointer_cast finds in an object
          None       \* no object

ASSUME PointerAssumption == /\ None \notin Objects
                            /\ TypesOf \in [Objects -> SUBSET Types]

VARIABLES
    heap,                 \* the object at every address
    _registeredPointers,  \* the manager's map
    ids,                  \* <<address, object>>: ids LabVIEW was given
    held,                 \* the shared_ptr TryCastTo returned to a thread
    at                    \* the address that thread passed in

vars == <<heap, _registeredPointers, ids, held, at>>

TypeOK ==
    /\ heap \in [Addrs -> Objects \cup {None}]
    /\ _registeredPointers \in [Addrs -> Objects \cup {None}]
    /\ ids \subseteq Addrs \X Objects
    /\ held \in [Threads -> Objects \cup {None}]
    /\ at \in [Threads -> Addrs \cup {None}]

\* Mutant: the map is not asked whether it still owns the object.
Survivors_HeldOnly(reg, hold) ==
    [a \in Addrs |-> IF \E t \in Threads : hold[t] = heap[a]
                     THEN heap[a] ELSE None]

\* What is left on the heap once the map is reg and the threads hold hold:
\* the last shared_ptr to an object deletes it.
Survivors(reg, hold) ==
    [a \in Addrs |-> IF reg[a] = heap[a] \/ \E t \in Threads : hold[t] = heap[a]
                     THEN heap[a] ELSE None]

\* RegisterPointer, both overloads: a new object o, which the allocator put at
\* a free address a; an entry that is already there is kept.
RegisterPointer(o, a) ==
    /\ heap[a] = None
    /\ \A b \in Addrs : <<b, o>> \notin ids
    /\ heap' = [heap EXCEPT ![a] = o]
    /\ _registeredPointers' = [_registeredPointers EXCEPT
                                 ![a] = IF @ = None THEN o ELSE @]
    /\ ids' = ids \cup {<<a, o>>}
    /\ UNCHANGED <<held, at>>

\* Mutant: the address is followed without a lookup in the map.
TryCastTo_NoLookup(t, id, T) ==
    LET o == heap[id[1]] IN
    /\ held[t] = None
    /\ id \in ids
    /\ o # None
    /\ T \in TypesOf[o]
    /\ held' = [held EXCEPT ![t] = o]
    /\ at' = [at EXCEPT ![t] = id[1]]
    /\ UNCHANGED <<heap, _registeredPointers, ids>>

\* TryCastTo<T>(ptr) that returns a shared_ptr; when ptr is not registered or
\* has another type it returns a null pointer and nothing changes.
TryCastTo(t, id, T) ==
    LET o == _registeredPointers[id[1]] IN
    /\ held[t] = None
    /\ id \in ids
    /\ o # None
    /\ T \in TypesOf[o]
    /\ held' = [held EXCEPT ![t] = o]
    /\ at' = [at EXCEPT ![t] = id[1]]
    /\ UNCHANGED <<heap, _registeredPointers, ids>>

\* Mutant: erasing the entry deletes the object.
Erase_Deletes(a) ==
    /\ _registeredPointers' = [_registeredPointers EXCEPT ![a] = None]
    /\ heap' = [heap EXCEPT ![a] = None]
    /\ UNCHANGED <<ids, held, at>>

\* _registeredPointers.erase(ptr).
Erase(a) ==
    /\ _registeredPointers' = [_registeredPointers EXCEPT ![a] = None]
    /\ heap' = Survivors(_registeredPointers', held)
    /\ UNCHANGED <<ids, held, at>>

\* UnregisterPointer(ptr) by an API function that holds the object: all the
\* Close, Complete, Cancel and Stop functions.
UnregisterPointer(t) == held[t] # None /\ Erase(at[t])

\* FreeSerializationSession unregisters whatever CastTo answered.
FreeSerializationSession(id) == id \in ids /\ Erase(id[1])

\* Mutant: a raw pointer instead of a shared_ptr, nobody deletes the object.
Release_NoDelete(t) ==
    /\ held[t] # None
    /\ held' = [held EXCEPT ![t] = None]
    /\ at' = [at EXCEPT ![t] = None]
    /\ UNCHANGED <<heap, _registeredPointers, ids>>

\* The shared_ptr of an API function goes out of scope.
Release(t) ==
    /\ held[t] # None
    /\ held' = [held EXCEPT ![t] = None]
    /\ at' = [at EXCEPT ![t] = None]
    /\ heap' = Survivors(_registeredPointers, held')
    /\ UNCHANGED <<_registeredPointers, ids>>

Init ==
    /\ heap = [a \in Addrs |-> None]
    /\ _registeredPointers = [a \in Addrs |-> None]
    /\ ids = {}
    /\ held = [t \in Threads |-> None]
    /\ at = [t \in Threads |-> None]

Next ==
    \/ \E o \in Objects, a \in Addrs : RegisterPointer(o, a)
    \/ \E t \in Threads, id \in Addrs \X Objects, T \in Types :
          TryCastTo(t, id, T)
    \/ \E t \in Threads : UnregisterPointer(t)
    \/ \E id \in Addrs \X Objects : FreeSerializationSession(id)
    \/ \E t \in Threads : Release(t)

Spec == Init /\ [][Next]_vars

----------------------------------------------------------------------------
(* Properties *)

\* The promise of pointer_manager.h:18: an object an API function
\* works on exists, at the address it was looked up by, whatever other
\* threads unregister.
HeldObjectLives ==
    \A t \in Threads : held[t] # None => at[t] \in Addrs /\ heap[at[t]] = held[t]

\* The map only holds objects that exist, so no lookup can answer with a
\* destroyed one, and no address is mapped to an object of another address.
RegisteredObjectLives ==
    \A a \in Addrs :
        _registeredPointers[a] # None => heap[a] = _registeredPointers[a]

\* "delete ... when there are no remaining instances of std::shared_ptr"
\* (pointer_manager.h:20): what is on the heap is registered or in use.
NothingLeaks ==
    \A a \in Addrs : heap[a] # None =>
        \/ _registeredPointers[a] = heap[a]
        \/ \E t \in Threads : held[t] = heap[a]

\* o was registered and is not any more.
Unregistered(o) == /\ \E a \in Addrs : <<a, o>> \in ids
                   /\ \A a \in Addrs : _registeredPointers[a] # o

\* This step neither registers o again nor gives it to a thread.
KeptAway(o) == /\ \A a \in Addrs : _registeredPointers'[a] # o
               /\ \A t \in Threads : held'[t] = o => held[t] = o

\* grpc_client.cc:870: unregistering first "will just prevent any other API
\* calls from grabbing the pointer".  An object that was registered and is not
\* any more is never handed out again, even by a thread with an old id.
UnregisteredStaysGone ==
    [][\A o \in Objects : Unregistered(o) => KeptAway(o)]_vars
=============================================================================

------------------------------- MODULE FixedAny -------------------------------
(* mc::fixed_any (include/minicomps/fixed_any.h), which holds the data of the *)
(* executor's tasks: a value of any type, built inside a buffer of the object *)
(* if it fits there and on the heap otherwise. The type is known to the       *)
(* two functions destruct_ and move_construct_ only.                          *)
(*                                                                            *)
(* Memory is modelled: an object lives at an address of a buffer or in a cell *)
(* of the heap. fixed_anys are assigned, moved into one another, destroyed    *)
(* and constructed anew in any order, as the elements of a std::vector are.   *)
EXTENDS Integers, Functions

CONSTANTS Anys, None,
          storage_,       \* fixed_any -> the address of its buffer
          Length,         \* sizeof(storage_)
          max_align_t,    \* what the buffer is aligned to
          Types, sizeof, alignof,
          Values,         \* move-only values, which are in one place at a time
          Heap            \* bound: cells of the heap

ASSUME FixedAnyAssumption ==
    /\ Length \in Nat /\ max_align_t \in Nat \ {0}
    /\ sizeof \in [Types -> Nat \ {0}] /\ alignof \in [Types -> Nat \ {0}]
    /\ storage_ \in [Anys -> Nat]
    /\ \A a \in Anys : storage_[a] % max_align_t = 0
    /\ \A a, b \in Anys : storage_[a] < storage_[b] => storage_[a] + Length <= storage_[b]
    /\ \A a, b \in Anys : storage_[a] = storage_[b] => a = b
    /\ Heap \cap Nat = {} /\ None \notin Heap \cup Nat \cup Types \cup Values

VARIABLES
    aligned_ptr_,   \* fixed_any -> where in its buffer the object is, or None
    object_ptr_,    \* fixed_any -> where its object is, or None
    functions,      \* fixed_any -> the type destruct_ and move_construct_ are for, or None
    memory,         \* address -> the object that lives there: its type and value
    ended           \* std::abort was called, or the behaviour is undefined

vars == <<aligned_ptr_, object_ptr_, functions, memory, ended>>

Init == /\ aligned_ptr_ = [a \in Anys |-> None]
        /\ object_ptr_ = [a \in Anys |-> None]
        /\ functions = [a \in Anys |-> None]
        /\ memory = << >>
        /\ ended = FALSE

Live == DOMAIN memory
Object(T, v) == [type |-> T, value |-> v]
Fresh(v) == \A p \in Live : memory[p].value # v

\* the objects that are left when some were destroyed, and one more
Without(ps) == Restrict(memory, Live \ ps)
Construct(p, o, mem) == memory' = [q \in DOMAIN mem \cup {p} |-> IF q = p THEN o ELSE mem[q]]

\* mutant: the alignment is not reckoned with
FitsBySize(T) == sizeof[T] <= Length
\* "We know for sure that there's space for the object and its alignment"
Fits(T) == sizeof[T] + alignof[T] - 1 <= Length

Aligned(p, T) == p % alignof[T] = 0
\* std::align
Align(p, T) == p + ((alignof[T] - (p % alignof[T])) % alignof[T])

(* ------------------------------- the operations --------------------------- *)

\* mutant: the old value is not destroyed
AssignOver(a, T, v) ==
    /\ ~ended /\ Fresh(v)
    /\ \E p \in (IF Fits(T) THEN {Align(storage_[a], T)} ELSE Heap \ Live) :
           /\ aligned_ptr_' = [aligned_ptr_ EXCEPT ![a] = IF Fits(T) THEN p ELSE None]
           /\ object_ptr_' = [object_ptr_ EXCEPT ![a] = p]
           /\ Construct(p, Object(T, v), memory)
    /\ functions' = [functions EXCEPT ![a] = T]
    /\ UNCHANGED ended

\* assign(T&& value)
Assign(a, T, v) ==
    /\ ~ended /\ Fresh(v)
    /\ \E p \in (IF Fits(T) THEN {Align(storage_[a], T)} ELSE Heap \ Live) :
           /\ aligned_ptr_' = [aligned_ptr_ EXCEPT ![a] = IF Fits(T) THEN p ELSE None]
           /\ object_ptr_' = [object_ptr_ EXCEPT ![a] = p]
           /\ Construct(p, Object(T, v), Without({object_ptr_[a]}))
    /\ functions' = [functions EXCEPT ![a] = T]
    /\ UNCHANGED ended

\* assign(fixed_any&& other) goes by what other holds. Its object is built at the
\* same distance from the beginning of the buffer, or in another cell of the heap.
\* "Diff is OK since the storage is max-aligned"
Places(a, b) == IF aligned_ptr_[b] = None
                THEN Heap \ DOMAIN Without({object_ptr_[a]})
                ELSE {storage_[a] + (aligned_ptr_[b] - storage_[b])}

\* check_alignment<T>(target)
Misaligned(a, b) == aligned_ptr_[b] # None /\ \E p \in Places(a, b) : ~Aligned(p, functions[b])

\* move_construct_ of other is an empty std::function: std::bad_function_call,
\* when the value of a is destroyed already. Its functions stay.
MoveThrows(a, b) ==
    /\ ~ended /\ a # b /\ functions[b] = None
    /\ aligned_ptr_' = [aligned_ptr_ EXCEPT ![a] = None]
    /\ object_ptr_' = [object_ptr_ EXCEPT ![a] = None]
    /\ memory' = Without({object_ptr_[a]})
    /\ UNCHANGED <<functions, ended>>

\* move_construct_ finds the target misaligned, or gets a null pointer: other was
\* left behind by MoveThrows.
MoveCrashes(a, b) ==
    /\ ~ended /\ a # b /\ functions[b] # None
    /\ object_ptr_[b] = None \/ Misaligned(a, b)
    /\ ended' = TRUE
    /\ UNCHANGED <<aligned_ptr_, object_ptr_, functions, memory>>

Movable(a, b) == ~ended /\ a # b /\ object_ptr_[b] # None /\ functions[b] # None

\* where the objects of a and b are after the move; p: where the new one is
MovePointers(a, b, p) ==
    /\ aligned_ptr_' = [aligned_ptr_ EXCEPT ![a] = IF p \in Nat THEN p ELSE None, ![b] = None]
    /\ object_ptr_' = [object_ptr_ EXCEPT ![a] = p, ![b] = None]

\* mutant: other.destroy() is forgotten
MoveLeavesValue(a, b) ==
    /\ Movable(a, b) /\ ~Misaligned(a, b)
    /\ \E p \in Places(a, b) :
           /\ aligned_ptr_' = [aligned_ptr_ EXCEPT ![a] = IF p \in Nat THEN p ELSE None]
           /\ object_ptr_' = [object_ptr_ EXCEPT ![a] = p]
           /\ Construct(p, memory[object_ptr_[b]], Without({object_ptr_[a]}))
    /\ functions' = [functions EXCEPT ![a] = functions[b], ![b] = None]
    /\ UNCHANGED ended

\* the value moves, its old place is destroyed, and the functions follow it
Move(a, b) ==
    /\ Movable(a, b) /\ ~Misaligned(a, b)
    /\ \E p \in Places(a, b) :
           /\ MovePointers(a, b, p)
           /\ Construct(p, memory[object_ptr_[b]], Without({object_ptr_[a], object_ptr_[b]}))
    /\ functions' = [functions EXCEPT ![a] = functions[b], ![b] = None]
    /\ UNCHANGED ended

\* mutant: the destructor frees the memory without resetting the pointer
DestroyDangling(a) ==
    /\ ~ended
    /\ memory' = Without({object_ptr_[a]})
    /\ functions' = [functions EXCEPT ![a] = None]
    /\ UNCHANGED <<aligned_ptr_, object_ptr_, ended>>

\* ~fixed_any, after which a new one is constructed in its place
Destroy(a) ==
    /\ ~ended
    /\ aligned_ptr_' = [aligned_ptr_ EXCEPT ![a] = None]
    /\ object_ptr_' = [object_ptr_ EXCEPT ![a] = None]
    /\ memory' = Without({object_ptr_[a]})
    /\ functions' = [functions EXCEPT ![a] = None]
    /\ UNCHANGED ended

Next == \E a \in Anys :
           \/ Destroy(a)
           \/ \E T \in Types, v \in Values : Assign(a, T, v)
           \/ \E b \in Anys : MoveThrows(a, b) \/ MoveCrashes(a, b) \/ Move(a, b)

Spec == Init /\ [][Next]_vars
-----------------------------------------------------------------------------

\* Types of the fields; a pointer to an object points to one that lives.
TypeOK ==
    /\ aligned_ptr_ \in [Anys -> Nat \cup {None}]
    /\ object_ptr_ \in [Anys -> Live \cup {None}]
    /\ functions \in [Anys -> Types \cup {None}]
    /\ Live \subseteq Nat \cup Heap
    /\ \A p \in Live : memory[p].type \in Types /\ memory[p].value \in Values
    /\ ended \in BOOLEAN

\* No assignment, move or destruction leaks an object or makes two fixed_anys
\* destroy the same one: every object that lives has one owner, whose destruct_ and
\* move_construct_ cast it to the type it has -- also after a move that threw and
\* left functions without an object.
OneOwner == \A p \in Live : \E a \in Anys :
    /\ functions[a] = memory[p].type
    /\ \A b \in Anys : object_ptr_[b] = p <=> b = a

\* "aligned object goes out of bounds": an object that is not on the heap is
\* within the buffer of its own fixed_any, however it got there, and where its
\* type may be, so check_alignment() in destruct_ passes.
InStorage == \A a \in Anys : object_ptr_[a] \in Nat =>
    LET T == memory[object_ptr_[a]].type IN
    /\ storage_[a] <= object_ptr_[a] /\ object_ptr_[a] + sizeof[T] <= storage_[a] + Length
    /\ Aligned(object_ptr_[a], T)
    /\ aligned_ptr_[a] = object_ptr_[a]

\* "No type checking": get() of who knows the type is what was put in. A
\* fixed_any is a Box, and a move from an empty one clears it.
get(a) == IF object_ptr_[a] = None THEN None ELSE memory[object_ptr_[a]].value
Box == INSTANCE Box WITH Boxes <- Anys, Empty <- None, holds <- [a \in Anys |-> get(a)]
ImplementsBox == Box!BoxSpec
=============================================================================

--------------------------- MODULE FixedAnyProofs ---------------------------
(* Proofs about FixedAny for any buffers, types and values. The argument: an  *)
(* object's place is in the buffer of its own fixed_any or in a free cell of  *)
(* the heap, so an object that is built never lies on another one:            *)
(*   ReplaceKeeps  what a new object at a free place keeps, whether it was    *)
(*                 put there by an assignment or by a move;                   *)
(*   RemoveKeeps   what destroying the object of one fixed_any keeps.         *)
EXTENDS FixedAny, TLAPS

\* aligned_ptr_ is set for objects in the buffer only.
AlignedInBuffer == \A a \in Anys : object_ptr_[a] \notin Nat => aligned_ptr_[a] = None

\* A value lives in one place.
NoTwins == \A p, q \in Live : memory[p].value = memory[q].value => p = q

IInv == TypeOK /\ OneOwner /\ InStorage /\ AlignedInBuffer /\ NoTwins

\* p is where fixed_any a may have an object of type T.
Place(a, p, T) ==
    \/ p \in Heap
    \/ /\ p \in Nat
       /\ storage_[a] <= p /\ p + sizeof[T] <= storage_[a] + Length
       /\ Aligned(p, T)
-----------------------------------------------------------------------------
\* std::align rounds up to a multiple of the alignment, by less than it.
LEMMA AlignRoundsUp ==
  ASSUME NEW p \in Nat, NEW n \in Nat \ {0}
  PROVE  LET q == p + ((n - (p % n)) % n)
         IN q \in Nat /\ p <= q /\ q <= p + n - 1 /\ q % n = 0
<1> DEFINE r == p % n
           d == (n - r) % n
<1>1. r \in 0..(n - 1) /\ p = n * (p \div n) + r /\ p \div n \in Nat
  OBVIOUS
<1>2. CASE r = 0
  <2>1. d = 0  BY <1>2
  <2> QED  BY <1>1, <1>2, <2>1
<1>3. CASE r # 0
  <2>1. n - r \in 1..(n - 1)  BY <1>1, <1>3
  <2>2. d = n - r  BY <2>1
  <2>3. p + d = n * (p \div n + 1)  BY <1>1, <2>2
  <2>4. (n * (p \div n + 1)) % n = 0  BY <1>1
  <2> HIDE DEF d
  <2>5. (p + d) % n = 0  BY <2>3, <2>4
  <2> QED  BY <1>1, <2>1, <2>2, <2>5 DEF d
<1> QED  BY <1>2, <1>3

\* Objects of different fixed_anys that may be where they are lie apart.
LEMMA PlacesApart ==
  ASSUME IInv, NEW a \in Anys, NEW b \in Anys, a # b, NEW T \in Types,
         NEW p \in Nat, Place(a, p, T)
  PROVE  object_ptr_[b] # p
<1> SUFFICES ASSUME object_ptr_[b] = p PROVE FALSE
  OBVIOUS
<1>1. p \in Live /\ memory[p].type \in Types  BY FixedAnyAssumption DEF IInv, TypeOK
<1>2. storage_[b] <= p /\ p + sizeof[memory[p].type] <= storage_[b] + Length
  BY DEF IInv, InStorage
<1>3. storage_[a] <= p /\ p + sizeof[T] <= storage_[a] + Length
  BY FixedAnyAssumption DEF Place
<1>4. /\ storage_[a] \in Nat /\ storage_[b] \in Nat /\ Length \in Nat
      /\ sizeof[T] \in Nat \ {0} /\ sizeof[memory[p].type] \in Nat \ {0}
  BY <1>1, FixedAnyAssumption
<1>5. /\ storage_[a] < storage_[b] => storage_[a] + Length <= storage_[b]
      /\ storage_[b] < storage_[a] => storage_[b] + Length <= storage_[a]
      /\ storage_[a] # storage_[b]
  BY FixedAnyAssumption
<1> QED  BY <1>2, <1>3, <1>4, <1>5

\* The object a fixed_any points to lives, is its own and has the type that
\* destruct_ and move_construct_ are for.
LEMMA Owned ==
  ASSUME IInv, NEW a \in Anys, object_ptr_[a] # None
  PROVE  /\ object_ptr_[a] \in Live
         /\ functions[a] = memory[object_ptr_[a]].type
         /\ \A b \in Anys : object_ptr_[b] = object_ptr_[a] => b = a
<1>1. object_ptr_[a] \in Live  BY DEF IInv, TypeOK
<1>2. PICK c \in Anys : /\ functions[c] = memory[object_ptr_[a]].type
                        /\ \A b \in Anys : object_ptr_[b] = object_ptr_[a] <=> b = c
  BY <1>1 DEF IInv, OneOwner
<1>3. c = a  BY <1>2
<1> QED  BY <1>1, <1>2, <1>3

\* destroy() of the object of one fixed_any: the others have nothing to do with it.
LEMMA RemoveKeeps ==
  ASSUME IInv, NEW a \in Anys,
         memory' = Without({object_ptr_[a]}),
         aligned_ptr_' = [aligned_ptr_ EXCEPT ![a] = None],
         object_ptr_' = [object_ptr_ EXCEPT ![a] = None],
         functions' \in [Anys -> Types \cup {None}],
         \A c \in Anys \ {a} : functions'[c] = functions[c],
         UNCHANGED ended
  PROVE  /\ IInv'
         /\ \A c \in Anys : get(c)' = IF c = a THEN None ELSE get(c)
<1>1. /\ DOMAIN memory' = Live \ {object_ptr_[a]}
      /\ \A q \in DOMAIN memory' : q \in Live /\ memory'[q] = memory[q]
  BY DEF Without, Restrict, Live
<1>2. /\ object_ptr_'[a] = None /\ aligned_ptr_'[a] = None
      /\ \A c \in Anys \ {a} : /\ object_ptr_'[c] = object_ptr_[c]
                               /\ aligned_ptr_'[c] = aligned_ptr_[c]
  BY DEF IInv, TypeOK
<1>3. None \notin Nat /\ None \notin Heap  BY FixedAnyAssumption
<1>4. \A c \in Anys \ {a} : object_ptr_[c] # None => object_ptr_[c] \in DOMAIN memory'
  BY <1>1, Owned
<1>5. TypeOK'
  <2>1. object_ptr_' \in [Anys -> DOMAIN memory' \cup {None}]
    BY <1>2, <1>4 DEF IInv, TypeOK
  <2>2. aligned_ptr_' \in [Anys -> Nat \cup {None}]  BY DEF IInv, TypeOK
  <2>3. /\ DOMAIN memory' \subseteq Nat \cup Heap
        /\ \A q \in DOMAIN memory' : memory'[q].type \in Types /\ memory'[q].value \in Values
    BY <1>1 DEF IInv, TypeOK
  <2>4. ended' \in BOOLEAN  BY DEF IInv, TypeOK
  <2> QED  BY <2>1, <2>2, <2>3, <2>4 DEF TypeOK, Live
<1>6. OneOwner'
  <2> SUFFICES ASSUME NEW q \in DOMAIN memory'
               PROVE  \E c \in Anys : /\ functions'[c] = memory'[q].type
                                      /\ \A b \in Anys : object_ptr_'[b] = q <=> b = c
    BY DEF OneOwner, Live
  <2>1. q \in Live /\ memory'[q] = memory[q] /\ q # object_ptr_[a]  BY <1>1
  <2>2. PICK c \in Anys : /\ functions[c] = memory[q].type
                          /\ \A b \in Anys : object_ptr_[b] = q <=> b = c
    BY <2>1 DEF IInv, OneOwner
  <2>3. c # a  BY <2>1, <2>2
  <2>4. q # None  BY <1>3, <2>1 DEF IInv, TypeOK
  <2> QED  BY <1>2, <2>1, <2>2, <2>3, <2>4
<1>7. InStorage'
  <2> SUFFICES ASSUME NEW c \in Anys, object_ptr_'[c] \in Nat
               PROVE  LET T == memory'[object_ptr_'[c]].type IN
                      /\ storage_[c] <= object_ptr_'[c]
                      /\ object_ptr_'[c] + sizeof[T] <= storage_[c] + Length
                      /\ Aligned(object_ptr_'[c], T)
                      /\ aligned_ptr_'[c] = object_ptr_'[c]
    BY DEF InStorage, Aligned
  <2>1. c # a  BY <1>2, <1>3
  <2>2. object_ptr_'[c] = object_ptr_[c] /\ aligned_ptr_'[c] = aligned_ptr_[c]  BY <1>2, <2>1
  <2>3. memory'[object_ptr_'[c]] = memory[object_ptr_[c]]
    BY <1>1, <1>3, <1>4, <2>1, <2>2
  <2> QED  BY <2>2, <2>3 DEF IInv, InStorage
<1>8. AlignedInBuffer'  BY <1>2 DEF IInv, AlignedInBuffer
<1>9. NoTwins'
  <2> SUFFICES ASSUME NEW p \in DOMAIN memory', NEW q \in DOMAIN memory',
                      memory'[p].value = memory'[q].value
               PROVE  p = q
    BY DEF NoTwins, Live
  <2>1. /\ p \in Live /\ memory'[p] = memory[p]
        /\ q \in Live /\ memory'[q] = memory[q]
    BY <1>1
  <2>2. memory[p].value = memory[q].value => p = q  BY <2>1 DEF IInv, NoTwins
  <2> QED  BY <2>1, <2>2
<1>10. \A c \in Anys : get(c)' = IF c = a THEN None ELSE get(c)
  BY <1>1, <1>2, <1>4 DEF get
<1> QED  BY <1>5, <1>6, <1>7, <1>8, <1>9, <1>10 DEF IInv

\* a gets a new object o at p, in place of its old one and of the one b had (b is a
\* when the object is built from a value that was in no fixed_any).
LEMMA ReplaceKeeps ==
  ASSUME IInv, NEW a \in Anys, NEW b \in Anys, NEW p, NEW o,
         o.type \in Types, o.value \in Values,
         Place(a, p, o.type),
         p \in Heap => p \notin Live \ {object_ptr_[a], object_ptr_[b]},
         \A q \in Live \ {object_ptr_[a], object_ptr_[b]} : memory[q].value # o.value,
         Construct(p, o, Without({object_ptr_[a], object_ptr_[b]})),
         object_ptr_' = [c \in Anys |-> IF c = a THEN p ELSE IF c = b THEN None
                                        ELSE object_ptr_[c]],
         aligned_ptr_' = [c \in Anys |-> IF c = a THEN IF p \in Nat THEN p ELSE None
                                         ELSE IF c = b THEN None ELSE aligned_ptr_[c]],
         functions' \in [Anys -> Types \cup {None}], functions'[a] = o.type,
         \A c \in Anys \ {a, b} : functions'[c] = functions[c],
         UNCHANGED ended
  PROVE  /\ IInv'
         /\ \A c \in Anys : get(c)' = IF c = a THEN o.value ELSE IF c = b THEN None ELSE get(c)
<1> DEFINE Left == Live \ {object_ptr_[a], object_ptr_[b]}
<1>1. /\ DOMAIN memory' = Left \cup {p}
      /\ memory'[p] = o
      /\ \A q \in Left : q # p => memory'[q] = memory[q]
  BY DEF Construct, Without, Restrict, Live
<1>2. None \notin Nat /\ None \notin Heap /\ \A h \in Heap : h \notin Nat
  BY FixedAnyAssumption
<1>3. p \in Nat \cup Heap /\ p # None  BY <1>2 DEF Place
<1>4. p \notin Left
  <2> SUFFICES ASSUME p \in Left PROVE FALSE
    OBVIOUS
  <2>1. p \in Nat  BY <1>3
  <2>2. PICK c \in Anys : object_ptr_[c] = p  BY DEF IInv, OneOwner
  <2>3. c # a  BY <2>2
  <2> QED  BY <2>1, <2>2, <2>3, PlacesApart
<1>5. /\ object_ptr_'[a] = p
      /\ \A c \in Anys \ {a, b} : /\ object_ptr_'[c] = object_ptr_[c]
                                  /\ aligned_ptr_'[c] = aligned_ptr_[c]
      /\ b # a => object_ptr_'[b] = None /\ aligned_ptr_'[b] = None
  OBVIOUS
<1>6. \A c \in Anys \ {a, b} : object_ptr_[c] # None =>
          object_ptr_[c] \in Left /\ object_ptr_[c] # p
  <2> SUFFICES ASSUME NEW c \in Anys \ {a, b}, object_ptr_[c] # None
               PROVE  object_ptr_[c] \in Left
    BY <1>4
  <2> QED  BY Owned
<1> HIDE DEF Left
<1>7. TypeOK'
  <2>1. object_ptr_' \in [Anys -> DOMAIN memory' \cup {None}]
    <3> SUFFICES ASSUME NEW c \in Anys PROVE object_ptr_'[c] \in DOMAIN memory' \cup {None}
      OBVIOUS
    <3> QED  BY <1>1, <1>5, <1>6
  <2>2. aligned_ptr_' \in [Anys -> Nat \cup {None}]  BY DEF IInv, TypeOK
  <2>3. DOMAIN memory' \subseteq Nat \cup Heap  BY <1>1, <1>3 DEF IInv, TypeOK, Left
  <2>4. \A q \in DOMAIN memory' : memory'[q].type \in Types /\ memory'[q].value \in Values
    BY <1>1 DEF IInv, TypeOK, Left
  <2>5. ended' \in BOOLEAN  BY DEF IInv, TypeOK
  <2> QED  BY <2>1, <2>2, <2>3, <2>4, <2>5 DEF TypeOK, Live
<1>8. OneOwner'
  <2> SUFFICES ASSUME NEW q \in DOMAIN memory'
               PROVE  \E c \in Anys : /\ functions'[c] = memory'[q].type
                                      /\ \A d \in Anys : object_ptr_'[d] = q <=> d = c
    BY DEF OneOwner, Live
  <2>1. CASE q = p
    <3>1. \A d \in Anys : object_ptr_'[d] = p => d = a  BY <1>3, <1>5, <1>6
    <3> QED  BY <1>1, <1>5, <2>1, <3>1
  <2>2. CASE q # p
    <3>1. q \in Left /\ memory'[q] = memory[q]  BY <1>1, <2>2
    <3>2. q \in Live /\ q # object_ptr_[a] /\ q # object_ptr_[b] /\ q # None
      BY <1>2, <3>1 DEF IInv, TypeOK, Left
    <3>3. PICK c \in Anys : /\ functions[c] = memory[q].type
                            /\ \A d \in Anys : object_ptr_[d] = q <=> d = c
      BY <3>2 DEF IInv, OneOwner
    <3>4. c # a /\ c # b  BY <3>2, <3>3
    <3>5. \A d \in Anys : object_ptr_'[d] = q <=> d = c  BY <1>5, <2>2, <3>2, <3>3, <3>4
    <3> QED  BY <3>1, <3>3, <3>4, <3>5
  <2> QED  BY <2>1, <2>2
<1>9. InStorage'
  <2> SUFFICES ASSUME NEW c \in Anys, object_ptr_'[c] \in Nat
               PROVE  LET T == memory'[object_ptr_'[c]].type IN
                      /\ storage_[c] <= object_ptr_'[c]
                      /\ object_ptr_'[c] + sizeof[T] <= storage_[c] + Length
                      /\ Aligned(object_ptr_'[c], T)
                      /\ aligned_ptr_'[c] = object_ptr_'[c]
    BY DEF InStorage, Aligned
  <2>1. CASE c = a
    <3>1. p \in Nat /\ p \notin Heap  BY <1>2, <1>5, <2>1
    <3> QED  BY <1>1, <1>5, <2>1, <3>1 DEF Place
  <2>2. CASE c # a
    <3>1. c # b  BY <1>2, <1>5, <2>2
    <3>2. memory'[object_ptr_'[c]] = memory[object_ptr_[c]]
      BY <1>1, <1>2, <1>5, <1>6, <2>2, <3>1
    <3> QED  BY <1>5, <2>2, <3>1, <3>2 DEF IInv, InStorage
  <2> QED  BY <2>1, <2>2
<1>10. AlignedInBuffer'  BY <1>5 DEF IInv, AlignedInBuffer
<1>11. NoTwins'
  <2> SUFFICES ASSUME NEW q \in DOMAIN memory', NEW r \in DOMAIN memory',
                      memory'[q].value = memory'[r].value
               PROVE  q = r
    BY DEF NoTwins, Live
  <2>1. \A l \in Left : l \in Live /\ memory[l].value # o.value  BY DEF Left
  <2> QED  BY <1>1, <2>1 DEF IInv, NoTwins
<1>12. \A c \in Anys :
           get(c)' = IF c = a THEN o.value ELSE IF c = b THEN None ELSE get(c)
  BY <1>1, <1>3, <1>5, <1>6 DEF get
<1> QED  BY <1>7, <1>8, <1>9, <1>10, <1>11, <1>12 DEF IInv
-----------------------------------------------------------------------------
\* Each operation keeps IInv, and is one of Box or leaves every value where it is.

\* A value is assigned.
LEMMA AssignStep ==
  ASSUME IInv, NEW a \in Anys, NEW T \in Types, NEW v \in Values, Assign(a, T, v)
  PROVE  IInv' /\ Box!Put(a, v)
<1>1. PICK p \in (IF Fits(T) THEN {Align(storage_[a], T)} ELSE Heap \ Live) :
          /\ aligned_ptr_' = [aligned_ptr_ EXCEPT ![a] = IF Fits(T) THEN p ELSE None]
          /\ object_ptr_' = [object_ptr_ EXCEPT ![a] = p]
          /\ Construct(p, Object(T, v), Without({object_ptr_[a]}))
  BY DEF Assign
<1>2. /\ storage_[a] \in Nat /\ Length \in Nat
      /\ sizeof[T] \in Nat \ {0} /\ alignof[T] \in Nat \ {0}
      /\ \A h \in Heap : h \notin Nat
  BY FixedAnyAssumption
<1>3. Place(a, p, T) /\ (p \in Nat <=> Fits(T))
  <2>1. CASE Fits(T)
    <3>1. p = Align(storage_[a], T)  BY <1>1, <2>1
    <3>2. /\ p \in Nat /\ storage_[a] <= p /\ p <= storage_[a] + alignof[T] - 1
          /\ p % alignof[T] = 0
      BY <1>2, <3>1, AlignRoundsUp DEF Align
    <3>3. p + sizeof[T] <= storage_[a] + Length  BY <1>2, <2>1, <3>2 DEF Fits
    <3> QED  BY <2>1, <3>2, <3>3 DEF Place, Aligned
  <2>2. CASE ~Fits(T)
    BY <1>1, <1>2, <2>2 DEF Place
  <2> QED  BY <2>1, <2>2
<1>4. p \in Heap => p \notin Live \ {object_ptr_[a], object_ptr_[a]}
  BY <1>1, <1>2, <1>3
<1>5. Object(T, v).type = T /\ Object(T, v).value = v  BY DEF Object
<1>6. \A q \in Live : memory[q].value # v  BY DEF Assign, Fresh
<1>7. Construct(p, Object(T, v), Without({object_ptr_[a], object_ptr_[a]}))
  <2>1. {object_ptr_[a]} = {object_ptr_[a], object_ptr_[a]}  OBVIOUS
  <2> QED  BY <1>1, <2>1
<1>8. object_ptr_' = [c \in Anys |-> IF c = a THEN p ELSE IF c = a THEN None
                                     ELSE object_ptr_[c]]
  BY <1>1 DEF IInv, TypeOK
<1>9. aligned_ptr_' = [c \in Anys |-> IF c = a THEN IF p \in Nat THEN p ELSE None
                                      ELSE IF c = a THEN None ELSE aligned_ptr_[c]]
  BY <1>1, <1>3 DEF IInv, TypeOK
<1>10. /\ functions' \in [Anys -> Types \cup {None}] /\ functions'[a] = T
       /\ \A c \in Anys \ {a, a} : functions'[c] = functions[c]
       /\ UNCHANGED ended
  BY DEF Assign, IInv, TypeOK
<1> HIDE DEF IInv
<1> DEFINE o == Object(T, v)
<1>11. o.type = T /\ o.value = v  BY <1>5
<1> HIDE DEF o
<1>12. Construct(p, o, Without({object_ptr_[a], object_ptr_[a]}))  BY <1>7 DEF o
<1>13. /\ IInv'
       /\ \A c \in Anys : get(c)' = IF c = a THEN v ELSE IF c = a THEN None ELSE get(c)
  BY <1>3, <1>4, <1>6, <1>8, <1>9, <1>10, <1>11, <1>12, ReplaceKeeps
<1>14. \A c \in Anys : get(c) # v
  BY <1>6, FixedAnyAssumption DEF get, IInv, TypeOK
<1> QED  BY <1>13, <1>14 DEF Box!Put

\* A fixed_any is destroyed.
LEMMA DestroyStep ==
  ASSUME IInv, NEW a \in Anys, NEW b \in Anys, Destroy(a) \/ MoveThrows(a, b)
  PROVE  IInv' /\ Box!Clear(a)
<1>1. /\ memory' = Without({object_ptr_[a]})
      /\ aligned_ptr_' = [aligned_ptr_ EXCEPT ![a] = None]
      /\ object_ptr_' = [object_ptr_ EXCEPT ![a] = None]
      /\ UNCHANGED ended
  BY DEF Destroy, MoveThrows
<1>2. /\ functions' \in [Anys -> Types \cup {None}]
      /\ \A c \in Anys \ {a} : functions'[c] = functions[c]
  BY DEF Destroy, MoveThrows, IInv, TypeOK
<1>3. IInv' /\ \A c \in Anys : get(c)' = IF c = a THEN None ELSE get(c)
  BY <1>1, <1>2, RemoveKeeps
<1> QED  BY <1>3 DEF Box!Clear

\* A fixed_any is moved into another.
LEMMA MoveStep ==
  ASSUME IInv, NEW a \in Anys, NEW b \in Anys, Move(a, b)
  PROVE  IInv' /\ Box!Take(a, b)
<1> DEFINE o == memory[object_ptr_[b]]
<1>1. a # b /\ object_ptr_[b] # None  BY DEF Move, Movable
<1>2. /\ object_ptr_[b] \in Live /\ functions[b] = o.type
      /\ o.type \in Types /\ o.value \in Values
  BY <1>1, Owned DEF IInv, TypeOK
<1>3. PICK p \in Places(a, b) :
          /\ MovePointers(a, b, p)
          /\ Construct(p, o, Without({object_ptr_[a], object_ptr_[b]}))
  BY DEF Move
<1>4. functions' = [functions EXCEPT ![a] = functions[b], ![b] = None] /\ UNCHANGED ended
  BY DEF Move
<1>5. None \notin Nat /\ None \notin Heap /\ \A h \in Heap : h \notin Nat
  BY FixedAnyAssumption
<1>6. Place(a, p, o.type)
  <2>1. CASE aligned_ptr_[b] = None
    BY <1>3, <2>1 DEF Places, Place
  <2>2. CASE aligned_ptr_[b] # None
    <3>1. object_ptr_[b] \in Nat /\ aligned_ptr_[b] = object_ptr_[b]
      BY <2>2 DEF IInv, AlignedInBuffer, InStorage
    <3>2. /\ storage_[b] <= object_ptr_[b]
          /\ object_ptr_[b] + sizeof[o.type] <= storage_[b] + Length
      BY <3>1 DEF IInv, InStorage
    <3>3. p = storage_[a] + (object_ptr_[b] - storage_[b])  BY <1>3, <2>2, <3>1 DEF Places
    <3>4. Aligned(p, o.type)  BY <1>2, <1>3, <2>2 DEF Move, Misaligned
    <3>5. /\ storage_[a] \in Nat /\ storage_[b] \in Nat /\ Length \in Nat
          /\ sizeof[o.type] \in Nat
      BY <1>2, FixedAnyAssumption
    <3> HIDE DEF o
    <3>6. /\ p \in Nat /\ storage_[a] <= p
          /\ p + sizeof[o.type] <= storage_[a] + Length
      BY <3>1, <3>2, <3>3, <3>5
    <3> QED  BY <3>4, <3>6 DEF Place
  <2> QED  BY <2>1, <2>2
<1>7. p \in Heap => p \notin Live \ {object_ptr_[a], object_ptr_[b]}
  <2>1. CASE aligned_ptr_[b] = None
    BY <1>3, <2>1 DEF Places, Without, Restrict
  <2>2. CASE aligned_ptr_[b] # None
    <3>1. aligned_ptr_[b] \in Nat /\ storage_[a] \in Nat /\ storage_[b] \in Nat
      BY <2>2, FixedAnyAssumption DEF IInv, TypeOK
    <3>2. p = storage_[a] + (aligned_ptr_[b] - storage_[b])  BY <1>3, <2>2 DEF Places
    <3>3. storage_[b] <= aligned_ptr_[b]  BY <2>2 DEF IInv, AlignedInBuffer, InStorage
    <3>4. p \in Nat  BY <3>1, <3>2, <3>3
    <3> QED  BY <1>5, <3>4
  <2> QED  BY <2>1, <2>2
<1>8. \A q \in Live \ {object_ptr_[a], object_ptr_[b]} : memory[q].value # o.value
  BY <1>2 DEF IInv, NoTwins
<1>9. /\ object_ptr_' = [c \in Anys |-> IF c = a THEN p ELSE IF c = b THEN None
                                        ELSE object_ptr_[c]]
      /\ aligned_ptr_' = [c \in Anys |-> IF c = a THEN IF p \in Nat THEN p ELSE None
                                         ELSE IF c = b THEN None ELSE aligned_ptr_[c]]
  <2>1. /\ object_ptr_' = [object_ptr_ EXCEPT ![a] = p, ![b] = None]
        /\ aligned_ptr_' = [aligned_ptr_ EXCEPT ![a] = IF p \in Nat THEN p ELSE None,
                                               ![b] = None]
    BY <1>3 DEF MovePointers
  <2>2. /\ object_ptr_ = [c \in Anys |-> object_ptr_[c]]
        /\ aligned_ptr_ = [c \in Anys |-> aligned_ptr_[c]]
    BY DEF IInv, TypeOK
  <2>3. object_ptr_' = [c \in Anys |-> IF c = a THEN p ELSE IF c = b THEN None
                                       ELSE object_ptr_[c]]
    BY <1>1, <2>1, <2>2
  <2>4. aligned_ptr_' = [c \in Anys |-> IF c = a THEN IF p \in Nat THEN p ELSE None
                                        ELSE IF c = b THEN None ELSE aligned_ptr_[c]]
    BY <1>1, <2>1, <2>2
  <2> QED  BY <2>3, <2>4
<1>10. /\ functions' \in [Anys -> Types \cup {None}] /\ functions'[a] = o.type
       /\ \A c \in Anys \ {a, b} : functions'[c] = functions[c]
  BY <1>1, <1>2, <1>4 DEF IInv, TypeOK
<1>11. get(b) = o.value /\ get(b) # None  BY <1>1, <1>2, FixedAnyAssumption DEF get
<1> HIDE DEF o
<1>12. /\ IInv'
       /\ \A c \in Anys : get(c)' = IF c = a THEN o.value ELSE IF c = b THEN None ELSE get(c)
  BY <1>2, <1>3, <1>4, <1>6, <1>7, <1>8, <1>9, <1>10, ReplaceKeeps
<1> QED  BY <1>1, <1>11, <1>12 DEF Box!Take

\* One step per operation; a program that aborts changes nothing.
LEMMA Step ==
  ASSUME IInv, [Next]_vars
  PROVE  IInv' /\ [Box!BoxNext]_([a \in Anys |-> get(a)])
<1>1. ASSUME NEW a \in Anys, NEW T \in Types, NEW v \in Values, Assign(a, T, v)
      PROVE  IInv' /\ Box!BoxNext
  <2> USE <1>1
  <2>1. IInv' /\ Box!Put(a, v)  BY AssignStep
  <2> QED  BY <2>1 DEF Box!BoxNext
<1>2. ASSUME NEW a \in Anys, NEW b \in Anys, Destroy(a) \/ MoveThrows(a, b)
      PROVE  IInv' /\ Box!BoxNext
  <2> USE <1>2
  <2>1. IInv' /\ Box!Clear(a)  BY DestroyStep
  <2> QED  BY <2>1 DEF Box!BoxNext
<1>3. ASSUME NEW a \in Anys, NEW b \in Anys, Move(a, b)
      PROVE  IInv' /\ Box!BoxNext
  <2> USE <1>3
  <2>1. IInv' /\ Box!Take(a, b)  BY MoveStep
  <2> QED  BY <2>1 DEF Box!BoxNext
<1>4. ASSUME UNCHANGED <<aligned_ptr_, object_ptr_, functions, memory>>, ended' \in BOOLEAN
      PROVE  IInv' /\ UNCHANGED [a \in Anys |-> get(a)]
  <2>1. TypeOK'  BY <1>4 DEF IInv, TypeOK, Live
  <2>2. OneOwner' /\ InStorage' /\ AlignedInBuffer' /\ NoTwins'
    BY <1>4 DEF IInv, OneOwner, InStorage, AlignedInBuffer, NoTwins, Live, Aligned
  <2>3. UNCHANGED [a \in Anys |-> get(a)]  BY <1>4 DEF get
  <2> QED  BY <2>1, <2>2, <2>3 DEF IInv
<1>5. ASSUME NEW a \in Anys, NEW b \in Anys, MoveCrashes(a, b)
      PROVE  IInv' /\ UNCHANGED [c \in Anys |-> get(c)]
  BY <1>4, <1>5 DEF MoveCrashes
<1>6. CASE UNCHANGED vars
  BY <1>4, <1>6 DEF vars, IInv, TypeOK
<1> QED  BY <1>1, <1>2, <1>3, <1>5, <1>6 DEF Next

\* Everything begins empty.
LEMMA Start == Init => IInv /\ Box!BoxInit
<1> SUFFICES ASSUME Init PROVE IInv /\ Box!BoxInit
  OBVIOUS
<1>1. Live = {}  BY DEF Init, Live
<1>2. /\ TypeOK /\ OneOwner /\ NoTwins
  BY <1>1 DEF Init, TypeOK, OneOwner, NoTwins
<1>3. InStorage /\ AlignedInBuffer
  BY FixedAnyAssumption DEF Init, InStorage, AlignedInBuffer
<1>4. Box!BoxInit  BY DEF Init, get, Box!BoxInit
<1> QED  BY <1>2, <1>3, <1>4 DEF IInv

\* IInv holds in every state.
LEMMA Inductive == Spec => []IInv
<1>1. Init => IInv  BY Start
<1>2. IInv /\ [Next]_vars => IInv'  BY Step
<1> QED  BY <1>1, <1>2, PTL DEF Spec
-----------------------------------------------------------------------------
\* A pointer to an object always points to one that lives, for any number of
\* fixed_anys, any types and any values.
THEOREM TypeCorrect == Spec => []TypeOK
<1>1. IInv => TypeOK  BY DEF IInv
<1> QED  BY <1>1, Inductive, PTL

\* Nothing is leaked, destroyed twice or cast to another type.
THEOREM OneOwnerHolds == Spec => []OneOwner
<1>1. IInv => OneOwner  BY DEF IInv
<1> QED  BY <1>1, Inductive, PTL

\* Wherever the buffers are and whatever the types are aligned to, an object in a
\* buffer is inside it and aligned: the arithmetic of assign() is right, also after
\* moves to the same distance in another buffer.
THEOREM InStorageHolds == Spec => []InStorage
<1>1. IInv => InStorage  BY DEF IInv
<1> QED  BY <1>1, Inductive, PTL

\* fixed_any is a box: what is put in comes out, once.
THEOREM FixedAnyIsABox == Spec => ImplementsBox
<1>1. Init => Box!BoxInit  BY Start
<1>2. IInv /\ [Next]_vars => [Box!BoxNext]_([a \in Anys |-> get(a)])  BY Step
<1> QED  BY <1>1, <1>2, Inductive, PTL DEF Spec, ImplementsBox, Box!BoxSpec
=============================================================================

----------------------------- MODULE EventProofs -----------------------------
(* Proofs about Event for any number of receivers, threads and emissions,     *)
(* however deep the calls of a thread are nested.                             *)
EXTENDS Event, SequenceTheorems, TLAPS

\* Sequences without duplicates, and stacks: the frames are of F, and R says what
\* may be somewhere above what.
Stacks(F, R) == {s \in Seq(F) : \A i, j \in 1..Len(s) : i < j => <<s[i], s[j]>> \in R}

\* a stack with another frame on top of it, and with another top frame
Plus(s, f) == Append(s, f)
Instead(s, f) == Append(Front(s), f)
Put(st, t, s) == [st EXCEPT ![t] = s]
-----------------------------------------------------------------------------
\* Sequences: membership and indices.
LEMMA RangeIs ==
  ASSUME NEW S, NEW s \in Seq(S)
  PROVE  /\ Len(s) \in Nat /\ DOMAIN s = 1..Len(s) /\ Range(s) \subseteq S
         /\ \A x : x \in Range(s) <=> \E i \in 1..Len(s) : s[i] = x
<1>1. Len(s) \in Nat /\ DOMAIN s = 1..Len(s)  BY LenProperties
<1>2. \A i \in 1..Len(s) : s[i] \in S  BY ElementOfSeq
<1> QED  BY <1>1, <1>2 DEF Range

\* The empty sequence has no elements.
LEMMA RangeEmpty == Range(<< >>) = {} /\ IsInjective(<< >>)
<1>1. << >> \in Seq({})  BY EmptySeq
<1>2. Len(<< >>) = 0  BY EmptySeq
<1>3. DOMAIN << >> = 1..0  BY <1>1, <1>2, LenProperties
<1> QED  BY <1>3 DEF Range, IsInjective

\* What appending does.
LEMMA AppendIs ==
  ASSUME NEW S, NEW s \in Seq(S), NEW x \in S
  PROVE  /\ Append(s, x) \in Seq(S) /\ Len(Append(s, x)) = Len(s) + 1
         /\ Range(Append(s, x)) = Range(s) \cup {x}
         /\ IsInjective(s) /\ x \notin Range(s) => IsInjective(Append(s, x))
<1> DEFINE r == Append(s, x)
<1>1. /\ r \in Seq(S) /\ Len(r) = Len(s) + 1 /\ r[Len(s) + 1] = x
      /\ \A i \in 1..Len(s) : r[i] = s[i]
  BY AppendProperties
<1>2. /\ Len(s) \in Nat /\ DOMAIN s = 1..Len(s) /\ DOMAIN r = 1..Len(r)
      /\ \A y : y \in Range(s) <=> \E i \in 1..Len(s) : s[i] = y
      /\ \A y : y \in Range(r) <=> \E i \in 1..Len(r) : r[i] = y
  BY <1>1, RangeIs
<1> HIDE DEF r
<1>3. 1..Len(r) = 1..Len(s) \cup {Len(s) + 1}  BY <1>1, <1>2
<1>4. Range(r) = Range(s) \cup {x}
  <2> SUFFICES ASSUME NEW y PROVE y \in Range(r) <=> y \in Range(s) \/ y = x  OBVIOUS
  <2> QED  BY <1>1, <1>2, <1>3
<1>5. ASSUME IsInjective(s), x \notin Range(s) PROVE IsInjective(r)
  <2> SUFFICES ASSUME NEW i \in 1..Len(r), NEW j \in 1..Len(r), r[i] = r[j] PROVE i = j
    BY <1>2 DEF IsInjective
  <2>1. CASE i \in 1..Len(s) /\ j \in 1..Len(s)
    BY <1>1, <1>2, <1>5, <2>1 DEF IsInjective
  <2>2. CASE i = Len(s) + 1 /\ j = Len(s) + 1  BY <2>2
  <2>3. CASE i \in 1..Len(s) /\ j = Len(s) + 1
    BY <1>1, <1>2, <1>5, <2>3
  <2>4. CASE i = Len(s) + 1 /\ j \in 1..Len(s)
    BY <1>1, <1>2, <1>5, <2>4
  <2> QED  BY <1>3, <2>1, <2>2, <2>3, <2>4
<1> QED  BY <1>1, <1>4, <1>5 DEF r

\* What taking the head does.
LEMMA TailIs ==
  ASSUME NEW S, NEW s \in Seq(S), s # << >>
  PROVE  /\ Head(s) \in S /\ Tail(s) \in Seq(S) /\ Len(Tail(s)) = Len(s) - 1
         /\ Range(s) = Range(Tail(s)) \cup {Head(s)}
         /\ IsInjective(s) => IsInjective(Tail(s)) /\ Head(s) \notin Range(Tail(s))
<1> DEFINE r == Tail(s)
<1>1. Len(s) \in Nat \ {0}  BY EmptySeq
<1>2. /\ Head(s) \in S /\ r \in Seq(S) /\ Len(r) = Len(s) - 1 /\ Head(s) = s[1]
      /\ \A i \in 1..Len(r) : r[i] = s[i + 1]
  BY HeadTailProperties
<1>3. /\ DOMAIN s = 1..Len(s) /\ DOMAIN r = 1..Len(r)
      /\ \A y : y \in Range(s) <=> \E i \in 1..Len(s) : s[i] = y
      /\ \A y : y \in Range(r) <=> \E i \in 1..Len(r) : r[i] = y
  BY <1>2, RangeIs
<1> HIDE DEF r
<1>4. /\ \A i \in 1..Len(s) : i = 1 \/ (i - 1 \in 1..Len(r) /\ (i - 1) + 1 = i)
      /\ \A i \in 1..Len(r) : i + 1 \in 1..Len(s) /\ i + 1 # 1
      /\ 1 \in 1..Len(s)
  BY <1>1, <1>2
<1>5. Range(s) = Range(r) \cup {Head(s)}
  <2>1. ASSUME NEW y \in Range(s) PROVE y \in Range(r) \/ y = Head(s)
    <3>1. PICK i \in 1..Len(s) : s[i] = y  BY <1>3
    <3>2. i = 1 \/ r[i - 1] = y  BY <1>2, <1>4, <3>1
    <3> QED  BY <1>2, <1>3, <1>4, <3>1, <3>2
  <2>2. ASSUME NEW y \in Range(r) PROVE y \in Range(s)  BY <1>2, <1>3, <1>4
  <2>3. Head(s) \in Range(s)  BY <1>2, <1>3, <1>4
  <2> QED  BY <2>1, <2>2, <2>3
<1>6. ASSUME IsInjective(s) PROVE IsInjective(r) /\ Head(s) \notin Range(r)
  <2>1. \A i, j \in 1..Len(r) : r[i] = r[j] => i + 1 = j + 1
    BY <1>2, <1>3, <1>4, <1>6 DEF IsInjective
  <2>2. \A i, j \in 1..Len(r) : r[i] = r[j] => i = j  BY <2>1
  <2>3. \A i \in 1..Len(r) : r[i] # s[1]
    BY <1>2, <1>3, <1>4, <1>6 DEF IsInjective
  <2> QED  BY <1>2, <1>3, <2>2, <2>3 DEF IsInjective
<1> QED  BY <1>2, <1>5, <1>6 DEF r

\* The empty stack.
LEMMA StackEmpty ==
  ASSUME NEW F, NEW R
  PROVE  << >> \in Stacks(F, R)
BY EmptySeq DEF Stacks

\* Pushing a frame that may be above all that is there.
LEMMA StackPush ==
  ASSUME NEW F, NEW R, NEW s \in Stacks(F, R), NEW f \in F, \A g \in Range(s) : <<g, f>> \in R
  PROVE  /\ Plus(s, f) \in Stacks(F, R) /\ Range(Plus(s, f)) = Range(s) \cup {f}
         /\ Plus(s, f) # << >> /\ Last(Plus(s, f)) = f
<1> DEFINE r == Append(s, f)
<1>1. s \in Seq(F)  BY DEF Stacks
<1>2. /\ r \in Seq(F) /\ r # << >> /\ Len(r) = Len(s) + 1 /\ r[Len(s) + 1] = f
      /\ \A i \in 1..Len(s) : r[i] = s[i]
  BY <1>1, AppendProperties
<1>3. Len(s) \in Nat /\ \A i \in 1..Len(s) : s[i] \in Range(s)  BY <1>1, RangeIs
<1>4. Range(r) = Range(s) \cup {f}  BY <1>1, AppendIs
<1> HIDE DEF r
<1>5. ASSUME NEW i \in 1..Len(r), NEW j \in 1..Len(r), i < j PROVE <<r[i], r[j]>> \in R
  <2>1. i \in 1..Len(s) /\ (j \in 1..Len(s) \/ j = Len(s) + 1)  BY <1>2, <1>3, <1>5
  <2>2. CASE j \in 1..Len(s)  BY <1>2, <1>5, <2>1, <2>2 DEF Stacks
  <2>3. CASE j = Len(s) + 1  BY <1>2, <1>3, <2>1, <2>3
  <2> QED  BY <2>1, <2>2, <2>3
<1>6. Last(r) = f  BY <1>2 DEF Last
<1> QED  BY <1>2, <1>4, <1>5, <1>6 DEF Stacks, Plus, r

\* The top frame, and what is below it.
LEMMA StackTop ==
  ASSUME NEW F, NEW R, NEW s \in Stacks(F, R), s # << >>
  PROVE  /\ Front(s) \in Stacks(F, R) /\ Last(s) \in F
         /\ Range(s) = Range(Front(s)) \cup {Last(s)}
         /\ \A g \in Range(Front(s)) : <<g, Last(s)>> \in R
<1> DEFINE r == Front(s)
<1>1. s \in Seq(F) /\ Len(s) \in Nat \ {0} /\ Last(s) = s[Len(s)]
  BY EmptySeq DEF Stacks, Last
<1>2. Len(s) \in 1..Len(s) /\ Len(s) - 1 \in Nat  BY <1>1
<1>3. \A i \in 1..(Len(s) - 1) : i \in 1..Len(s) /\ i < Len(s) /\ 1 + i - 1 = i  BY <1>1
<1>4. \A i \in 1..(Len(s) - 1) : s[i] \in F  BY <1>1, <1>3, ElementOfSeq
<1>5. /\ r \in Seq(F) /\ Len(r) = Len(s) - 1
      /\ \A i \in 1..Len(r) : r[i] = s[i]
  <2> DEFINE m == 1
             n == Len(s) - 1
  <2>0. m \in Int /\ n \in Int /\ \A i \in m..n : s[i] \in F  BY <1>2, <1>4
  <2> HIDE DEF m, n
  <2>4. /\ SubSeq(s, m, n) \in Seq(F)
        /\ Len(SubSeq(s, m, n)) = IF m <= n THEN n - m + 1 ELSE 0
        /\ \A i \in 1..(n - m + 1) : SubSeq(s, m, n)[i] = s[m + i - 1]
    BY <2>0, SubSeqProperties
  <2>1. /\ r \in Seq(F)
        /\ Len(r) = IF 1 <= Len(s) - 1 THEN (Len(s) - 1) - 1 + 1 ELSE 0
        /\ \A i \in 1..((Len(s) - 1) - 1 + 1) : r[i] = s[1 + i - 1]
    BY <2>4 DEF Front, m, n
  <2> HIDE DEF r
  <2>5. Len(s) \in Nat /\ Len(s) # 0  BY <1>1
  <2>2. Len(r) = Len(s) - 1
    <3>1. CASE Len(s) = 1  BY <2>1, <3>1
    <3>2. CASE Len(s) # 1
      <4>1. \A k \in Nat : k # 0 /\ k # 1 => 1 <= k - 1 /\ (k - 1) - 1 + 1 = k - 1
        OBVIOUS
      <4> QED  BY <2>1, <2>5, <3>2, <4>1
    <3> QED  BY <3>1, <3>2
  <2>3. (Len(s) - 1) - 1 + 1 = Len(s) - 1  BY <1>2
  <2> QED  BY <1>3, <2>1, <2>2, <2>3
<1>6. /\ \A y : y \in Range(s) <=> \E i \in 1..Len(s) : s[i] = y
      /\ \A y : y \in Range(r) <=> \E i \in 1..Len(r) : r[i] = y
  BY <1>1, <1>5, RangeIs
<1> HIDE DEF r
<1>7. 1..Len(s) = 1..Len(r) \cup {Len(s)}  BY <1>2, <1>5
<1>8. Range(s) = Range(r) \cup {Last(s)}
  <2> SUFFICES ASSUME NEW y PROVE y \in Range(s) <=> y \in Range(r) \/ y = Last(s)  OBVIOUS
  <2> QED  BY <1>1, <1>5, <1>6, <1>7
<1>9. Last(s) \in F  BY <1>1, <1>2, ElementOfSeq
<1>10. \A i, j \in 1..Len(r) : i < j => <<r[i], r[j]>> \in R
  BY <1>3, <1>5 DEF Stacks
<1>11. \A i \in 1..Len(r) : <<r[i], s[Len(s)]>> \in R
  BY <1>2, <1>3, <1>5 DEF Stacks
<1> QED  BY <1>1, <1>5, <1>6, <1>8, <1>9, <1>10, <1>11 DEF Stacks, r

\* Replacing the top frame.
LEMMA StackInstead ==
  ASSUME NEW F, NEW R, NEW s \in Stacks(F, R), s # << >>, NEW f \in F,
         \A g \in Range(Front(s)) : <<g, f>> \in R
  PROVE  /\ Instead(s, f) \in Stacks(F, R) /\ Range(Instead(s, f)) = Range(Front(s)) \cup {f}
         /\ Instead(s, f) # << >> /\ Last(Instead(s, f)) = f
<1>1. Front(s) \in Stacks(F, R)  BY StackTop
<1> HIDE DEF Stacks
<1> QED  BY <1>1, StackPush DEF Instead, Plus

\* More frames, and more of them above one another.
LEMMA StacksWiden ==
  ASSUME NEW F, NEW G, NEW R, NEW Q, F \subseteq G, R \subseteq Q
  PROVE  Stacks(F, R) \subseteq Stacks(G, Q)
BY SeqMonotonic DEF Stacks
-----------------------------------------------------------------------------
\* The frames of a stack: emissions, and the end of the emitter, are on its thread.
Fetches == {"fetched", "clear", "gather"}
EmitFrames == [call: {"emit"}, at: Fetches \cup {"dispatch", "calling"},
               snap: Seq(Receivers), i: Nat \ {0}, event: 1..sent, to: Receivers \cup {None},
               lost: BOOLEAN, stale: BOOLEAN, old: BOOLEAN, begun: [Receivers -> Lives]]
WalkFrames == {f \in [call: {"walk"}, of: Receivers, rest: Seq(Receivers), kept: Seq(Receivers),
                      held: Receivers \cup {None}] :
                  f.held # None => f.rest # << >> /\ f.held = Head(f.rest)}
CallFrames == [call: {"publish", "task", "destroy"}, of: Receivers]
Forgets == [call: {"forget"}, of: {None}]
FramesOn(t) == WalkFrames \cup CallFrames
               \cup IF t = Main THEN EmitFrames \cup Forgets ELSE {}

IsCode(f) == f.call = "task" \/ (f.call = "emit" /\ f.at = "calling")
InBroker(f) == f.call \in {"walk", "destroy"}

\* f may be somewhere above g: over code of the application, or on the way to a
\* destructor. Later emissions are above earlier ones, and one that fills the cache
\* has spoiled them; a component whose disassociation runs inside another one is held
\* by nobody.
Over(g, f) ==
    /\ \/ IsCode(g) /\ f.call \notin {"task", "forget"}
       \/ /\ g.call \in {"walk", "destroy", "forget"} \/ (g.call = "emit" /\ g.at = "clear")
          /\ InBroker(f)
    /\ g.call = "emit" /\ f.call = "emit" =>
          g.event < f.event /\ (f.at \in Fetches => g.stale)
    /\ g.call = "walk" /\ f.call = "walk" => ~Held(f.of)

AnyFrames == WalkFrames \cup CallFrames \cup EmitFrames \cup Forgets
Nest == {p \in AnyFrames \X AnyFrames : Over(p[1], p[2])}

Handovers == [event: 1..sent, to: Receivers]

Fields == /\ list \in Seq(Receivers) /\ version \in Nat
          /\ pinned \in [Others -> Nat \cup {None}] /\ pinnedList \in [Others -> Seq(Receivers)]
          /\ life \in [Receivers -> Lives]
          /\ owned \subseteq Receivers /\ emitting \in BOOLEAN /\ sent \in 0..MaxEvents
          /\ receivers_ \in Nat \cup {None} /\ receiver_handlers_ \in Seq(Receivers)
          /\ queue \in [Threads -> Seq(Receivers)]
          /\ stack = [t \in Threads |-> stack[t]]
          /\ crashed \in BOOLEAN
          /\ handed \in Seq(Handovers) /\ overlooked \subseteq Receivers

Stacked == \A t \in Threads : stack[t] \in Stacks(FramesOn(t), Nest)

\* Who is destroyed, or being destroyed, is held by nobody.
Dead == /\ \A c \in Receivers : life[c] = "freed" => ~Held(c)
        /\ \A t \in Threads : \A f \in Range(stack[t]) : f.call = "destroy" => ~Held(f.of)

Shape == Fields /\ Stacked /\ Dead

\* A step gives nobody a new shared_ptr to a component that none existed for.
Shrinks == \A c \in Receivers : Held(c)' => Held(c)

\* the frames of r are those of s, and f
Adds(r, s, f) == Range(r) = Range(s) \cup {f}
\* ... on thread t; the other threads keep their stacks
OnlyAdds(t, s, f) == /\ Adds(stack'[t], s, f) /\ stack'[t] # << >> /\ Last(stack'[t]) = f
                     /\ \A u \in Threads : u # t => stack'[u] = stack[u]
\* the frames of these kinds are the same
Same(kinds) == \A u \in Threads : \A f : f.call \in kinds =>
                   (f \in Range(stack'[u]) <=> f \in Range(stack[u]))
-----------------------------------------------------------------------------
\* Nest, as what it says of two frames.
LEMMA NestIs ==
  ASSUME NEW g, NEW f
  PROVE  <<g, f>> \in Nest <=> g \in AnyFrames /\ f \in AnyFrames /\ Over(g, f)
BY DEF Nest

\* ... of the next state.
LEMMA NestNext ==
  ASSUME NEW g, NEW f
  PROVE  <<g, f>> \in Nest' <=> g \in AnyFrames' /\ f \in AnyFrames' /\ Over(g, f)'
BY DEF Nest

\* All frames are of AnyFrames.
LEMMA FramesAny == \A t : FramesOn(t) \subseteq AnyFrames
BY DEF FramesOn, AnyFrames

\* ... of the next state.
LEMMA FramesAnyNext == \A t : FramesOn(t)' \subseteq AnyFrames'
BY DEF FramesOn, AnyFrames

\* A step that only emits more and lets go of components keeps frames and their order.
LEMMA FramesGrow ==
  ASSUME sent \in Nat, sent' \in Nat, sent <= sent'
  PROVE  /\ AnyFrames \subseteq AnyFrames' /\ \A t \in Threads : FramesOn(t) \subseteq FramesOn(t)'
         /\ Handovers \subseteq Handovers'
<1>1. 1..sent \subseteq 1..sent'  OBVIOUS
<1>2. EmitFrames \subseteq EmitFrames'  BY <1>1 DEF EmitFrames
<1>3. /\ WalkFrames' = WalkFrames /\ CallFrames' = CallFrames /\ Forgets' = Forgets
  BY DEF WalkFrames, CallFrames, Forgets
<1>4. Handovers \subseteq Handovers'  BY <1>1 DEF Handovers
<1> QED  BY <1>2, <1>3, <1>4 DEF AnyFrames, FramesOn

\* What may be above a frame may still be when more components are let go of.
LEMMA OverKept ==
  ASSUME NEW g, NEW f, Over(g, f), f \in AnyFrames, Shrinks
  PROVE  Over(g, f)'
<1>1. f.call = "walk" => f.of \in Receivers
  BY DEF AnyFrames, WalkFrames, CallFrames, EmitFrames, Forgets
<1> QED  BY <1>1 DEF Over, Shrinks

\* The same with some frame in place of the top one, whatever it is.
LEMMA NestGrows ==
  ASSUME sent \in Nat, sent' \in Nat, sent <= sent', Shrinks
  PROVE  Nest \subseteq Nest'
<1> SUFFICES ASSUME NEW p \in Nest PROVE p \in Nest'  OBVIOUS
<1>1. p \in AnyFrames \X AnyFrames /\ Over(p[1], p[2])  BY DEF Nest
<1>2. PICK g \in AnyFrames, f \in AnyFrames : p = <<g, f>>  BY <1>1
<1>3. Over(g, f)  BY <1>1, <1>2
<1>4. Over(g, f)'  BY <1>3, OverKept
<1> QED  BY <1>2, <1>4, FramesGrow, NestNext

\* The stacks that are not touched stay good ones.
LEMMA StacksKept ==
  ASSUME sent \in Nat, sent' \in Nat, sent <= sent', Shrinks, NEW t \in Threads
  PROVE  Stacks(FramesOn(t), Nest) \subseteq Stacks(FramesOn(t)', Nest')
BY FramesGrow, NestGrows, StacksWiden

\* Who is held.
LEMMA HeldIs ==
  ASSUME NEW c
  PROVE  Held(c) <=> \/ c \in owned \/ c \in Range(receiver_handlers_)
                     \/ \E t \in Threads : \E f \in Range(stack[t]) : f.call = "walk" /\ f.held = c
BY DEF Held, HeldBy

\* A step whose new owners are none, or of a held component, shrinks Held.
LEMMA ShrinksIs ==
  ASSUME owned' \subseteq owned,
         \A c \in Receivers : c \in Range(receiver_handlers_)' => Held(c),
         \A u \in Threads : \A f \in Range(stack'[u]) : \A c \in Receivers :
             f.call = "walk" /\ f.held = c => f \in Range(stack[u]) \/ Held(c)
  PROVE  Shrinks
<1> SUFFICES ASSUME NEW c \in Receivers, Held(c)' PROVE Held(c)  BY DEF Shrinks
<1>1. \/ c \in owned' \/ c \in Range(receiver_handlers_)'
      \/ \E t \in Threads : \E f \in Range(stack'[t]) : f.call = "walk" /\ f.held = c
  BY DEF Held, HeldBy
<1> QED  BY <1>1, HeldIs

\* The running frame, and what may be below it.
LEMMA TopIs ==
  ASSUME Stacked, NEW t \in Threads, stack[t] # << >>
  PROVE  /\ Top(t) = Last(stack[t]) /\ Top(t) \in FramesOn(t) /\ Top(t) \in Range(stack[t])
         /\ Front(stack[t]) \in Stacks(FramesOn(t), Nest)
         /\ Range(stack[t]) = Range(Front(stack[t])) \cup {Top(t)}
         /\ \A g \in Range(Front(stack[t])) : Over(g, Top(t)) /\ g \in FramesOn(t)
<1>1. stack[t] \in Stacks(FramesOn(t), Nest)  BY DEF Stacked
<1>2. /\ Front(stack[t]) \in Stacks(FramesOn(t), Nest) /\ Last(stack[t]) \in FramesOn(t)
      /\ Range(stack[t]) = Range(Front(stack[t])) \cup {Last(stack[t])}
      /\ \A g \in Range(Front(stack[t])) : <<g, Last(stack[t])>> \in Nest
  BY <1>1, StackTop
<1>3. \A g \in Range(Front(stack[t])) : g \in FramesOn(t)
  BY <1>2, RangeIs DEF Stacks
<1> QED  BY <1>2, <1>3, NestIs DEF Top

\* Code of the application runs over code of the application only.
LEMMA CodeBelow ==
  ASSUME Stacked, NEW t \in Threads, RunsCode(t)
  PROVE  \A g \in Range(stack[t]) : IsCode(g) /\ g \in FramesOn(t)
<1>1. CASE stack[t] = << >>  BY <1>1, RangeEmpty
<1>2. CASE stack[t] # << >>
  <2>1. IsCode(Top(t)) /\ ~InBroker(Top(t))
    BY <1>2 DEF RunsCode, Calling, Emitting, Top, IsCode, InBroker
  <2> QED  BY <1>2, <2>1, TopIs DEF Over
<1> QED  BY <1>1, <1>2
-----------------------------------------------------------------------------
\* The steps of a stack.

\* One stack is replaced by a good one.
LEMMA PutStep ==
  ASSUME Fields, Stacked, Shrinks, sent' \in Nat, sent <= sent', NEW t \in Threads,
         NEW s \in Stacks(FramesOn(t)', Nest'), stack' = Put(stack, t, s)
  PROVE  /\ Stacked' /\ stack' = [u \in Threads |-> stack'[u]] /\ stack'[t] = s
         /\ \A u \in Threads : u # t => stack'[u] = stack[u]
<1>1. /\ stack' = [u \in Threads |-> IF u = t THEN s ELSE stack[u]] /\ sent \in Nat
  <2>1. stack = [u \in Threads |-> stack[u]]  BY DEF Fields
  <2>2. sent \in 0..MaxEvents  BY DEF Fields
  <2> QED  BY <2>1, <2>2, EventAssumption DEF Put
<1>2. ASSUME NEW u \in Threads PROVE stack'[u] \in Stacks(FramesOn(u)', Nest')
  <2>1. CASE u = t  BY <1>1, <2>1
  <2>2. CASE u # t
    <3>1. stack'[u] = stack[u] /\ stack[u] \in Stacks(FramesOn(u), Nest)
      BY <1>1, <2>2 DEF Stacked
    <3> QED  BY <1>1, <3>1, StacksKept
  <2> QED  BY <2>1, <2>2
<1>3. Stacked'  BY <1>2 DEF Stacked
<1> QED  BY <1>1, <1>3

\* A frame is pushed that holds nothing.
LEMMA PushStep ==
  ASSUME Fields, Stacked, sent' \in Nat, sent <= sent', NEW t \in Threads,
         NEW f \in FramesOn(t)', stack' = Put(stack, t, Plus(stack[t], f)),
         \A g \in Range(stack[t]) : Over(g, f), f \in AnyFrames \/ f.call # "walk",
         \A c \in Receivers : f.call = "walk" => f.held # c,
         owned' \subseteq owned, \A c \in Receivers : c \in Range(receiver_handlers_)' => Held(c)
  PROVE  /\ Stacked' /\ stack' = [u \in Threads |-> stack'[u]] /\ Shrinks
         /\ OnlyAdds(t, stack[t], f)
<1>1. stack[t] \in Stacks(FramesOn(t), Nest) /\ sent \in Nat  BY DEF Stacked, Fields
<1>2. stack' = [u \in Threads |-> IF u = t THEN Plus(stack[t], f) ELSE stack[u]]
  BY DEF Fields, Put
<1>3. stack[t] \in Seq(FramesOn(t)')
  BY <1>1, FramesGrow, SeqMonotonic DEF Stacks
<1>4. Range(stack'[t]) = Range(stack[t]) \cup {f}
  BY <1>2, <1>3, AppendIs DEF Plus
<1>5. Shrinks
  <2> SUFFICES ASSUME NEW u \in Threads, NEW g \in Range(stack'[u]), NEW c \in Receivers,
                      g.call = "walk" /\ g.held = c
               PROVE  g \in Range(stack[u])
    BY ShrinksIs
  <2> QED  BY <1>2, <1>4
<1>6. stack[t] \in Stacks(FramesOn(t)', Nest')  BY <1>1, <1>5, StacksKept
<1>7. \A g \in Range(stack[t]) : <<g, f>> \in Nest'
  <2> SUFFICES ASSUME NEW g \in Range(stack[t]) PROVE <<g, f>> \in Nest'  OBVIOUS
  <2>1. g \in AnyFrames' /\ f \in AnyFrames'
    BY <1>3, RangeIs, FramesAnyNext
  <2>2. Over(g, f)'
    <3>1. CASE f \in AnyFrames  BY <1>5, <3>1, OverKept
    <3>2. CASE f.call # "walk"  BY <3>2 DEF Over
    <3> QED  BY <3>1, <3>2
  <2> QED  BY <2>1, <2>2, NestNext
<1>8. /\ Plus(stack[t], f) \in Stacks(FramesOn(t)', Nest')
      /\ Plus(stack[t], f) # << >> /\ Last(Plus(stack[t], f)) = f
  BY <1>6, <1>7, StackPush
<1>9. /\ Stacked' /\ stack' = [u \in Threads |-> stack'[u]]
      /\ stack'[t] = Plus(stack[t], f) /\ \A u \in Threads : u # t => stack'[u] = stack[u]
  BY <1>5, <1>8, PutStep
<1> QED  BY <1>4, <1>5, <1>8, <1>9 DEF OnlyAdds, Adds

\* The running frame is replaced by one that holds nobody new.
LEMMA InsteadStep ==
  ASSUME Fields, Stacked, sent' \in Nat, sent <= sent', NEW t \in Threads, stack[t] # << >>,
         NEW f \in FramesOn(t), stack' = Put(stack, t, Instead(stack[t], f)),
         \A g \in Range(Front(stack[t])) : Over(g, f),
         \A c \in Receivers : f.call = "walk" /\ f.held = c => Held(c),
         owned' \subseteq owned, \A c \in Receivers : c \in Range(receiver_handlers_)' => Held(c)
  PROVE  /\ Stacked' /\ stack' = [u \in Threads |-> stack'[u]] /\ Shrinks
         /\ OnlyAdds(t, Front(stack[t]), f)
<1> DEFINE s == Front(stack[t])
<1>1. /\ s \in Stacks(FramesOn(t), Nest) /\ sent \in Nat
      /\ Range(stack[t]) = Range(s) \cup {Top(t)}
  BY TopIs DEF Fields
<1>2. stack' = [u \in Threads |-> IF u = t THEN Append(s, f) ELSE stack[u]]
  BY DEF Fields, Put, Instead
<1> HIDE DEF s
<1>3. s \in Seq(FramesOn(t))
  BY <1>1 DEF Stacks
<1>4. Range(stack'[t]) = Range(s) \cup {f}
  BY <1>2, <1>3, AppendIs
<1>5. Shrinks
  <2> SUFFICES ASSUME NEW u \in Threads, NEW g \in Range(stack'[u]), NEW c \in Receivers,
                      g.call = "walk" /\ g.held = c
               PROVE  g \in Range(stack[u]) \/ Held(c)
    BY ShrinksIs
  <2> QED  BY <1>1, <1>2, <1>4
<1>6. s \in Stacks(FramesOn(t)', Nest') /\ f \in FramesOn(t)'
  BY <1>1, <1>5, StacksKept, FramesGrow
<1>7. \A g \in Range(s) : <<g, f>> \in Nest'
  <2> SUFFICES ASSUME NEW g \in Range(s) PROVE <<g, f>> \in Nest'  OBVIOUS
  <2>1. g \in AnyFrames' /\ f \in AnyFrames' /\ f \in AnyFrames
    BY <1>3, <1>1, <1>6, RangeIs, FramesAny, FramesGrow
  <2>2. Over(g, f)'  BY <1>5, <2>1, OverKept DEF s
  <2> QED  BY <2>1, <2>2, NestNext
<1>8. /\ Plus(s, f) \in Stacks(FramesOn(t)', Nest')
      /\ Plus(s, f) # << >> /\ Last(Plus(s, f)) = f
  BY <1>6, <1>7, StackPush
<1>9. /\ Stacked' /\ stack' = [u \in Threads |-> stack'[u]]
      /\ stack'[t] = Plus(s, f) /\ \A u \in Threads : u # t => stack'[u] = stack[u]
  <2>1. stack' = Put(stack, t, Plus(s, f))  BY DEF Instead, Plus, s
  <2> QED  BY <1>5, <1>8, <2>1, PutStep
<1> QED  BY <1>4, <1>5, <1>8, <1>9 DEF OnlyAdds, Adds, s

\* The running frame goes.
LEMMA PopStep ==
  ASSUME Fields, Stacked, sent' \in Nat, sent <= sent', NEW t \in Threads, stack[t] # << >>,
         stack' = Put(stack, t, Front(stack[t])),
         owned' \subseteq owned, \A c \in Receivers : c \in Range(receiver_handlers_)' => Held(c)
  PROVE  /\ Stacked' /\ stack' = [u \in Threads |-> stack'[u]] /\ Shrinks
         /\ stack'[t] = Front(stack[t])
         /\ \A u \in Threads : u # t => stack'[u] = stack[u]
<1> DEFINE s == Front(stack[t])
<1>1. /\ s \in Stacks(FramesOn(t), Nest) /\ sent \in Nat
      /\ Range(stack[t]) = Range(s) \cup {Top(t)}
  BY TopIs DEF Fields
<1>2. stack' = [u \in Threads |-> IF u = t THEN s ELSE stack[u]]
  BY DEF Fields, Put
<1> HIDE DEF s
<1>3. Shrinks
  <2> SUFFICES ASSUME NEW u \in Threads, NEW g \in Range(stack'[u]), NEW c \in Receivers,
                      g.call = "walk" /\ g.held = c
               PROVE  g \in Range(stack[u])
    BY ShrinksIs
  <2> QED  BY <1>1, <1>2
<1>4. s \in Stacks(FramesOn(t)', Nest')
  BY <1>1, <1>3, StacksKept
<1> QED  BY <1>3, <1>4, PutStep DEF s

\* No stack changes.
LEMMA StackStays ==
  ASSUME Fields, Stacked, sent' \in Nat, sent <= sent', UNCHANGED stack,
         owned' \subseteq owned, \A c \in Receivers : c \in Range(receiver_handlers_)' => Held(c)
  PROVE  Stacked' /\ stack' = [u \in Threads |-> stack'[u]] /\ Shrinks
<1>1. Shrinks  BY ShrinksIs
<1>2. \A u \in Threads : stack'[u] \in Stacks(FramesOn(u)', Nest')
  BY <1>1, StacksKept DEF Stacked, Fields
<1> QED  BY <1>1, <1>2 DEF Stacked, Fields

\* Dead stays true if nobody new is destroyed, or is held by nobody.
LEMMA DeadStep ==
  ASSUME Fields, Stacked', Dead, Shrinks,
         \A c \in Receivers : life'[c] = "freed" => life[c] = "freed" \/ ~Held(c)',
         \A u \in Threads : \A f \in Range(stack'[u]) :
             f.call = "destroy" => f \in Range(stack[u]) \/ ~Held(f.of)'
  PROVE  Dead'
<1>1. \A u \in Threads : \A f \in Range(stack'[u]) : f.call = "destroy" => f.of \in Receivers
  <2> SUFFICES ASSUME NEW u \in Threads, NEW f \in Range(stack'[u]), f.call = "destroy"
               PROVE  f.of \in Receivers
    OBVIOUS
  <2>1. stack'[u] \in Seq(FramesOn(u)')  BY DEF Stacked, Stacks
  <2>2. f \in AnyFrames'  BY <2>1, RangeIs, FramesAnyNext
  <2> QED  BY <2>2 DEF AnyFrames, WalkFrames, CallFrames, EmitFrames, Forgets
<1> QED  BY <1>1 DEF Dead, Shrinks

\* Held looks at the walks of the stacks only.
LEMMA HeldSame ==
  ASSUME NEW c, owned' = owned, receiver_handlers_' = receiver_handlers_,
         \A u \in Threads : \A f : f.call = "walk" => (f \in Range(stack'[u]) <=> f \in Range(stack[u]))
  PROVE  Held(c)' <=> Held(c)
BY HeldIs DEF Held, HeldBy
-----------------------------------------------------------------------------
\* Every action keeps the shape.

\* The emission that is running.
LEMMA EmitTop ==
  ASSUME Shape, NEW at, Emitting(at)
  PROVE  /\ Main \in Threads /\ stack[Main] # << >> /\ Top(Main) \in EmitFrames
         /\ Top(Main).call = "emit" /\ Top(Main).at = at
<1>1. /\ Main \in Threads /\ stack[Main] # << >> /\ Top(Main).call = "emit" /\ Top(Main).at = at
  BY EventAssumption DEF Emitting, Calling, Top
<1>2. Top(Main) \in FramesOn(Main)  BY <1>1, TopIs DEF Shape
<1> QED  BY <1>1, <1>2 DEF FramesOn, WalkFrames, CallFrames, Forgets

\* An emission goes on.
LEMMA SetEmit ==
  ASSUME Shape, NEW at, Emitting(at), NEW f \in EmitFrames, f.event = Top(Main).event,
         f.at \in Fetches => at \in Fetches, stack' = SetTop(Main, f),
         UNCHANGED <<life, owned, sent>>,
         \A c \in Receivers : c \in Range(receiver_handlers_)' => Held(c)
  PROVE  /\ Stacked' /\ stack' = [u \in Threads |-> stack'[u]] /\ Shrinks /\ Dead'
         /\ OnlyAdds(Main, Front(stack[Main]), f)
<1>1. /\ Main \in Threads /\ stack[Main] # << >> /\ Top(Main) \in EmitFrames
      /\ Top(Main).call = "emit" /\ Top(Main).at = at /\ f.call = "emit" /\ f \in FramesOn(Main)
  BY EmitTop DEF EmitFrames, FramesOn
<1>2. \A g \in Range(Front(stack[Main])) : Over(g, Top(Main))  BY <1>1, TopIs DEF Shape
<1>3. \A g \in Range(Front(stack[Main])) : Over(g, f)  BY <1>1, <1>2 DEF Over, InBroker
<1>4. sent' \in Nat /\ sent <= sent'  BY EventAssumption DEF Shape, Fields
<1>5. stack' = Put(stack, Main, Instead(stack[Main], f))  BY DEF SetTop, Put, Instead
<1>6. /\ Stacked' /\ stack' = [u \in Threads |-> stack'[u]] /\ Shrinks
      /\ OnlyAdds(Main, Front(stack[Main]), f)
  BY <1>1, <1>3, <1>4, <1>5, InsteadStep DEF Shape
<1>7. \A u \in Threads : \A g \in Range(stack'[u]) : g.call = "destroy" => g \in Range(stack[u])
  <2> SUFFICES ASSUME NEW u \in Threads, NEW g \in Range(stack'[u]), g.call = "destroy"
               PROVE  g \in Range(stack[u])
    OBVIOUS
  <2>1. Range(stack[Main]) = Range(Front(stack[Main])) \cup {Top(Main)}  BY <1>1, TopIs DEF Shape
  <2> QED  BY <1>1, <1>6, <2>1 DEF OnlyAdds, Adds
<1>8. \A c \in Receivers : life'[c] = "freed" => life[c] = "freed"  OBVIOUS
<1>9. Dead'  BY <1>6, <1>7, <1>8, DeadStep DEF Shape
<1> QED  BY <1>6, <1>9

\* What lock() finds is a list, the broker's or one that another lookup keeps.
LEMMA LockedIs ==
  ASSUME Fields, NEW s \in Locked(receivers_)
  PROVE  /\ s \in Seq(Receivers)
         /\ receivers_ = version => s = list
         /\ receivers_ # version => s = << >> \/ \E o \in Keeping(receivers_) : s = pinnedList[o]
<1>1. << >> \in Seq(Receivers)  BY EmptySeq
<1>2. \A o \in Keeping(receivers_) : pinnedList[o] \in Seq(Receivers)  BY DEF Fields, Keeping
<1>3. list \in Seq(Receivers)  BY DEF Fields
<1> QED  BY <1>1, <1>2, <1>3 DEF Locked

\* An emission that takes the list's lock keeps the shape.
LEMMA LockReceiversShape ==
  ASSUME Shape, LockReceivers
  PROVE  /\ Shape' /\ Shrinks
         /\ \E s \in Locked(receivers_), f \in EmitFrames :
               /\ OnlyAdds(Main, Front(stack[Main]), f)
               /\ f = [Top(Main) EXCEPT !.at = "clear", !.lost = receivers_ # version, !.snap = s]
<1>1. PICK s \in Locked(receivers_) : stack' = SetTop(Main,
          [Top(Main) EXCEPT !.at = "clear", !.lost = receivers_ # version, !.snap = s])
  BY DEF LockReceivers
<1> DEFINE f == [Top(Main) EXCEPT !.at = "clear", !.lost = receivers_ # version, !.snap = s]
<1>8. Emitting("fetched") /\ UNCHANGED <<brokerVars, compVars, refVars, eventVars, crashed>>
  BY DEF LockReceivers
<1>2. Top(Main) \in EmitFrames  BY <1>8, EmitTop
<1>3. s \in Seq(Receivers)  BY LockedIs DEF Shape
<1>4. f \in EmitFrames /\ f.event = Top(Main).event /\ f.at = "clear" /\ stack' = SetTop(Main, f)
  BY <1>1, <1>2, <1>3 DEF EmitFrames, Fetches
<1> HIDE DEF f
<1>5. /\ UNCHANGED <<life, owned, sent, receiver_handlers_>>
      /\ \A c \in Receivers : c \in Range(receiver_handlers_)' => Held(c)
  BY <1>8, HeldIs DEF compVars, eventVars, refVars
<1>6. /\ Stacked' /\ stack' = [u \in Threads |-> stack'[u]] /\ Shrinks /\ Dead'
      /\ OnlyAdds(Main, Front(stack[Main]), f)
  BY <1>8, <1>4, <1>5, SetEmit DEF Fetches
<1>7. Fields'
  BY <1>8, <1>6 DEF Shape, Fields, brokerVars, otherVars, compVars, refVars, eventVars, Handovers
<1> QED  BY <1>4, <1>6, <1>7 DEF Shape, f

\* Letting go of a shared_ptr: the component is still held, or its destructor runs.
LEMMA ReleaseStep ==
  ASSUME Shape, NEW t \in Threads, NEW c \in Receivers,
         Release(t, c, owned', receiver_handlers_', stack),
         owned' \subseteq owned, UNCHANGED <<life, sent>>,
         \A d \in Receivers : d \in Range(receiver_handlers_)' => Held(d),
         \A g \in Range(stack[t]) : Over(g, Call("destroy", c))
  PROVE  /\ Stacked' /\ stack' = [u \in Threads |-> stack'[u]] /\ Shrinks /\ Dead'
         /\ Same({"emit", "walk", "task", "publish", "forget"})
         /\ \A u \in Threads : Range(stack[u]) \subseteq Range(stack'[u])
<1> DEFINE f == Call("destroy", c)
<1>1. f \in CallFrames /\ f.call = "destroy" /\ f.of = c  BY DEF Call, CallFrames
<1>2. sent' \in Nat /\ sent <= sent'  BY EventAssumption DEF Shape, Fields
<1>3. CASE HeldBy(owned', receiver_handlers_', stack, c)
  <2>1. stack' = stack  BY <1>3 DEF Release
  <2>2. Stacked' /\ stack' = [u \in Threads |-> stack'[u]] /\ Shrinks
    BY <1>2, <2>1, StackStays DEF Shape
  <2>3. Dead'  BY <2>1, <2>2, DeadStep DEF Shape
  <2> QED  BY <2>1, <2>2, <2>3 DEF Same
<1>4. CASE ~HeldBy(owned', receiver_handlers_', stack, c)
  <2>1. stack' = Put(stack, t, Plus(stack[t], f))  BY <1>4 DEF Release, Put, Plus
  <2>2. f \in FramesOn(t)'  BY <1>1 DEF FramesOn, CallFrames
  <2> HIDE DEF f
  <2>3. /\ Stacked' /\ stack' = [u \in Threads |-> stack'[u]] /\ Shrinks
        /\ OnlyAdds(t, stack[t], f)
    BY <1>1, <1>2, <2>1, <2>2, PushStep DEF Shape, f
  <2>4. /\ \A u \in Threads : \A g \in Range(stack'[u]) : g \in Range(stack[u]) \/ g = f
        /\ \A u \in Threads : Range(stack[u]) \subseteq Range(stack'[u])
    BY <2>3 DEF OnlyAdds, Adds
  <2>5. Same({"emit", "walk", "task", "publish", "forget"})
    BY <1>1, <2>4 DEF Same
  <2>6. ~Held(c)'
    <3>1. \A u \in Threads : \A g \in Range(stack'[u]) : g.call = "walk" => g \in Range(stack[u])
      BY <1>1, <2>4
    <3> QED  BY <1>4, <3>1 DEF Held, HeldBy
  <2>7. Dead'  BY <1>1, <2>3, <2>4, <2>6, DeadStep DEF Shape
  <2> QED  BY <2>3, <2>4, <2>5, <2>7
<1> QED  BY <1>3, <1>4

\* So does one that finds its cache stale and empties it,
LEMMA ClearShape ==
  ASSUME Shape, Clear
  PROVE  /\ Shape' /\ Shrinks
         /\ receiver_handlers_ = << >> =>
               \E f \in EmitFrames : /\ OnlyAdds(Main, Front(stack[Main]), f)
                                     /\ f = [Top(Main) EXCEPT !.at = "gather"]
         /\ receiver_handlers_ # << >> =>
               /\ Same({"emit", "walk", "task", "publish", "forget"})
               /\ \A u \in Threads : Range(stack[u]) \subseteq Range(stack'[u])
<1>1. /\ Emitting("clear")
      /\ UNCHANGED <<brokerVars, compVars, receivers_, eventVars, crashed>>
  BY DEF Clear
<1>2. /\ Main \in Threads /\ stack[Main] # << >> /\ Top(Main) \in EmitFrames
      /\ Top(Main).call = "emit" /\ Top(Main).at = "clear"
  BY <1>1, EmitTop
<1>3. UNCHANGED <<life, owned, sent>>  BY <1>1 DEF compVars, eventVars
<1>4. CASE receiver_handlers_ = << >>
  <2> DEFINE f == [Top(Main) EXCEPT !.at = "gather"]
  <2>1. stack' = SetTop(Main, f) /\ overlooked' = {} /\ UNCHANGED receiver_handlers_
    BY <1>4 DEF Clear
  <2>2. f \in EmitFrames /\ f.event = Top(Main).event
    BY <1>2 DEF EmitFrames, Fetches
  <2> HIDE DEF f
  <2>3. \A c \in Receivers : c \in Range(receiver_handlers_)' => Held(c)
    BY <2>1, HeldIs
  <2>4. /\ Stacked' /\ stack' = [u \in Threads |-> stack'[u]] /\ Shrinks /\ Dead'
        /\ OnlyAdds(Main, Front(stack[Main]), f)
    BY <1>1, <1>3, <2>1, <2>2, <2>3, SetEmit DEF Fetches
  <2>5. Fields'  BY <1>1, <2>1, <2>4 DEF Shape, Fields, brokerVars, otherVars, compVars, eventVars, Handovers
  <2> QED  BY <1>4, <2>2, <2>4, <2>5 DEF Shape, f
<1>5. CASE receiver_handlers_ # << >>
  <2> DEFINE c == Head(receiver_handlers_)
  <2>1. /\ receiver_handlers_' = Tail(receiver_handlers_)
        /\ Release(Main, c, owned, Tail(receiver_handlers_), stack) /\ UNCHANGED overlooked
    BY <1>5 DEF Clear
  <2>2. /\ c \in Receivers /\ Tail(receiver_handlers_) \in Seq(Receivers)
        /\ Range(Tail(receiver_handlers_)) \subseteq Range(receiver_handlers_)
    BY <1>5, TailIs DEF Shape, Fields
  <2>3. \A d \in Receivers : d \in Range(receiver_handlers_)' => Held(d)
    BY <2>1, <2>2, HeldIs
  <2>4. \A g \in Range(stack[Main]) : Over(g, Call("destroy", c))
    <3>1. \A g \in Range(Front(stack[Main])) : Over(g, Top(Main))
      BY <1>2, TopIs DEF Shape
    <3>2. Range(stack[Main]) = Range(Front(stack[Main])) \cup {Top(Main)}
      BY <1>2, TopIs DEF Shape
    <3> QED  BY <1>2, <3>1, <3>2 DEF Over, InBroker, Call
  <2>5. Release(Main, c, owned', receiver_handlers_', stack)  BY <1>3, <2>1
  <2> HIDE DEF c
  <2>6. /\ Stacked' /\ stack' = [u \in Threads |-> stack'[u]] /\ Shrinks /\ Dead'
        /\ Same({"emit", "walk", "task", "publish", "forget"})
        /\ \A u \in Threads : Range(stack[u]) \subseteq Range(stack'[u])
    BY <1>2, <1>3, <2>2, <2>3, <2>4, <2>5, ReleaseStep
  <2>7. Fields'  BY <1>1, <2>1, <2>2, <2>6 DEF Shape, Fields, brokerVars, otherVars, compVars, eventVars, Handovers
  <2> QED  BY <1>5, <2>6, <2>7 DEF Shape
<1> QED  BY <1>4, <1>5

\* and one that locks a subscriber and copies its entry,
LEMMA GatherShape ==
  ASSUME Shape, Gather
  PROVE  /\ Shape' /\ Shrinks
         /\ \E f \in EmitFrames : /\ OnlyAdds(Main, Front(stack[Main]), f)
               /\ f = IF Top(Main).snap = << >> THEN [Top(Main) EXCEPT !.at = "dispatch"]
                      ELSE [Top(Main) EXCEPT !.snap = Tail(Top(Main).snap)]
<1> DEFINE f == IF Top(Main).snap = << >> THEN [Top(Main) EXCEPT !.at = "dispatch"]
                ELSE [Top(Main) EXCEPT !.snap = Tail(Top(Main).snap)]
<1>1. /\ Emitting("gather") /\ stack' = SetTop(Main, f)
      /\ UNCHANGED <<brokerVars, compVars, receivers_, eventVars, crashed>>
  BY DEF Gather
<1>2. /\ Main \in Threads /\ stack[Main] # << >> /\ Top(Main) \in EmitFrames
      /\ Top(Main).call = "emit" /\ Top(Main).at = "gather"
  BY <1>1, EmitTop
<1>3. UNCHANGED <<life, owned, sent>>  BY <1>1 DEF compVars, eventVars
<1>4. Top(Main).snap \in Seq(Receivers)  BY <1>2 DEF EmitFrames
<1>5. f \in EmitFrames /\ f.event = Top(Main).event
  <2>1. CASE Top(Main).snap = << >>  BY <1>2, <2>1 DEF EmitFrames, Fetches
  <2>2. CASE Top(Main).snap # << >>
    <3>1. Tail(Top(Main).snap) \in Seq(Receivers)  BY <1>4, <2>2, TailIs
    <3> QED  BY <1>2, <2>2, <3>1 DEF EmitFrames, Fetches
  <2> QED  BY <2>1, <2>2
<1> HIDE DEF f
<1>6. /\ receiver_handlers_' \in Seq(Receivers) /\ overlooked' \subseteq Receivers
      /\ \A c \in Receivers : c \in Range(receiver_handlers_)' => Held(c)
  <2>1. CASE Top(Main).snap = << >>
    BY <2>1, HeldIs DEF Gather, Shape, Fields
  <2>2. CASE Top(Main).snap # << >>
    <3> DEFINE c == Head(Top(Main).snap)
    <3>1. c \in Receivers  BY <1>4, <2>2, TailIs
    <3>2. /\ receiver_handlers_' = IF Held(c) /\ HasHandler(c)
                                     THEN Append(receiver_handlers_, c) ELSE receiver_handlers_
          /\ overlooked' = IF Held(c) /\ ~HasHandler(c) THEN overlooked \cup {c} ELSE overlooked
      BY <2>2 DEF Gather
    <3> HIDE DEF c
    <3>3. /\ receiver_handlers_ \in Seq(Receivers) /\ overlooked \subseteq Receivers
          /\ Append(receiver_handlers_, c) \in Seq(Receivers)
          /\ Range(Append(receiver_handlers_, c)) = Range(receiver_handlers_) \cup {c}
      BY <3>1, AppendIs DEF Shape, Fields
    <3> QED  BY <3>1, <3>2, <3>3, HeldIs
  <2> QED  BY <2>1, <2>2
<1>7. /\ Stacked' /\ stack' = [u \in Threads |-> stack'[u]] /\ Shrinks /\ Dead'
      /\ OnlyAdds(Main, Front(stack[Main]), f)
  BY <1>1, <1>3, <1>5, <1>6, SetEmit DEF Fetches
<1>8. Fields'  BY <1>1, <1>6, <1>7 DEF Shape, Fields, brokerVars, otherVars, compVars, eventVars, Handovers
<1> QED  BY <1>5, <1>7, <1>8 DEF Shape, f

\* and one that calls a handler on its own thread,
LEMMA InvokeShape ==
  ASSUME Shape, Invoke
  PROVE  /\ Shape' /\ Shrinks
         /\ \E f \in EmitFrames : /\ OnlyAdds(Main, Front(stack[Main]), f)
               /\ f = [Top(Main) EXCEPT !.at = "calling", !.to = Receiver]
         /\ Receiver \in Receivers /\ handed' = Handed(Receiver)
         /\ Top(Main).i \in 1..Len(receiver_handlers_)
<1> DEFINE f == [Top(Main) EXCEPT !.at = "calling", !.to = Receiver]
<1>1. /\ Emitting("dispatch") /\ stack' = SetTop(Main, f) /\ handed' = Handed(Receiver)
      /\ UNCHANGED <<brokerVars, compVars, refVars, sent, queue, crashed>>
      /\ Top(Main).i <= Len(receiver_handlers_)
  BY DEF Invoke, Dispatching
<1>2. /\ Main \in Threads /\ stack[Main] # << >> /\ Top(Main) \in EmitFrames
      /\ Top(Main).call = "emit" /\ Top(Main).at = "dispatch"
  BY <1>1, EmitTop
<1>3. Top(Main).i \in 1..Len(receiver_handlers_)
  <2>1. Top(Main).i \in Nat \ {0} /\ Len(receiver_handlers_) \in Nat
    BY <1>2, RangeIs DEF EmitFrames, Shape, Fields
  <2> QED  BY <1>1, <2>1
<1>4. Receiver \in Receivers  BY <1>3, ElementOfSeq DEF Receiver, Shape, Fields
<1>5. f \in EmitFrames /\ f.event = Top(Main).event /\ f.at = "calling"
  BY <1>2, <1>4 DEF EmitFrames, Fetches
<1> HIDE DEF f
<1>6. /\ UNCHANGED <<life, owned, sent, receiver_handlers_>>
      /\ \A c \in Receivers : c \in Range(receiver_handlers_)' => Held(c)
  BY <1>1, HeldIs DEF compVars, refVars
<1>7. /\ Stacked' /\ stack' = [u \in Threads |-> stack'[u]] /\ Shrinks /\ Dead'
      /\ OnlyAdds(Main, Front(stack[Main]), f)
  BY <1>1, <1>5, <1>6, SetEmit DEF Fetches
<1>8. handed' \in Seq(Handovers)
  <2>1. Top(Main).event \in 1..sent  BY <1>2 DEF EmitFrames
  <2>2. [event |-> Top(Main).event, to |-> Receiver] \in Handovers
    BY <1>4, <2>1 DEF Handovers
  <2> QED  BY <1>1, <2>2, AppendIs DEF Handed, Shape, Fields
<1>9. Fields'  BY <1>1, <1>7, <1>8 DEF Shape, Fields, brokerVars, otherVars, compVars, refVars, Handovers
<1> QED  BY <1>1, <1>3, <1>4, <1>5, <1>7, <1>9 DEF Shape, f

\* and one that hands a task to another executor,
LEMMA EnqueueShape ==
  ASSUME Shape, Enqueue
  PROVE  /\ Shape' /\ Shrinks
         /\ \E f \in EmitFrames : /\ OnlyAdds(Main, Front(stack[Main]), f)
               /\ f = [Top(Main) EXCEPT !.i = Top(Main).i + 1]
         /\ Receiver \in Receivers /\ handed' = Handed(Receiver)
         /\ Top(Main).i \in 1..Len(receiver_handlers_)
<1> DEFINE f == [Top(Main) EXCEPT !.i = Top(Main).i + 1]
<1>1. /\ Emitting("dispatch") /\ stack' = SetTop(Main, f) /\ handed' = Handed(Receiver)
      /\ UNCHANGED <<brokerVars, compVars, refVars, sent, crashed>>
      /\ queue' = [queue EXCEPT ![Thread[Receiver]] = Append(queue[Thread[Receiver]], Receiver)]
      /\ Top(Main).i <= Len(receiver_handlers_)
  BY DEF Enqueue, Dispatching
<1>2. /\ Main \in Threads /\ stack[Main] # << >> /\ Top(Main) \in EmitFrames
      /\ Top(Main).call = "emit" /\ Top(Main).at = "dispatch"
  BY <1>1, EmitTop
<1>3. Top(Main).i \in 1..Len(receiver_handlers_) /\ Top(Main).i + 1 \in Nat \ {0}
  <2>1. Top(Main).i \in Nat \ {0} /\ Len(receiver_handlers_) \in Nat
    BY <1>2, RangeIs DEF EmitFrames, Shape, Fields
  <2> QED  BY <1>1, <2>1
<1>4. Receiver \in Receivers  BY <1>3, ElementOfSeq DEF Receiver, Shape, Fields
<1>5. f \in EmitFrames /\ f.event = Top(Main).event /\ f.at = "dispatch"
  BY <1>2, <1>3 DEF EmitFrames, Fetches
<1> HIDE DEF f
<1>6. /\ UNCHANGED <<life, owned, sent, receiver_handlers_>>
      /\ \A c \in Receivers : c \in Range(receiver_handlers_)' => Held(c)
  BY <1>1, HeldIs DEF compVars, refVars
<1>7. /\ Stacked' /\ stack' = [u \in Threads |-> stack'[u]] /\ Shrinks /\ Dead'
      /\ OnlyAdds(Main, Front(stack[Main]), f)
  BY <1>1, <1>5, <1>6, SetEmit DEF Fetches
<1>8. handed' \in Seq(Handovers)
  <2>1. Top(Main).event \in 1..sent  BY <1>2 DEF EmitFrames
  <2>2. [event |-> Top(Main).event, to |-> Receiver] \in Handovers
    BY <1>4, <2>1 DEF Handovers
  <2> QED  BY <1>1, <2>2, AppendIs DEF Handed, Shape, Fields
<1>9. queue' \in [Threads -> Seq(Receivers)]
  <2>1. queue \in [Threads -> Seq(Receivers)] /\ Thread[Receiver] \in Threads
    BY <1>4, EventAssumption DEF Shape, Fields
  <2>2. Append(queue[Thread[Receiver]], Receiver) \in Seq(Receivers)
    BY <1>4, <2>1, AppendIs
  <2> QED  BY <1>1, <2>1, <2>2
<1>10. Fields'
  BY <1>1, <1>7, <1>8, <1>9 DEF Shape, Fields, brokerVars, otherVars, compVars, refVars, Handovers
<1> QED  BY <1>1, <1>3, <1>4, <1>5, <1>7, <1>10 DEF Shape, f

\* and one whose handler came back,
LEMMA InvokeReturnsShape ==
  ASSUME Shape, InvokeReturns
  PROVE  /\ Shape' /\ Shrinks
         /\ Top(Main).stale => UNCHANGED stack
         /\ ~Top(Main).stale => \E f \in EmitFrames : /\ OnlyAdds(Main, Front(stack[Main]), f)
               /\ f = [Top(Main) EXCEPT !.at = "dispatch", !.i = Top(Main).i + 1, !.to = None]
<1> DEFINE f == [Top(Main) EXCEPT !.at = "dispatch", !.i = Top(Main).i + 1, !.to = None]
<1>1. Emitting("calling") /\ UNCHANGED <<brokerVars, compVars, refVars, eventVars>>
  BY DEF InvokeReturns
<1>2. /\ Main \in Threads /\ stack[Main] # << >> /\ Top(Main) \in EmitFrames
      /\ Top(Main).call = "emit" /\ Top(Main).at = "calling"
  BY <1>1, EmitTop
<1>3. /\ UNCHANGED <<life, owned, sent, receiver_handlers_>>
      /\ \A c \in Receivers : c \in Range(receiver_handlers_)' => Held(c)
  BY <1>1, HeldIs DEF compVars, refVars, eventVars
<1>4. sent' \in Nat /\ sent <= sent'  BY <1>3, EventAssumption DEF Shape, Fields
<1>5. CASE Top(Main).stale
  <2>1. UNCHANGED stack /\ crashed' = TRUE  BY <1>5 DEF InvokeReturns
  <2>2. Stacked' /\ stack' = [u \in Threads |-> stack'[u]] /\ Shrinks
    BY <1>3, <1>4, <2>1, StackStays DEF Shape
  <2>3. Dead'  BY <1>3, <2>1, <2>2, DeadStep DEF Shape
  <2>4. Fields'  BY <1>1, <2>1, <2>2 DEF Shape, Fields, brokerVars, otherVars, compVars, refVars, eventVars, Handovers
  <2> QED  BY <1>5, <2>1, <2>2, <2>3, <2>4 DEF Shape
<1>6. CASE ~Top(Main).stale
  <2>1. stack' = SetTop(Main, f) /\ UNCHANGED crashed  BY <1>6 DEF InvokeReturns
  <2>2. Top(Main).i + 1 \in Nat \ {0}  BY <1>2 DEF EmitFrames
  <2>3. f \in EmitFrames /\ f.event = Top(Main).event /\ f.at = "dispatch"
    BY <1>2, <2>2 DEF EmitFrames, Fetches
  <2> HIDE DEF f
  <2>4. /\ Stacked' /\ stack' = [u \in Threads |-> stack'[u]] /\ Shrinks /\ Dead'
        /\ OnlyAdds(Main, Front(stack[Main]), f)
    BY <1>1, <1>3, <2>1, <2>3, SetEmit DEF Fetches
  <2>5. Fields'  BY <1>1, <2>1, <2>4 DEF Shape, Fields, brokerVars, otherVars, compVars, refVars, eventVars, Handovers
  <2> QED  BY <1>6, <2>3, <2>4, <2>5 DEF Shape, f
<1> QED  BY <1>5, <1>6

\* The running call returns: all the other frames stay.
Returned(t) == /\ stack[t] # << >> /\ stack'[t] = Front(stack[t])
               /\ Range(stack[t]) = Range(stack'[t]) \cup {Top(t)}
               /\ \A u \in Threads : u # t => stack'[u] = stack[u]

\* A frame that is popped leaves good stacks, and destroys nobody.
LEMMA ReturnStep ==
  ASSUME Shape, NEW t \in Threads, stack[t] # << >>, stack' = Pop(t),
         UNCHANGED <<owned, sent, receiver_handlers_>>,
         \A c \in Receivers : life'[c] = "freed" => life[c] = "freed" \/ ~Held(c)
  PROVE  /\ Stacked' /\ stack' = [u \in Threads |-> stack'[u]] /\ Shrinks /\ Dead' /\ Returned(t)
<1>1. sent' \in Nat /\ sent <= sent'  BY EventAssumption DEF Shape, Fields
<1>2. stack' = Put(stack, t, Front(stack[t]))  BY DEF Pop, Put
<1>3. \A c \in Receivers : c \in Range(receiver_handlers_)' => Held(c)  BY HeldIs
<1>4. /\ Stacked' /\ stack' = [u \in Threads |-> stack'[u]] /\ Shrinks
      /\ stack'[t] = Front(stack[t])
      /\ \A u \in Threads : u # t => stack'[u] = stack[u]
  BY <1>1, <1>2, <1>3, PopStep DEF Shape
<1>5. Range(stack[t]) = Range(stack'[t]) \cup {Top(t)}  BY <1>4, TopIs DEF Shape
<1>6. \A u \in Threads : \A f \in Range(stack'[u]) : f \in Range(stack[u])
  BY <1>4, <1>5
<1>7. \A c \in Receivers : life'[c] = "freed" => life[c] = "freed" \/ ~Held(c)'
  BY <1>4 DEF Shrinks
<1>8. Dead'  BY <1>4, <1>6, <1>7, DeadStep DEF Shape
<1> QED  BY <1>4, <1>5, <1>8 DEF Returned

\* A call is made: all the other frames stay.
LEMMA CallStep ==
  ASSUME Shape, NEW t \in Threads, NEW f \in FramesOn(t)', stack' = Push(t, f),
         \A g \in Range(stack[t]) : Over(g, f), f \in AnyFrames \/ f.call # "walk",
         f.call # "destroy", f.call = "walk" => f.held = None,
         sent' \in Nat, sent <= sent', UNCHANGED <<owned, receiver_handlers_>>,
         \A c \in Receivers : life'[c] = "freed" => life[c] = "freed"
  PROVE  /\ Stacked' /\ stack' = [u \in Threads |-> stack'[u]] /\ Shrinks /\ Dead'
         /\ OnlyAdds(t, stack[t], f)
<1>1. stack' = Put(stack, t, Plus(stack[t], f))  BY DEF Push, Put, Plus
<1>2. \A c \in Receivers : c \in Range(receiver_handlers_)' => Held(c)  BY HeldIs
<1>3. \A c \in Receivers : f.call = "walk" => f.held # c  BY EventAssumption
<1>4. /\ Stacked' /\ stack' = [u \in Threads |-> stack'[u]] /\ Shrinks
      /\ OnlyAdds(t, stack[t], f)
  BY <1>1, <1>2, <1>3, PushStep DEF Shape
<1>5. \A u \in Threads : \A g \in Range(stack'[u]) : g.call = "destroy" => g \in Range(stack[u])
  BY <1>4 DEF OnlyAdds, Adds
<1>6. Dead'  BY <1>4, <1>5, DeadStep DEF Shape
<1> QED  BY <1>4, <1>6

\* An emission that is over gives the stack back to its caller.
LEMMA EmitReturnsShape ==
  ASSUME Shape, EmitReturns
  PROVE  Shape' /\ Shrinks /\ Returned(Main)
<1>1. /\ Emitting("dispatch") /\ stack' = Pop(Main)
      /\ UNCHANGED <<brokerVars, compVars, refVars, eventVars, crashed>>
  BY DEF EmitReturns
<1>2. Main \in Threads /\ stack[Main] # << >>  BY <1>1, EmitTop
<1>3. UNCHANGED <<life, owned, sent, receiver_handlers_>>
  BY <1>1 DEF compVars, eventVars, refVars
<1>4. /\ Stacked' /\ stack' = [u \in Threads |-> stack'[u]] /\ Shrinks /\ Dead' /\ Returned(Main)
  BY <1>1, <1>2, <1>3, ReturnStep
<1>5. Fields'  BY <1>1, <1>4 DEF Shape, Fields, brokerVars, otherVars, compVars, refVars, eventVars, Handovers
<1> QED  BY <1>4, <1>5 DEF Shape

\* A new emission is over all code that runs on its thread, and comes after it.
LEMMA NewEmission ==
  ASSUME Shape, NEW at \in {"fetched", "dispatch"}, sent' = sent + 1, sent < MaxEvents,
         UNCHANGED life
  PROVE  LET f == Emission(at, sent + 1) IN
         /\ f \in EmitFrames' /\ f \in FramesOn(Main)' /\ f.call = "emit" /\ f.at = at
         /\ f.event = sent + 1 /\ f.i = 1 /\ f.snap = << >> /\ f.begun = life
         /\ ~f.lost /\ ~f.stale
         /\ f.old <=> at = "dispatch" /\ receivers_ # version /\ Keeping(receivers_) # {}
         /\ sent \in Nat /\ sent' \in Nat /\ sent <= sent' /\ sent' \in 0..MaxEvents
<1> DEFINE f == Emission(at, sent + 1)
<1>1. /\ sent \in Nat /\ sent' \in Nat /\ sent <= sent' /\ sent' \in 0..MaxEvents /\ sent + 1 \in 1..sent'
  BY EventAssumption DEF Shape, Fields
<1>2. /\ f.call = "emit" /\ f.at = at /\ f.event = sent + 1 /\ f.i = 1 /\ f.snap = << >>
      /\ f.begun = life /\ ~f.lost /\ ~f.stale
      /\ f.old <=> at = "dispatch" /\ receivers_ # version /\ Keeping(receivers_) # {}
      /\ f.old \in BOOLEAN
  BY DEF Emission
<1>3. << >> \in Seq(Receivers) /\ life \in [Receivers -> Lives]
  BY EmptySeq DEF Shape, Fields
<1>4. f \in EmitFrames'  BY <1>1, <1>3 DEF Emission, EmitFrames, Fetches
<1> HIDE DEF f
<1>5. f \in FramesOn(Main)'  BY <1>4 DEF FramesOn
<1> QED  BY <1>1, <1>2, <1>4, <1>5 DEF f

\* An emission whose reference already holds the list keeps the shape.
LEMMA EmitCachedShape ==
  ASSUME Shape, EmitCached
  PROVE  /\ Shape' /\ Shrinks /\ OnlyAdds(Main, stack[Main], Emission("dispatch", sent + 1))
<1> DEFINE f == Emission("dispatch", sent + 1)
<1>1. /\ RunsCode(Main) /\ sent < MaxEvents /\ sent' = sent + 1 /\ stack' = Push(Main, f)
      /\ UNCHANGED <<brokerVars, compVars, refVars, queue, handed, crashed>>
  BY DEF EmitCached, MayEmit
<1>2. UNCHANGED <<life, owned, receiver_handlers_>> /\ Main \in Threads
  BY <1>1, EventAssumption DEF compVars, refVars
<1>3. /\ f \in FramesOn(Main)' /\ f.call = "emit" /\ f.at = "dispatch"
      /\ f.event = sent + 1
      /\ sent \in Nat /\ sent' \in Nat /\ sent <= sent' /\ sent' \in 0..MaxEvents
  BY <1>1, <1>2, NewEmission
<1> HIDE DEF f
<1>4. ASSUME NEW g \in Range(stack[Main]) PROVE Over(g, f)
  <2>1. IsCode(g) /\ g \in FramesOn(Main)  BY <1>1, <1>2, CodeBelow DEF Shape
  <2>2. g.call = "emit" => g.event \in 1..sent
    BY <2>1 DEF FramesOn, WalkFrames, CallFrames, EmitFrames, Forgets
  <2>3. g.call = "emit" => g.event < f.event  BY <1>3, <2>2
  <2> QED  BY <1>3, <2>1, <2>3 DEF Over, Fetches
<1>5. /\ Stacked' /\ stack' = [u \in Threads |-> stack'[u]] /\ Shrinks /\ Dead'
      /\ OnlyAdds(Main, stack[Main], f)
  BY <1>1, <1>2, <1>3, <1>4, CallStep
<1>6. handed' \in Seq(Handovers')
  BY <1>1, <1>3, FramesGrow, SeqMonotonic DEF Shape, Fields
<1>7. Fields'  BY <1>1, <1>3, <1>5, <1>6 DEF Shape, Fields, brokerVars, otherVars, compVars, refVars
<1> QED  BY <1>5, <1>7 DEF Shape, f

\* a frame after the cached vector has changed under it
Spoil(f) == IF f.call = "emit" THEN [f EXCEPT !.stale = TRUE] ELSE f

\* Spoiling changes nothing of a frame but its mark.
LEMMA SpoilIs ==
  ASSUME NEW f \in AnyFrames
  PROVE  /\ Spoil(f).call = f.call
         /\ f.call # "emit" => Spoil(f) = f
         /\ f.call = "emit" => /\ f \in EmitFrames /\ Spoil(f) \in EmitFrames
                               /\ Spoil(f) = [f EXCEPT !.stale = TRUE]
                               /\ Spoil(f).at = f.at /\ Spoil(f).event = f.event /\ Spoil(f).stale
<1>1. CASE f.call = "emit"
  <2>1. f \in EmitFrames  BY <1>1 DEF AnyFrames, WalkFrames, CallFrames, Forgets
  <2> QED  BY <1>1, <2>1 DEF Spoil, EmitFrames
<1>2. CASE f.call # "emit"  BY <1>2 DEF Spoil
<1> QED  BY <1>1, <1>2

\* What the stacks hold after an emission refilled the vector under an older one.
LEMMA SpoiledIs ==
  ASSUME NEW s \in Stacks(FramesOn(Main), Nest)
  PROVE  /\ Spoiled(s) \in Stacks(FramesOn(Main), Nest)
         /\ Range(Spoiled(s)) = {Spoil(f) : f \in Range(s)}
<1> DEFINE r == Spoiled(s)
<1>1. /\ s \in Seq(FramesOn(Main)) /\ Len(s) \in Nat /\ DOMAIN s = 1..Len(s)
      /\ \A x : x \in Range(s) <=> \E k \in 1..Len(s) : s[k] = x
  BY RangeIs DEF Stacks
<1>2. r = [k \in 1..Len(s) |-> Spoil(s[k])]  BY <1>1 DEF Spoiled, Spoil
<1>3. \A k \in 1..Len(s) : s[k] \in FramesOn(Main) /\ s[k] \in AnyFrames
  BY <1>1, ElementOfSeq, FramesAny
<1>4. ASSUME NEW k \in 1..Len(s) PROVE Spoil(s[k]) \in FramesOn(Main) /\ Spoil(s[k]) \in AnyFrames
  <2>1. Spoil(s[k]) = s[k] \/ Spoil(s[k]) \in EmitFrames  BY <1>3, SpoilIs
  <2> QED  BY <1>3, <2>1 DEF FramesOn, AnyFrames
<1> HIDE DEF r
<1>5. r \in [1..Len(s) -> FramesOn(Main)]  BY <1>2, <1>4
<1>6. r \in Seq(FramesOn(Main)) /\ Len(r) = Len(s)
  <2>1. r \in Seq(FramesOn(Main))  BY <1>1, <1>5, SeqDef
  <2>2. DOMAIN r = 1..Len(r) /\ DOMAIN r = 1..Len(s) /\ Len(r) \in Nat
    BY <1>5, <2>1, RangeIs
  <2>3. \A m, n \in Nat : 1..m = 1..n => m = n
    <3> SUFFICES ASSUME NEW m \in Nat, NEW n \in Nat, 1..m = 1..n PROVE m = n  OBVIOUS
    <3>1. (m = 0 \/ m \in 1..m) /\ (n = 0 \/ n \in 1..n)  OBVIOUS
    <3>2. (m = 0 \/ m \in 1..n) /\ (n = 0 \/ n \in 1..m)  BY <3>1
    <3> QED  BY <3>2
  <2>4. Len(r) = Len(s)  BY <1>1, <2>2, <2>3
  <2> QED  BY <2>1, <2>4
<1>7. ASSUME NEW i \in 1..Len(r), NEW j \in 1..Len(r), i < j PROVE <<r[i], r[j]>> \in Nest
  <2>1. PICK g, f : g = s[i] /\ f = s[j]  OBVIOUS
  <2>2. <<g, f>> \in Nest  BY <1>6, <1>7, <2>1 DEF Stacks
  <2>3. Over(g, f) /\ g \in AnyFrames /\ f \in AnyFrames  BY <2>2, NestIs
  <2>4. r[i] = Spoil(g) /\ r[j] = Spoil(f) /\ Spoil(g) \in AnyFrames /\ Spoil(f) \in AnyFrames
    BY <1>2, <1>4, <1>6, <2>1
  <2>5. /\ Spoil(g).call = g.call /\ Spoil(f).call = f.call
        /\ g.call # "emit" => Spoil(g) = g
        /\ f.call # "emit" => Spoil(f) = f
        /\ g.call = "emit" => Spoil(g).at = g.at /\ Spoil(g).event = g.event /\ Spoil(g).stale
        /\ f.call = "emit" => Spoil(f).at = f.at /\ Spoil(f).event = f.event
    BY <2>3, SpoilIs
  <2>6. IsCode(Spoil(g)) <=> IsCode(g)  BY <2>5 DEF IsCode
  <2>7. InBroker(Spoil(f)) <=> InBroker(f)  BY <2>5 DEF InBroker
  <2>8. Over(Spoil(g), Spoil(f))
    <3>1. \/ IsCode(Spoil(g)) /\ Spoil(f).call \notin {"task", "forget"}
          \/ /\ \/ Spoil(g).call \in {"walk", "destroy", "forget"}
                \/ Spoil(g).call = "emit" /\ Spoil(g).at = "clear"
             /\ InBroker(Spoil(f))
      BY <2>3, <2>5, <2>6, <2>7 DEF Over
    <3>2. Spoil(g).call = "emit" /\ Spoil(f).call = "emit" =>
              /\ Spoil(g).event < Spoil(f).event
              /\ Spoil(f).at \in Fetches => Spoil(g).stale
      BY <2>3, <2>5 DEF Over
    <3>3. Spoil(g).call = "walk" /\ Spoil(f).call = "walk" => ~Held(Spoil(f).of)
      BY <2>3, <2>5 DEF Over
    <3> QED  BY <3>1, <3>2, <3>3 DEF Over
  <2> QED  BY <2>4, <2>8, NestIs
<1>8. Range(r) = {Spoil(f) : f \in Range(s)}
  <2>1. \A x : x \in Range(r) <=> \E k \in 1..Len(r) : r[k] = x  BY <1>6, RangeIs
  <2>2. ASSUME NEW x PROVE x \in Range(r) <=> x \in {Spoil(f) : f \in Range(s)}
    BY <1>1, <1>2, <1>6, <2>1
  <2> QED  BY <2>2
<1> QED  BY <1>6, <1>7, <1>8 DEF Stacks, r

\* An emission that looks the list up first keeps the shape.
LEMMA EmitFetchShape ==
  ASSUME Shape, EmitFetch
  PROVE  /\ Shape' /\ Shrinks
         /\ Range(stack'[Main]) = {Spoil(f) : f \in Range(stack[Main])}
                                  \cup {Emission("fetched", sent + 1)}
         /\ \A u \in Threads : u # Main => stack'[u] = stack[u]
<1> DEFINE f == Emission("fetched", sent + 1)
           r == Spoiled(stack[Main])
<1>1. /\ RunsCode(Main) /\ sent < MaxEvents /\ sent' = sent + 1 /\ receivers_' = version
      /\ stack' = Put(stack, Main, Plus(r, f))
      /\ UNCHANGED <<brokerVars, compVars, receiver_handlers_, overlooked, queue, handed, crashed>>
  BY DEF EmitFetch, MayEmit, Put, Plus
<1>2. UNCHANGED <<life, owned, receiver_handlers_>> /\ Main \in Threads
  BY <1>1, EventAssumption DEF compVars
<1>3. /\ f \in FramesOn(Main)' /\ f.call = "emit" /\ f.at = "fetched"
      /\ f.event = sent + 1
      /\ sent \in Nat /\ sent' \in Nat /\ sent <= sent' /\ sent' \in 0..MaxEvents
  BY <1>1, <1>2, NewEmission
<1>4. /\ r \in Stacks(FramesOn(Main), Nest)
      /\ Range(r) = {Spoil(g) : g \in Range(stack[Main])}
  BY <1>2, SpoiledIs DEF Shape, Stacked
<1> HIDE DEF f, r
<1>5. r \in Seq(FramesOn(Main)')
  BY <1>2, <1>3, <1>4, FramesGrow, SeqMonotonic DEF Stacks
<1>6. stack' = [u \in Threads |-> IF u = Main THEN Plus(r, f) ELSE stack[u]]
  BY <1>1 DEF Shape, Fields, Put
<1>7. Range(stack'[Main]) = Range(r) \cup {f}
  BY <1>2, <1>3, <1>5, <1>6, AppendIs DEF Plus
<1>8. \A g \in Range(stack[Main]) : IsCode(g) /\ g \in FramesOn(Main) /\ g \in AnyFrames
  BY <1>1, <1>2, CodeBelow, FramesAny DEF Shape
<1>9. \A u \in Threads : \A g \in Range(stack'[u]) : InBroker(g) => g \in Range(stack[u])
  <2> SUFFICES ASSUME NEW u \in Threads, NEW g \in Range(stack'[u]), InBroker(g)
               PROVE  g \in Range(stack[u])
    OBVIOUS
  <2>1. CASE u # Main  BY <1>6, <2>1
  <2>2. CASE u = Main
    <3>1. PICK h \in Range(stack[Main]) : g = Spoil(h)
      BY <1>3, <1>4, <1>7, <2>2 DEF InBroker
    <3>2. h.call # "emit"  BY <1>8, <3>1, SpoilIs DEF InBroker
    <3> QED  BY <1>8, <2>2, <3>1, <3>2, SpoilIs
  <2> QED  BY <2>1, <2>2
<1>10. Shrinks
  <2>1. \A c \in Receivers : c \in Range(receiver_handlers_)' => Held(c)  BY <1>2, HeldIs
  <2> QED  BY <1>2, <1>9, <2>1, ShrinksIs DEF InBroker
<1>11. r \in Stacks(FramesOn(Main)', Nest')
  BY <1>2, <1>3, <1>4, <1>10, StacksKept
<1>12. ASSUME NEW g \in Range(r) PROVE <<g, f>> \in Nest'
  <2>1. PICK h \in Range(stack[Main]) : g = Spoil(h)  BY <1>4
  <2>2. IsCode(g) /\ (g.call = "emit" => g.event \in 1..sent /\ g.stale)
    <3>1. CASE h.call = "emit"
      BY <1>8, <2>1, <3>1, SpoilIs DEF IsCode, EmitFrames
    <3>2. CASE h.call # "emit"
      BY <1>8, <2>1, <3>2, SpoilIs
    <3> QED  BY <3>1, <3>2
  <2>3. g.call = "emit" => g.event < f.event  BY <1>3, <2>2
  <2>4. PICK x, y : x = g /\ y = f  OBVIOUS
  <2>5. /\ IsCode(x) /\ y.call = "emit"
        /\ x.call = "emit" => x.event < y.event /\ x.stale
    BY <1>3, <2>2, <2>3, <2>4
  <2>6. Over(x, y)'  BY <2>5 DEF Over, IsCode
  <2>7. x \in AnyFrames' /\ y \in AnyFrames'
    <3>1. g \in FramesOn(Main)'  BY <1>5, RangeIs
    <3> QED  BY <1>3, <2>4, <3>1, FramesAnyNext
  <2> QED  BY <2>4, <2>6, <2>7, NestNext
<1>13. Plus(r, f) \in Stacks(FramesOn(Main)', Nest')
  BY <1>3, <1>11, <1>12, StackPush
<1>14. Stacked' /\ stack' = [u \in Threads |-> stack'[u]]
  BY <1>1, <1>2, <1>3, <1>10, <1>13, PutStep DEF Shape
<1>15. Dead'  BY <1>2, <1>9, <1>10, <1>14, DeadStep DEF Shape, InBroker
<1>16. handed' \in Seq(Handovers')
  BY <1>1, <1>3, FramesGrow, SeqMonotonic DEF Shape, Fields
<1>17. Fields'
  BY <1>1, <1>3, <1>14, <1>16 DEF Shape, Fields, brokerVars, otherVars, compVars, refVars
<1> QED  BY <1>4, <1>6, <1>7, <1>10, <1>14, <1>15, <1>17 DEF Shape, f

\* A call of the application's components.
LEMMA CallIs ==
  ASSUME NEW c \in Receivers, NEW n \in {"publish", "task", "destroy"}
  PROVE  /\ Call(n, c) \in CallFrames /\ Call(n, c) \in AnyFrames
         /\ Call(n, c).call = n /\ Call(n, c).of = c
         /\ \A t : Call(n, c) \in FramesOn(t)'
<1>1. Call(n, c) \in CallFrames /\ CallFrames' = CallFrames  BY DEF Call, CallFrames
<1> QED  BY <1>1 DEF Call, AnyFrames, FramesOn

\* The call that is running.
LEMMA CallTop ==
  ASSUME Shape, NEW t \in Threads, NEW n \in {"publish", "task", "destroy"}, Calling(t, n)
  PROVE  /\ stack[t] # << >> /\ Top(t) \in CallFrames /\ Top(t) \in Range(stack[t])
         /\ Top(t).call = n /\ Top(t).of \in Receivers
<1>1. stack[t] # << >> /\ Top(t).call = n  BY DEF Calling, Top
<1>2. Top(t) \in FramesOn(t) /\ Top(t) \in Range(stack[t])  BY <1>1, TopIs DEF Shape
<1>3. Top(t) \in CallFrames  BY <1>1, <1>2 DEF FramesOn, WalkFrames, EmitFrames, Forgets
<1> QED  BY <1>1, <1>2, <1>3 DEF CallFrames

\* The disassociation that is running.
LEMMA WalkTop ==
  ASSUME Shape, NEW t \in Threads, Calling(t, "walk")
  PROVE  /\ stack[t] # << >> /\ Top(t) \in WalkFrames /\ Top(t) \in Range(stack[t])
         /\ Top(t).call = "walk" /\ Top(t).of \in Receivers
         /\ Top(t).rest \in Seq(Receivers) /\ Top(t).kept \in Seq(Receivers)
         /\ Top(t).held \in Receivers \cup {None}
<1>1. stack[t] # << >> /\ Top(t).call = "walk"  BY DEF Calling, Top
<1>2. Top(t) \in FramesOn(t) /\ Top(t) \in Range(stack[t])  BY <1>1, TopIs DEF Shape
<1>3. Top(t) \in WalkFrames  BY <1>1, <1>2 DEF FramesOn, CallFrames, EmitFrames, Forgets
<1> QED  BY <1>1, <1>2, <1>3 DEF WalkFrames

\* A component, or no component, but the mark for none is no component.
LEMMA NoneIs == None \notin Receivers /\ None \notin Nat
BY EventAssumption

\* Taking a task off the queue.
LEMMA RunTaskShape ==
  ASSUME Shape, NEW t \in Threads, RunTask(t)
  PROVE  /\ Shape' /\ Shrinks
         /\ \/ UNCHANGED stack
            \/ \E c \in Receivers : OnlyAdds(t, stack[t], Call("task", c))
<1> DEFINE c == Head(queue[t])
           f == Call("task", c)
<1>1. /\ stack[t] = << >> /\ queue[t] # << >>
      /\ queue' = [queue EXCEPT ![t] = Tail(queue[t])]
      /\ UNCHANGED <<brokerVars, compVars, refVars, sent, handed>>
  BY DEF RunTask
<1>2. c \in Receivers /\ queue' \in [Threads -> Seq(Receivers)]
  <2>1. queue \in [Threads -> Seq(Receivers)] /\ queue[t] \in Seq(Receivers)
    BY DEF Shape, Fields
  <2>2. Head(queue[t]) \in Receivers /\ Tail(queue[t]) \in Seq(Receivers)
    BY <1>1, <2>1, TailIs
  <2> QED  BY <1>1, <2>1, <2>2
<1>3. /\ f \in AnyFrames /\ f.call = "task" /\ f \in FramesOn(t)'  BY <1>2, CallIs
<1>4. \/ UNCHANGED stack /\ crashed' = TRUE
      \/ stack' = Push(t, f) /\ UNCHANGED crashed
  BY DEF RunTask
<1> HIDE DEF f
<1>5. /\ UNCHANGED <<life, owned, sent, receiver_handlers_>>
      /\ \A d \in Receivers : d \in Range(receiver_handlers_)' => Held(d)
      /\ sent' \in Nat /\ sent <= sent'
  BY <1>1, HeldIs, EventAssumption DEF compVars, refVars, Shape, Fields
<1>6. /\ Stacked' /\ stack' = [u \in Threads |-> stack'[u]] /\ Shrinks /\ Dead'
      /\ UNCHANGED stack \/ OnlyAdds(t, stack[t], f)
  <2>1. CASE UNCHANGED stack
    <3>1. Stacked' /\ stack' = [u \in Threads |-> stack'[u]] /\ Shrinks
      BY <1>5, <2>1, StackStays DEF Shape
    <3>2. Dead'  BY <1>5, <2>1, <3>1, DeadStep DEF Shape
    <3> QED  BY <2>1, <3>1, <3>2
  <2>2. CASE stack' = Push(t, f)
    <3>1. \A g \in Range(stack[t]) : Over(g, f)  BY <1>1, RangeEmpty
    <3> QED  BY <1>3, <1>5, <2>2, <3>1, CallStep
  <2> QED  BY <1>4, <2>1, <2>2
<1>7. Fields'
  BY <1>1, <1>2, <1>4, <1>6 DEF Shape, Fields, brokerVars, otherVars, compVars, refVars, Handovers
<1> QED  BY <1>2, <1>6, <1>7 DEF Shape, f

\* The handler of a task returns.
LEMMA TaskReturnsShape ==
  ASSUME Shape, NEW t \in Threads, TaskReturns(t)
  PROVE  Shape' /\ Shrinks /\ Returned(t) /\ Top(t).call = "task"
<1>1. /\ Calling(t, "task") /\ stack' = Pop(t)
      /\ UNCHANGED <<brokerVars, compVars, refVars, eventVars, crashed>>
  BY DEF TaskReturns
<1>2. stack[t] # << >> /\ Top(t).call = "task"  BY <1>1, CallTop
<1>3. UNCHANGED <<life, owned, sent, receiver_handlers_>>
  BY <1>1 DEF compVars, eventVars, refVars
<1>4. /\ Stacked' /\ stack' = [u \in Threads |-> stack'[u]] /\ Shrinks /\ Dead' /\ Returned(t)
  BY <1>1, <1>2, <1>3, ReturnStep
<1>5. Fields'  BY <1>1, <1>4 DEF Shape, Fields, brokerVars, otherVars, compVars, refVars, eventVars, Handovers
<1> QED  BY <1>2, <1>4, <1>5 DEF Shape

\* The thread of a component.
LEMMA ThreadIs == ASSUME NEW c \in Receivers PROVE Thread[c] \in Threads
BY EventAssumption

\* publish() puts the component on the list.
LEMMA AssociateShape ==
  ASSUME Shape, NEW c \in Receivers, Associate(c)
  PROVE  Shape' /\ Shrinks /\ OnlyAdds(Thread[c], stack[Thread[c]], Call("publish", c))
<1> DEFINE t == Thread[c]
           f == Call("publish", c)
<1>1. /\ RunsCode(t) /\ list' = Append(list, c) /\ version' = version + 1
      /\ life' = [life EXCEPT ![c] = "associated"] /\ stack' = Push(t, f)
      /\ UNCHANGED <<owned, emitting, otherVars, refVars, eventVars, crashed>>
  BY DEF Associate
<1>2. t \in Threads  BY ThreadIs
<1> HIDE DEF t
<1>3. /\ f \in AnyFrames /\ f.call = "publish" /\ f \in FramesOn(t)'  BY CallIs
<1> HIDE DEF f
<1>4. /\ UNCHANGED <<owned, sent, receiver_handlers_>> /\ sent' \in Nat /\ sent <= sent'
  BY <1>1, EventAssumption DEF refVars, eventVars, Shape, Fields
<1>5. \A g \in Range(stack[t]) : Over(g, f)
  BY <1>1, <1>2, <1>3, CodeBelow DEF Shape, Over, IsCode
<1>6. \A d \in Receivers : life'[d] = "freed" => life[d] = "freed"
  BY <1>1 DEF Shape, Fields
<1>7. /\ Stacked' /\ stack' = [u \in Threads |-> stack'[u]] /\ Shrinks /\ Dead'
      /\ OnlyAdds(t, stack[t], f)
  BY <1>1, <1>2, <1>3, <1>4, <1>5, <1>6, CallStep
<1>8. list' \in Seq(Receivers) /\ version' \in Nat /\ life' \in [Receivers -> Lives]
  <2>1. list' \in Seq(Receivers)  BY <1>1, AppendIs DEF Shape, Fields
  <2>2. version' \in Nat  BY <1>1 DEF Shape, Fields
  <2> QED  BY <1>1, <2>1, <2>2 DEF Shape, Fields, Lives
<1>9. Fields'  BY <1>1, <1>7, <1>8 DEF Shape, Fields, otherVars, refVars, eventVars, Handovers
<1> QED  BY <1>7, <1>9 DEF Shape, t, f

\* The handler is stored.
LEMMA StoreHandlerShape ==
  ASSUME Shape, NEW t \in Threads, StoreHandler(t)
  PROVE  Shape' /\ Shrinks /\ UNCHANGED stack
<1>1. /\ Calling(t, "publish") /\ life' = [life EXCEPT ![Top(t).of] = "subscribed"]
      /\ UNCHANGED <<brokerVars, owned, emitting, refVars, eventVars, stack, crashed>>
  BY DEF StoreHandler
<1>2. /\ UNCHANGED <<owned, sent, receiver_handlers_>> /\ sent' \in Nat /\ sent <= sent'
      /\ \A c \in Receivers : c \in Range(receiver_handlers_)' => Held(c)
  BY <1>1, HeldIs, EventAssumption DEF refVars, eventVars, Shape, Fields
<1>3. Stacked' /\ stack' = [u \in Threads |-> stack'[u]] /\ Shrinks
  BY <1>1, <1>2, StackStays DEF Shape
<1>4. /\ \A c \in Receivers : life'[c] = "freed" => life[c] = "freed"
      /\ life' \in [Receivers -> Lives]
  BY <1>1 DEF Shape, Fields, Lives
<1>5. Dead'  BY <1>1, <1>3, <1>4, DeadStep DEF Shape
<1>6. Fields'  BY <1>1, <1>3, <1>4 DEF Shape, Fields, brokerVars, otherVars, refVars, eventVars, Handovers
<1> QED  BY <1>1, <1>3, <1>5, <1>6 DEF Shape

\* publish() returns.
LEMMA PublishedShape ==
  ASSUME Shape, NEW t \in Threads, Published(t)
  PROVE  Shape' /\ Shrinks /\ Returned(t) /\ Top(t).call = "publish" /\ Top(t).of \in Receivers
<1>1. /\ Calling(t, "publish") /\ life' = [life EXCEPT ![Top(t).of] = "published"]
      /\ stack' = Pop(t)
      /\ UNCHANGED <<brokerVars, owned, emitting, refVars, eventVars, crashed>>
  BY DEF Published
<1>2. stack[t] # << >> /\ Top(t).call = "publish" /\ Top(t).of \in Receivers  BY <1>1, CallTop
<1>3. UNCHANGED <<owned, sent, receiver_handlers_>>
  BY <1>1 DEF eventVars, refVars
<1>4. /\ \A c \in Receivers : life'[c] = "freed" => life[c] = "freed"
      /\ life' \in [Receivers -> Lives]
  BY <1>1 DEF Shape, Fields, Lives
<1>5. /\ Stacked' /\ stack' = [u \in Threads |-> stack'[u]] /\ Shrinks /\ Dead' /\ Returned(t)
  BY <1>1, <1>2, <1>3, <1>4, ReturnStep
<1>6. Fields'  BY <1>1, <1>4, <1>5 DEF Shape, Fields, brokerVars, otherVars, refVars, eventVars, Handovers
<1> QED  BY <1>2, <1>5, <1>6 DEF Shape

\* What a disassociation starts with.
LEMMA WalkIs ==
  ASSUME Shape, NEW c \in Receivers
  PROVE  /\ Walk(c) \in WalkFrames /\ Walk(c) \in AnyFrames /\ Walk(c).call = "walk"
         /\ Walk(c).of = c /\ Walk(c).held = None /\ Walk(c).rest = list /\ Walk(c).kept = << >>
         /\ \A t : Walk(c) \in FramesOn(t)'
<1>1. Walk(c) \in WalkFrames /\ WalkFrames' = WalkFrames
  BY EmptySeq DEF Walk, WalkFrames, Shape, Fields
<1> QED  BY <1>1 DEF Walk, AnyFrames, FramesOn

\* unpublish_dependencies() called by the application.
LEMMA UnpublishShape ==
  ASSUME Shape, NEW c \in Receivers, Unpublish(c)
  PROVE  Shape' /\ Shrinks /\ OnlyAdds(Thread[c], stack[Thread[c]], Walk(c))
<1> DEFINE t == Thread[c]
           f == Walk(c)
<1>1. /\ RunsCode(t) /\ stack' = Push(t, f)
      /\ UNCHANGED <<brokerVars, compVars, refVars, eventVars, crashed>>
  BY DEF Unpublish
<1>2. t \in Threads  BY ThreadIs
<1> HIDE DEF t
<1>3. f \in AnyFrames /\ f.call = "walk" /\ f.held = None /\ f \in FramesOn(t)'  BY WalkIs
<1> HIDE DEF f
<1>4. /\ UNCHANGED <<life, owned, sent, receiver_handlers_>> /\ sent' \in Nat /\ sent <= sent'
  BY <1>1, EventAssumption DEF compVars, refVars, eventVars, Shape, Fields
<1>5. \A g \in Range(stack[t]) : Over(g, f)
  BY <1>1, <1>2, <1>3, CodeBelow DEF Shape, Over, IsCode
<1>6. /\ Stacked' /\ stack' = [u \in Threads |-> stack'[u]] /\ Shrinks /\ Dead'
      /\ OnlyAdds(t, stack[t], f)
  BY <1>1, <1>2, <1>3, <1>4, <1>5, CallStep
<1>7. Fields'  BY <1>1, <1>6 DEF Shape, Fields, brokerVars, otherVars, compVars, refVars, eventVars, Handovers
<1> QED  BY <1>6, <1>7 DEF Shape, t, f

\* ... and by the destructor: nobody holds the component then.
LEMMA DestructorUnpublishShape ==
  ASSUME Shape, NEW t \in Threads, DestructorUnpublish(t)
  PROVE  /\ Shape' /\ Shrinks /\ Top(t).of \in Receivers /\ ~Held(Top(t).of)
         /\ OnlyAdds(t, stack[t], Walk(Top(t).of))
<1> DEFINE f == Walk(Top(t).of)
<1>1. /\ Calling(t, "destroy") /\ stack' = Push(t, f)
      /\ UNCHANGED <<brokerVars, compVars, refVars, eventVars, crashed>>
  BY DEF DestructorUnpublish
<1>2. /\ stack[t] # << >> /\ Top(t).call = "destroy" /\ Top(t).of \in Receivers
      /\ Top(t) \in Range(stack[t])
  BY <1>1, CallTop
<1>3. ~Held(Top(t).of)  BY <1>2 DEF Shape, Dead
<1>4. /\ f \in AnyFrames /\ f.call = "walk" /\ f.held = None /\ f \in FramesOn(t)' /\ f.of = Top(t).of
  BY <1>2, WalkIs
<1> HIDE DEF f
<1>5. /\ UNCHANGED <<life, owned, sent, receiver_handlers_>> /\ sent' \in Nat /\ sent <= sent'
  BY <1>1, EventAssumption DEF compVars, refVars, eventVars, Shape, Fields
<1>6. \A g \in Range(stack[t]) : Over(g, f)
  <2>1. /\ \A g \in Range(Front(stack[t])) : Over(g, Top(t))
        /\ Range(stack[t]) = Range(Front(stack[t])) \cup {Top(t)}
    BY <1>2, TopIs DEF Shape
  <2> QED  BY <1>2, <1>3, <1>4, <2>1 DEF Over, InBroker
<1>7. /\ Stacked' /\ stack' = [u \in Threads |-> stack'[u]] /\ Shrinks /\ Dead'
      /\ OnlyAdds(t, stack[t], f)
  BY <1>1, <1>4, <1>5, <1>6, CallStep
<1>8. Fields'  BY <1>1, <1>7 DEF Shape, Fields, brokerVars, otherVars, compVars, refVars, eventVars, Handovers
<1> QED  BY <1>2, <1>3, <1>7, <1>8 DEF Shape, f

\* A disassociation goes on.
LEMMA SetWalk ==
  ASSUME Shape, NEW t \in Threads, Calling(t, "walk"), NEW f \in WalkFrames, f.of = Top(t).of,
         \A c \in Receivers : f.held = c => Held(c), stack' = SetTop(t, f),
         UNCHANGED <<life, owned, sent, receiver_handlers_>>
  PROVE  /\ Stacked' /\ stack' = [u \in Threads |-> stack'[u]] /\ Shrinks /\ Dead'
         /\ OnlyAdds(t, Front(stack[t]), f)
<1>1. stack[t] # << >> /\ Top(t).call = "walk" /\ f.call = "walk"
  BY WalkTop DEF WalkFrames
<1>2. f \in FramesOn(t)  BY DEF FramesOn
<1>3. /\ \A g \in Range(Front(stack[t])) : Over(g, Top(t))
      /\ Range(stack[t]) = Range(Front(stack[t])) \cup {Top(t)}
  BY <1>1, TopIs DEF Shape
<1>4. \A g \in Range(Front(stack[t])) : Over(g, f)  BY <1>1, <1>3 DEF Over, InBroker
<1>5. sent' \in Nat /\ sent <= sent'  BY EventAssumption DEF Shape, Fields
<1>6. stack' = Put(stack, t, Instead(stack[t], f))  BY DEF SetTop, Put, Instead
<1>7. \A c \in Receivers : c \in Range(receiver_handlers_)' => Held(c)  BY HeldIs
<1>8. /\ Stacked' /\ stack' = [u \in Threads |-> stack'[u]] /\ Shrinks
      /\ OnlyAdds(t, Front(stack[t]), f)
  BY <1>1, <1>2, <1>4, <1>5, <1>6, <1>7, InsteadStep DEF Shape
<1>9. \A u \in Threads : \A g \in Range(stack'[u]) : g.call = "destroy" => g \in Range(stack[u])
  BY <1>1, <1>3, <1>8 DEF OnlyAdds, Adds
<1>10. \A c \in Receivers : life'[c] = "freed" => life[c] = "freed"  OBVIOUS
<1>11. Dead'  BY <1>8, <1>9, <1>10, DeadStep DEF Shape
<1> QED  BY <1>8, <1>11

\* disassociate() gets to an entry: it holds the component for a moment, or skips it.
LEMMA WalkLockShape ==
  ASSUME Shape, NEW t \in Threads, WalkLock(t)
  PROVE  /\ Shape' /\ Shrinks /\ Calling(t, "walk")
         /\ Top(t).rest # << >> /\ Top(t).held = None /\ Head(Top(t).rest) \in Receivers
         /\ \E f \in WalkFrames : /\ OnlyAdds(t, Front(stack[t]), f)
               /\ f = IF Held(Head(Top(t).rest)) THEN [Top(t) EXCEPT !.held = Head(Top(t).rest)]
                      ELSE [Top(t) EXCEPT !.rest = Tail(Top(t).rest)]
<1> DEFINE c == Head(Top(t).rest)
           f == IF Held(c) THEN [Top(t) EXCEPT !.held = c] ELSE [Top(t) EXCEPT !.rest = Tail(Top(t).rest)]
<1>1. /\ Calling(t, "walk") /\ Top(t).held = None /\ Top(t).rest # << >> /\ stack' = SetTop(t, f)
      /\ UNCHANGED <<brokerVars, compVars, refVars, eventVars, crashed>>
  BY DEF WalkLock
<1>2. Top(t) \in WalkFrames /\ Top(t).rest \in Seq(Receivers)  BY <1>1, WalkTop
<1>3. /\ c \in Receivers /\ Tail(Top(t).rest) \in Seq(Receivers)
      /\ c = Head(Top(t).rest)
  BY <1>1, <1>2, TailIs
<1> HIDE DEF c
<1>4. f \in WalkFrames /\ f.of = Top(t).of
  <2>1. CASE Held(c)  BY <1>1, <1>2, <1>3, <2>1 DEF WalkFrames
  <2>2. CASE ~Held(c)  BY <1>1, <1>2, <1>3, <2>2 DEF WalkFrames
  <2> QED  BY <2>1, <2>2
<1>5. \A d \in Receivers : f.held = d => Held(d)  BY <1>1, <1>2, NoneIs DEF WalkFrames
<1> HIDE DEF f
<1>6. UNCHANGED <<life, owned, sent, receiver_handlers_>>
  BY <1>1 DEF compVars, eventVars, refVars
<1>7. /\ Stacked' /\ stack' = [u \in Threads |-> stack'[u]] /\ Shrinks /\ Dead'
      /\ OnlyAdds(t, Front(stack[t]), f)
  BY <1>1, <1>4, <1>5, <1>6, SetWalk
<1>8. Fields'  BY <1>1, <1>7 DEF Shape, Fields, brokerVars, otherVars, compVars, refVars, eventVars, Handovers
<1> QED  BY <1>1, <1>3, <1>4, <1>7, <1>8 DEF Shape, c, f

\* Frame f is there instead of the running one of t; maybe destructors were called.
Replaces(t, f) == \A u \in Threads : \A g : g.call # "destroy" =>
    (g \in Range(stack'[u]) <=>
         IF u = t THEN g \in Range(Front(stack[t])) \/ g = f ELSE g \in Range(stack[u]))

\* A turn of the loop in disassociate() ends.
LEMMA WalkReleaseShape ==
  ASSUME Shape, NEW t \in Threads, WalkRelease(t)
  PROVE  /\ Shape' /\ Shrinks /\ Calling(t, "walk") /\ Top(t).held \in Receivers
         /\ \E f \in WalkFrames : /\ Replaces(t, f)
               /\ f = [Top(t) EXCEPT !.rest = Tail(Top(t).rest), !.held = None,
                         !.kept = IF Top(t).held = Top(t).of THEN Top(t).kept
                                  ELSE Append(Top(t).kept, Top(t).held)]
<1>0. PICK c, f, d :
         /\ c = Top(t).held /\ d = Call("destroy", c)
         /\ f = [Top(t) EXCEPT !.rest = Tail(Top(t).rest), !.held = None,
                         !.kept = IF Top(t).held = Top(t).of THEN Top(t).kept
                                  ELSE Append(Top(t).kept, Top(t).held)]
  OBVIOUS
<1>1. /\ Calling(t, "walk") /\ c # None
      /\ Release(t, c, owned, receiver_handlers_, SetTop(t, f))
      /\ UNCHANGED <<brokerVars, compVars, refVars, eventVars, crashed>>
  BY <1>0 DEF WalkRelease
<1>2. /\ stack[t] # << >> /\ Top(t) \in WalkFrames /\ Top(t).call = "walk" /\ Top(t).of \in Receivers
      /\ c \in Receivers /\ Top(t).rest \in Seq(Receivers) /\ Top(t).kept \in Seq(Receivers)
      /\ Top(t) \in Range(stack[t])
  BY <1>0, <1>1, WalkTop
<1>3. UNCHANGED <<life, owned, sent, receiver_handlers_>>
  BY <1>1 DEF compVars, eventVars, refVars
<1>4. f \in WalkFrames /\ f.of = Top(t).of /\ f.held = None /\ f.call = "walk"
  <2>1. Tail(Top(t).rest) \in Seq(Receivers)
    <3>1. Top(t).rest # << >>  BY <1>0, <1>1, <1>2 DEF WalkFrames
    <3> QED  BY <1>2, <3>1, TailIs
  <2>2. Append(Top(t).kept, c) \in Seq(Receivers)  BY <1>2, AppendIs
  <2> QED  BY <1>0, <1>2, <2>1, <2>2 DEF WalkFrames
<1>5. d \in AnyFrames /\ d.call = "destroy" /\ d.of = c /\ d \in FramesOn(t)'
  BY <1>0, <1>2, CallIs
<1>6. CASE HeldBy(owned, receiver_handlers_, SetTop(t, f), c)
  <2>1. stack' = SetTop(t, f)  BY <1>1, <1>6 DEF Release
  <2>2. \A e \in Receivers : f.held = e => Held(e)  BY <1>4, NoneIs
  <2>3. /\ Stacked' /\ stack' = [u \in Threads |-> stack'[u]] /\ Shrinks /\ Dead'
        /\ OnlyAdds(t, Front(stack[t]), f)
    BY <1>1, <1>3, <1>4, <2>1, <2>2, SetWalk
  <2>4. Fields'  BY <1>1, <2>3 DEF Shape, Fields, brokerVars, otherVars, compVars, refVars, eventVars, Handovers
  <2>5. Replaces(t, f)  BY <2>3 DEF Replaces, OnlyAdds, Adds
  <2> QED  BY <1>0, <1>1, <1>2, <1>4, <2>3, <2>4, <2>5 DEF Shape
<1>7. CASE ~HeldBy(owned, receiver_handlers_, SetTop(t, f), c)
  <2> DEFINE r == Instead(stack[t], f)
  <2>1. stack' = [SetTop(t, f) EXCEPT ![t] = Append(@, d)]
    BY <1>0, <1>1, <1>7 DEF Release
  <2>2. SetTop(t, f) = [u \in Threads |-> IF u = t THEN r ELSE stack[u]]
    BY DEF SetTop, Shape, Fields, Instead
  <2>3. stack' = Put(stack, t, Plus(r, d))
    BY <2>1, <2>2 DEF Put, Plus, Shape, Fields
  <2>4. stack[t] \in Stacks(FramesOn(t), Nest) /\ sent \in Nat /\ sent' \in Nat /\ sent <= sent'
    BY <1>3, EventAssumption DEF Shape, Stacked, Fields
  <2>5. /\ \A g \in Range(Front(stack[t])) : Over(g, Top(t)) /\ g \in FramesOn(t)
        /\ Range(stack[t]) = Range(Front(stack[t])) \cup {Top(t)}
    BY <1>2, TopIs DEF Shape
  <2>6. \A g \in Range(Front(stack[t])) : Over(g, f) /\ Over(g, d)
    BY <1>2, <1>4, <1>5, <2>5 DEF Over, InBroker
  <2>7. f \in FramesOn(t) /\ f \in AnyFrames
    BY <1>4 DEF FramesOn, AnyFrames
  <2>8. \A g \in Range(Front(stack[t])) : <<g, f>> \in Nest
    BY <2>5, <2>6, <2>7, NestIs, FramesAny
  <2>9. r \in Stacks(FramesOn(t), Nest) /\ Range(r) = Range(Front(stack[t])) \cup {f}
    BY <1>2, <2>4, <2>7, <2>8, StackInstead
  <2> HIDE DEF r
  <2>10. r \in Seq(FramesOn(t)')
    BY <2>4, <2>9, FramesGrow, SeqMonotonic DEF Stacks
  <2>11. stack' = [u \in Threads |-> IF u = t THEN Plus(r, d) ELSE stack[u]]
    BY <2>3 DEF Shape, Fields, Put
  <2>12. Range(stack'[t]) = Range(Front(stack[t])) \cup {f, d}
    BY <1>5, <2>9, <2>10, <2>11, AppendIs DEF Plus
  <2>13. Shrinks
    <3>1. \A e \in Receivers : e \in Range(receiver_handlers_)' => Held(e)  BY <1>3, HeldIs
    <3>2. ASSUME NEW u \in Threads, NEW g \in Range(stack'[u]), NEW e \in Receivers,
                 g.call = "walk", g.held = e
          PROVE  g \in Range(stack[u])
      BY <1>4, <1>5, <2>5, <2>11, <2>12, <3>2, NoneIs
    <3> QED  BY <1>3, <3>1, <3>2, ShrinksIs
  <2>14. r \in Stacks(FramesOn(t)', Nest')  BY <2>4, <2>9, <2>13, StacksKept
  <2>15. \A g \in Range(r) : <<g, d>> \in Nest'
    <3> SUFFICES ASSUME NEW g \in Range(r) PROVE <<g, d>> \in Nest'  OBVIOUS
    <3>1. Over(f, d)  BY <1>4, <1>5 DEF Over, InBroker
    <3>2. Over(g, d) /\ g \in FramesOn(t)  BY <2>5, <2>6, <2>7, <2>9, <3>1
    <3>3. Over(g, d)'  BY <1>5, <2>13, <3>2, OverKept
    <3>4. g \in AnyFrames' /\ d \in AnyFrames'  BY <1>5, <2>4, <3>2, FramesAny, FramesGrow
    <3> QED  BY <3>3, <3>4, NestNext
  <2>16. Plus(r, d) \in Stacks(FramesOn(t)', Nest')
    BY <1>5, <2>14, <2>15, StackPush
  <2>17. Stacked' /\ stack' = [u \in Threads |-> stack'[u]]
    BY <2>3, <2>4, <2>13, <2>16, PutStep DEF Shape
  <2>18. ~Held(c)'
    <3>1. \A u \in Threads : \A g \in Range(stack'[u]) :
              g.call = "walk" => g \in Range(SetTop(t, f)[u])
      BY <1>5, <2>2, <2>9, <2>11, <2>12
    <3> QED  BY <1>3, <1>7, <3>1 DEF Held, HeldBy
  <2>19. Dead'
    <3>1. \A u \in Threads : \A g \in Range(stack'[u]) :
              g.call = "destroy" => g \in Range(stack[u]) \/ ~Held(g.of)'
      BY <1>4, <1>5, <2>5, <2>11, <2>12, <2>18
    <3>2. \A e \in Receivers : life'[e] = "freed" => life[e] = "freed"  BY <1>3
    <3> QED  BY <2>13, <2>17, <3>1, <3>2, DeadStep DEF Shape
  <2>20. Fields'  BY <1>1, <2>17 DEF Shape, Fields, brokerVars, otherVars, compVars, refVars, eventVars, Handovers
  <2>21. Replaces(t, f)  BY <1>5, <2>11, <2>12 DEF Replaces
  <2> QED  BY <1>0, <1>1, <1>2, <1>4, <2>13, <2>17, <2>19, <2>20, <2>21 DEF Shape
<1> QED  BY <1>6, <1>7

\* The copy becomes the list.
LEMMA WalkEndShape ==
  ASSUME Shape, NEW t \in Threads, WalkEnd(t)
  PROVE  Shape' /\ Shrinks /\ Returned(t) /\ Calling(t, "walk")
<1>1. /\ Calling(t, "walk") /\ list' = Top(t).kept /\ version' = version + 1
      /\ life' = [life EXCEPT ![Top(t).of] = "unpublished"] /\ stack' = Pop(t)
      /\ UNCHANGED <<owned, emitting, otherVars, refVars, eventVars, crashed>>
  BY DEF WalkEnd
<1>2. stack[t] # << >> /\ Top(t).kept \in Seq(Receivers)  BY <1>1, WalkTop
<1>3. UNCHANGED <<owned, sent, receiver_handlers_>>
  BY <1>1 DEF eventVars, refVars
<1>4. /\ \A c \in Receivers : life'[c] = "freed" => life[c] = "freed"
      /\ life' \in [Receivers -> Lives]
  BY <1>1 DEF Shape, Fields, Lives
<1>5. /\ Stacked' /\ stack' = [u \in Threads |-> stack'[u]] /\ Shrinks /\ Dead' /\ Returned(t)
  BY <1>1, <1>2, <1>3, <1>4, ReturnStep
<1>7. version' \in Nat  BY <1>1 DEF Shape, Fields
<1>6. Fields'  BY <1>1, <1>2, <1>4, <1>5, <1>7 DEF Shape, Fields, otherVars, refVars, eventVars, Handovers
<1> QED  BY <1>1, <1>5, <1>6 DEF Shape

\* The destructor ends.
LEMMA FreeShape ==
  ASSUME Shape, NEW t \in Threads, Free(t)
  PROVE  Shape' /\ Shrinks /\ Returned(t) /\ Calling(t, "destroy") /\ Top(t).of \in Receivers
<1>1. /\ Calling(t, "destroy") /\ life' = [life EXCEPT ![Top(t).of] = "freed"]
      /\ crashed' = Inside(Top(t).of) /\ stack' = Pop(t)
      /\ UNCHANGED <<brokerVars, owned, emitting, refVars, eventVars>>
  BY DEF Free
<1>2. /\ stack[t] # << >> /\ Top(t).call = "destroy" /\ Top(t).of \in Receivers
      /\ Top(t) \in Range(stack[t])
  BY <1>1, CallTop
<1>3. UNCHANGED <<owned, sent, receiver_handlers_>>
  BY <1>1 DEF eventVars, refVars
<1>4. ~Held(Top(t).of)  BY <1>2 DEF Shape, Dead
<1>5. /\ \A c \in Receivers : life'[c] = "freed" => life[c] = "freed" \/ ~Held(c)
      /\ life' \in [Receivers -> Lives]
  BY <1>1, <1>4 DEF Shape, Fields, Lives
<1>6. crashed' \in BOOLEAN  BY <1>1 DEF Inside
<1>7. /\ Stacked' /\ stack' = [u \in Threads |-> stack'[u]] /\ Shrinks /\ Dead' /\ Returned(t)
  BY <1>1, <1>2, <1>3, <1>5, ReturnStep
<1>8. Fields'  BY <1>1, <1>5, <1>6, <1>7 DEF Shape, Fields, brokerVars, otherVars, refVars, eventVars, Handovers
<1> QED  BY <1>1, <1>2, <1>7, <1>8 DEF Shape

\* The application drops a component.
LEMMA DropOwnerShape ==
  ASSUME Shape, NEW c \in Receivers, DropOwner(c)
  PROVE  /\ Shape' /\ Shrinks /\ Same({"emit", "walk", "task", "publish", "forget"})
<1>1. /\ stack[Thread[c]] = << >> /\ owned' = owned \ {c}
      /\ Release(Thread[c], c, owned \ {c}, receiver_handlers_, stack)
      /\ UNCHANGED <<life, emitting, brokerVars, refVars, eventVars, crashed>>
  BY DEF DropOwner
<1>2. /\ Thread[c] \in Threads /\ UNCHANGED <<life, sent, receiver_handlers_>>
  BY <1>1, ThreadIs DEF refVars, eventVars
<1>3. /\ owned' \subseteq owned /\ Release(Thread[c], c, owned', receiver_handlers_', stack)
      /\ \A d \in Receivers : d \in Range(receiver_handlers_)' => Held(d)
  BY <1>1, <1>2, HeldIs
<1>4. \A g \in Range(stack[Thread[c]]) : Over(g, Call("destroy", c))
  BY <1>1, RangeEmpty
<1>5. /\ Stacked' /\ stack' = [u \in Threads |-> stack'[u]] /\ Shrinks /\ Dead'
      /\ Same({"emit", "walk", "task", "publish", "forget"})
  BY <1>2, <1>3, <1>4, ReleaseStep
<1>6. Fields'  BY <1>1, <1>5 DEF Shape, Fields, brokerVars, otherVars, refVars, eventVars, Handovers
<1> QED  BY <1>5, <1>6 DEF Shape

\* The emitter is dropped.
LEMMA DropEmitterShape ==
  ASSUME Shape, DropEmitter
  PROVE  Shape' /\ Shrinks /\ OnlyAdds(Main, stack[Main], Call("forget", None))
<1> DEFINE f == Call("forget", None)
<1>1. /\ stack[Main] = << >> /\ emitting' = FALSE /\ stack' = Push(Main, f)
      /\ UNCHANGED <<brokerVars, life, owned, refVars, eventVars, crashed>>
  BY DEF DropEmitter
<1>2. /\ UNCHANGED <<life, owned, sent, receiver_handlers_>> /\ Main \in Threads
      /\ sent' \in Nat /\ sent <= sent'
  BY <1>1, EventAssumption DEF eventVars, refVars, Shape, Fields
<1>3. f \in FramesOn(Main)' /\ f.call = "forget" /\ f \in AnyFrames
  BY DEF FramesOn, Forgets, Call, AnyFrames
<1> HIDE DEF f
<1>4. \A g \in Range(stack[Main]) : Over(g, f)  BY <1>1, RangeEmpty
<1>5. /\ Stacked' /\ stack' = [u \in Threads |-> stack'[u]] /\ Shrinks /\ Dead'
      /\ OnlyAdds(Main, stack[Main], f)
  BY <1>1, <1>2, <1>3, <1>4, CallStep
<1>6. Fields'  BY <1>1, <1>5 DEF Shape, Fields, brokerVars, otherVars, refVars, eventVars, Handovers
<1> QED  BY <1>5, <1>6 DEF Shape, f

\* The emitter's cache is destroyed, element by element.
LEMMA ForgetShape ==
  ASSUME Shape, Forget
  PROVE  /\ Shape' /\ Shrinks
         /\ \/ Returned(Main) /\ Top(Main).call = "forget"
            \/ Same({"emit", "walk", "task", "publish", "forget"})
<1>1. /\ Calling(Main, "forget")
      /\ UNCHANGED <<brokerVars, compVars, overlooked, eventVars, crashed>>
  BY DEF Forget
<1>2. /\ Main \in Threads /\ stack[Main] # << >> /\ Top(Main).call = "forget"
      /\ UNCHANGED <<life, owned, sent>>
  BY <1>1, EventAssumption DEF Calling, Top, compVars, eventVars
<1>3. CASE receiver_handlers_ = << >>
  <2>1. stack' = Pop(Main) /\ receivers_' = None /\ UNCHANGED receiver_handlers_
    BY <1>3 DEF Forget
  <2>2. /\ Stacked' /\ stack' = [u \in Threads |-> stack'[u]] /\ Shrinks /\ Dead' /\ Returned(Main)
    BY <1>2, <2>1, ReturnStep
  <2>3. Fields'  BY <1>1, <2>1, <2>2 DEF Shape, Fields, brokerVars, otherVars, compVars, eventVars, Handovers
  <2> QED  BY <1>2, <2>2, <2>3 DEF Shape
<1>4. CASE receiver_handlers_ # << >>
  <2>0. PICK c : c = Head(receiver_handlers_)  OBVIOUS
  <2>1. /\ receiver_handlers_' = Tail(receiver_handlers_)
        /\ Release(Main, c, owned, Tail(receiver_handlers_), stack) /\ UNCHANGED receivers_
    BY <1>4, <2>0 DEF Forget
  <2>2. /\ c \in Receivers /\ Tail(receiver_handlers_) \in Seq(Receivers)
        /\ Range(Tail(receiver_handlers_)) \subseteq Range(receiver_handlers_)
    BY <1>4, <2>0, TailIs DEF Shape, Fields
  <2>3. \A d \in Receivers : d \in Range(receiver_handlers_)' => Held(d)
    BY <2>1, <2>2, HeldIs
  <2>4. \A g \in Range(stack[Main]) : Over(g, Call("destroy", c))
    <3>1. /\ \A g \in Range(Front(stack[Main])) : Over(g, Top(Main))
          /\ Range(stack[Main]) = Range(Front(stack[Main])) \cup {Top(Main)}
      BY <1>2, TopIs DEF Shape
    <3> QED  BY <1>2, <3>1 DEF Over, InBroker, Call
  <2>5. Release(Main, c, owned', receiver_handlers_', stack)  BY <1>2, <2>1
  <2>6. /\ Stacked' /\ stack' = [u \in Threads |-> stack'[u]] /\ Shrinks /\ Dead'
        /\ Same({"emit", "walk", "task", "publish", "forget"})
    BY <1>2, <2>2, <2>3, <2>4, <2>5, ReleaseStep
  <2>7. Fields'  BY <1>1, <2>1, <2>2, <2>6 DEF Shape, Fields, brokerVars, otherVars, compVars, eventVars, Handovers
  <2> QED  BY <2>6, <2>7 DEF Shape
<1> QED  BY <1>3, <1>4

\* The lookups of the other references touch no call, no component.
LEMMA PinShape ==
  ASSUME Shape, NEW o \in Others, Pin(o) \/ Unpin(o)
  PROVE  Shape' /\ Shrinks /\ UNCHANGED <<stack, list, life>>
<1>1. UNCHANGED <<list, version, compVars, refVars, eventVars, stack, crashed>>  BY DEF Pin, Unpin
<1>2. /\ UNCHANGED <<life, owned, sent, receiver_handlers_>>
      /\ \A c \in Receivers : c \in Range(receiver_handlers_)' => Held(c)
      /\ sent' \in Nat /\ sent <= sent'
  BY <1>1, HeldIs, EventAssumption DEF compVars, refVars, eventVars, Shape, Fields
<1>3. Stacked' /\ stack' = [u \in Threads |-> stack'[u]] /\ Shrinks
  BY <1>1, <1>2, StackStays DEF Shape
<1>4. Dead'  BY <1>1, <1>2, <1>3, DeadStep DEF Shape
<1>5. pinned' \in [Others -> Nat \cup {None}] /\ pinnedList' \in [Others -> Seq(Receivers)]
  <2>1. << >> \in Seq(Receivers)  BY EmptySeq
  <2> QED  BY <2>1 DEF Pin, Unpin, Shape, Fields
<1>6. Fields'  BY <1>1, <1>3, <1>5 DEF Shape, Fields, compVars, refVars, eventVars, Handovers
<1> QED  BY <1>1, <1>2, <1>3, <1>4, <1>6 DEF Shape

\* The shape at the start.
LEMMA ShapeInit == Init => Shape
<1> SUFFICES ASSUME Init PROVE Shape  OBVIOUS
<1>1. << >> \in Seq(Receivers)  BY EmptySeq
<1>2. Fields
  <2>1. handed \in Seq(Handovers)  BY EmptySeq DEF Init
  <2>2. list \in Seq(Receivers)  BY <1>1 DEF Init
  <2>3. receiver_handlers_ \in Seq(Receivers)  BY <1>1 DEF Init
  <2>4. queue \in [Threads -> Seq(Receivers)]  BY <1>1 DEF Init
  <2>5. /\ version \in Nat /\ life \in [Receivers -> Lives]
        /\ owned \subseteq Receivers /\ emitting \in BOOLEAN /\ receivers_ \in Nat \cup {None}
        /\ crashed \in BOOLEAN /\ overlooked \subseteq Receivers
    BY DEF Init, Lives
  <2>6. sent \in 0..MaxEvents  BY EventAssumption DEF Init
  <2>8. pinned \in [Others -> Nat \cup {None}] /\ pinnedList \in [Others -> Seq(Receivers)]
    BY <1>1 DEF Init
  <2>7. stack = [t \in Threads |-> stack[t]]  BY DEF Init
  <2> QED  BY <2>1, <2>2, <2>3, <2>4, <2>5, <2>6, <2>7, <2>8 DEF Fields
<1>3. Stacked  BY StackEmpty DEF Init, Stacked
<1>4. Dead  BY RangeEmpty DEF Init, Dead
<1> QED  BY <1>2, <1>3, <1>4 DEF Shape

\* A step that is none.
LEMMA ShapeStutter ==
  ASSUME Shape, UNCHANGED vars
  PROVE  Shape' /\ Shrinks /\ Same({"emit", "walk", "task", "publish", "forget", "destroy"})
<1>1. /\ UNCHANGED <<stack, life, owned, sent, receiver_handlers_>>
      /\ \A c \in Receivers : c \in Range(receiver_handlers_)' => Held(c)
      /\ sent' \in Nat /\ sent <= sent'
  BY HeldIs, EventAssumption DEF vars, Shape, Fields
<1>2. Stacked' /\ stack' = [u \in Threads |-> stack'[u]] /\ Shrinks
  BY <1>1, StackStays DEF Shape
<1>3. Dead'  BY <1>1, <1>2, DeadStep DEF Shape
<1>4. Fields'  BY <1>2 DEF Shape, Fields, vars, Handovers
<1> QED  BY <1>1, <1>2, <1>3, <1>4 DEF Shape, Same

\* ... and after every step.
LEMMA ShapeNext == Shape /\ [Next]_vars => Shape' /\ Shrinks
<1> SUFFICES ASSUME Shape, [Next]_vars PROVE Shape' /\ Shrinks  OBVIOUS
<1>1. ASSUME ~crashed, Choice PROVE Shape' /\ Shrinks
  BY <1>1, EmitCachedShape, EmitFetchShape, DropEmitterShape, AssociateShape, UnpublishShape,
     DropOwnerShape, PinShape DEF Choice
<1>2. ASSUME NEW t \in Threads, Step(t) PROVE Shape' /\ Shrinks
  <2>1. ASSUME t = Main,
               LockReceivers \/ Clear \/ Gather \/ Invoke \/ Enqueue \/ InvokeReturns \/ EmitReturns \/ Forget
        PROVE  Shape' /\ Shrinks
    BY <2>1, LockReceiversShape, ClearShape, GatherShape, InvokeShape, EnqueueShape,
       InvokeReturnsShape, EmitReturnsShape, ForgetShape
  <2>2. ASSUME StoreHandler(t) \/ Published(t) \/ RunTask(t) \/ TaskReturns(t) PROVE Shape' /\ Shrinks
    BY <2>2, StoreHandlerShape, PublishedShape, RunTaskShape, TaskReturnsShape
  <2>3. ASSUME WalkLock(t) \/ WalkRelease(t) \/ WalkEnd(t) \/ DestructorUnpublish(t) \/ Free(t)
        PROVE  Shape' /\ Shrinks
    BY <2>3, WalkLockShape, WalkReleaseShape, WalkEndShape, DestructorUnpublishShape, FreeShape
  <2> QED  BY <1>2, <2>1, <2>2, <2>3 DEF Step, Goes
<1> QED  BY <1>1, <1>2, ShapeStutter DEF Next
-----------------------------------------------------------------------------
\* The broker's list, and the copies of it that disassociations make: what is on them
\* of the components somebody holds. One thread only is in the broker; if it is in
\* there twice, the component of the inner disassociation is held by nobody.

WalkInv(f) ==
    /\ \A c \in Receivers : c # f.of /\ Held(c) =>
           (c \in Range(f.kept) \cup Range(f.rest) <=> life[c] \in Listed)
    /\ f.of \notin Range(f.kept)
    /\ IsInjective(f.kept) /\ IsInjective(f.rest) /\ Range(f.kept) \cap Range(f.rest) = {}
    /\ \A c \in Range(f.kept) \cup Range(f.rest) : life[c] # "new"

BrokerInv ==
    /\ \A c \in Receivers : Held(c) => (c \in Range(list) <=> life[c] \in Listed)
    /\ IsInjective(list) /\ \A c \in Range(list) : life[c] # "new"
    /\ \A t \in Threads : \A f \in Range(stack[t]) : f.call = "walk" => WalkInv(f)
    /\ \A t, u \in Threads : Walking(t) /\ Walking(u) => t = u

\* Whether those that are held are subscribed does not change.
LifeQuiet == \A c \in Receivers :
    /\ Held(c)' => (life'[c] \in Listed <=> life[c] \in Listed)
    /\ life[c] # "new" => life'[c] # "new"

\* A frame of a disassociation, by its kind.
LEMMA WalkFrameIs ==
  ASSUME Shape, NEW t \in Threads, NEW f \in Range(stack[t]), f.call = "walk"
  PROVE  /\ f \in WalkFrames /\ f.of \in Receivers
         /\ f.rest \in Seq(Receivers) /\ f.kept \in Seq(Receivers)
         /\ Range(f.rest) \subseteq Receivers /\ Range(f.kept) \subseteq Receivers
<1>1. stack[t] \in Seq(FramesOn(t))  BY DEF Shape, Stacked, Stacks
<1>2. f \in FramesOn(t)  BY <1>1, RangeIs
<1>3. f \in WalkFrames  BY <1>2 DEF FramesOn, CallFrames, EmitFrames, Forgets
<1>4. f.of \in Receivers /\ f.rest \in Seq(Receivers) /\ f.kept \in Seq(Receivers)
  BY <1>3 DEF WalkFrames
<1> QED  BY <1>3, <1>4, RangeIs

\* A disassociation that does not go on is not disturbed by letting go of components.
LEMMA WalkKeeps ==
  ASSUME NEW f \in WalkFrames, WalkInv(f), Shrinks, LifeQuiet
  PROVE  WalkInv(f)'
<1>1. Range(f.kept) \subseteq Receivers /\ Range(f.rest) \subseteq Receivers
  BY RangeIs DEF WalkFrames
<1>2. \A c \in Receivers : Held(c)' => Held(c)  BY DEF Shrinks
<1> QED  BY <1>1, <1>2 DEF WalkInv, LifeQuiet

\* Steps that leave the list as it is, and take at most one disassociation on.
LEMMA BrokerMoves ==
  ASSUME Shape, BrokerInv, Shrinks, UNCHANGED list, LifeQuiet, NEW t \in Threads, NEW f,
         \A u \in Threads : \A g \in Range(stack'[u]) : g.call = "walk" =>
             g \in Range(stack[u]) \/ (u = t /\ g = f /\ WalkInv(f)' /\ Walking(t))
  PROVE  BrokerInv'
<1>1. \A c \in Receivers : Held(c)' => (c \in Range(list') <=> life'[c] \in Listed)
  BY DEF BrokerInv, Shrinks, LifeQuiet
<1>2. IsInjective(list') /\ \A c \in Range(list') : life'[c] # "new"
  <2>1. Range(list) \subseteq Receivers  BY RangeIs DEF Shape, Fields
  <2> QED  BY <2>1 DEF BrokerInv, LifeQuiet
<1>3. ASSUME NEW u \in Threads, NEW g \in Range(stack'[u]), g.call = "walk" PROVE WalkInv(g)'
  <2>1. CASE g \in Range(stack[u])
    BY <1>3, <2>1, WalkFrameIs, WalkKeeps DEF BrokerInv
  <2>2. CASE g = f /\ WalkInv(f)'  BY <2>2
  <2> QED  BY <1>3, <2>1, <2>2
<1>4. \A u \in Threads : Walking(u)' => Walking(u)  BY DEF Walking
<1> QED  BY <1>1, <1>2, <1>3, <1>4 DEF BrokerInv

\* Steps that do not concern the broker.
LEMMA BrokerQuiet ==
  ASSUME Shape, BrokerInv, Shrinks, UNCHANGED list, LifeQuiet,
         \A u \in Threads : \A g \in Range(stack'[u]) : g.call = "walk" => g \in Range(stack[u])
  PROVE  BrokerInv'
BY EventAssumption, BrokerMoves

\* Nothing changes life.
LEMMA LifeSame == ASSUME UNCHANGED life PROVE LifeQuiet
BY DEF LifeQuiet

\* A thread that runs code of the application finds the mutex free: nobody disassociates.
LEMMA NobodyWalks ==
  ASSUME Shape, NEW t \in Threads, RunsCode(t), MutexFree(t)
  PROVE  \A u \in Threads : ~Walking(u)
<1>1. ~Walking(t)  BY CodeBelow DEF Shape, Walking, IsCode
<1> QED  BY <1>1 DEF MutexFree

\* Associate puts a component on the list that was never on it.
LEMMA AssociateBroker ==
  ASSUME Shape, BrokerInv, NEW c \in Receivers, Associate(c)
  PROVE  BrokerInv'
<1>1. /\ RunsCode(Thread[c]) /\ MutexFree(Thread[c]) /\ life[c] = "new" /\ c \in owned
      /\ list' = Append(list, c) /\ life' = [life EXCEPT ![c] = "associated"]
  BY DEF Associate
<1>2. Shrinks /\ OnlyAdds(Thread[c], stack[Thread[c]], Call("publish", c))  BY AssociateShape
<1>3. \A u \in Threads : ~Walking(u)  BY <1>1, ThreadIs, NobodyWalks
<1>4. \A u \in Threads : \A f \in Range(stack'[u]) : f.call # "walk"
  <2>1. Call("publish", c).call = "publish"  BY DEF Call
  <2> QED  BY <1>2, <1>3, <2>1 DEF Walking, OnlyAdds, Adds
<1>5. /\ list \in Seq(Receivers) /\ life \in [Receivers -> Lives] /\ Range(list) \subseteq Receivers
  BY RangeIs DEF Shape, Fields
<1>6. c \notin Range(list)  BY <1>1 DEF BrokerInv
<1>7. Range(list') = Range(list) \cup {c} /\ IsInjective(list')
  BY <1>1, <1>5, <1>6, AppendIs DEF BrokerInv
<1>8. \A d \in Receivers : life'[d] = IF d = c THEN "associated" ELSE life[d]
  BY <1>1, <1>5
<1>9. \A d \in Receivers : Held(d)' => (d \in Range(list') <=> life'[d] \in Listed)
  BY <1>2, <1>7, <1>8 DEF BrokerInv, Shrinks, Listed
<1>10. \A d \in Range(list') : life'[d] # "new"
  BY <1>5, <1>7, <1>8 DEF BrokerInv
<1> QED  BY <1>4, <1>7, <1>9, <1>10 DEF BrokerInv, Walking

\* A disassociation of the application's begins with the list as it is.
LEMMA WalkBegins ==
  ASSUME Shape, BrokerInv, NEW t \in Threads, NEW c \in Receivers, UNCHANGED <<list, life>>,
         Shrinks, OnlyAdds(t, stack[t], Walk(c)),
         \A u \in Threads : u # t => ~Walking(u)
  PROVE  BrokerInv'
<1>1. PICK f : f = Walk(c)  OBVIOUS
<1>2. f.call = "walk" /\ f.of = c /\ f.rest = list /\ f.kept = << >>  BY <1>1, WalkIs
<1>3. WalkInv(f)'
  <2>1. Range(f.kept) = {} /\ IsInjective(f.kept)  BY <1>2, RangeEmpty
  <2> QED  BY <1>2, <2>1 DEF WalkInv, BrokerInv, Shrinks
<1>4. \A u \in Threads : \A g \in Range(stack'[u]) : g \in Range(stack[u]) \/ (u = t /\ g = f)
  BY <1>1 DEF OnlyAdds, Adds
<1>5. \A u \in Threads : Walking(u)' => u = t  BY <1>4 DEF Walking
<1>6. ASSUME NEW u \in Threads, NEW g \in Range(stack'[u]), g.call = "walk" PROVE WalkInv(g)'
  <2>1. CASE g \in Range(stack[u])
    BY <1>6, <2>1, WalkFrameIs, WalkKeeps, LifeSame DEF BrokerInv
  <2>2. CASE g = f  BY <1>3, <2>2
  <2> QED  BY <1>4, <2>1, <2>2
<1>7. /\ \A d \in Receivers : Held(d)' => (d \in Range(list') <=> life'[d] \in Listed)
      /\ IsInjective(list') /\ \A d \in Range(list') : life'[d] # "new"
  BY DEF BrokerInv, Shrinks
<1> QED  BY <1>5, <1>6, <1>7 DEF BrokerInv

\* unpublish() is such a beginning,
LEMMA UnpublishBroker ==
  ASSUME Shape, BrokerInv, NEW c \in Receivers, Unpublish(c)
  PROVE  BrokerInv'
<1>1. /\ RunsCode(Thread[c]) /\ MutexFree(Thread[c]) /\ UNCHANGED <<list, life>>
  BY DEF Unpublish, brokerVars, otherVars, compVars
<1>2. Shrinks /\ OnlyAdds(Thread[c], stack[Thread[c]], Walk(c))  BY UnpublishShape
<1>3. \A u \in Threads : ~Walking(u)  BY <1>1, ThreadIs, NobodyWalks
<1> QED  BY <1>1, <1>2, <1>3, ThreadIs, WalkBegins

\* and the destructor of a published component another.
LEMMA DestructorUnpublishBroker ==
  ASSUME Shape, BrokerInv, NEW t \in Threads, DestructorUnpublish(t)
  PROVE  BrokerInv'
<1>1. MutexFree(t) /\ UNCHANGED <<list, life>>
  BY DEF DestructorUnpublish, brokerVars, otherVars, compVars
<1>2. Shrinks /\ Top(t).of \in Receivers /\ OnlyAdds(t, stack[t], Walk(Top(t).of))
  BY DestructorUnpublishShape
<1>3. PICK c \in Receivers : c = Top(t).of  BY <1>2
<1>4. OnlyAdds(t, stack[t], Walk(c))  BY <1>2, <1>3
<1>5. \A u \in Threads : u # t => ~Walking(u)  BY <1>1 DEF MutexFree
<1> QED  BY <1>1, <1>2, <1>4, <1>5, WalkBegins

\* The stages between association and disassociation are all on the list.
LEMMA StoreHandlerBroker ==
  ASSUME Shape, BrokerInv, NEW t \in Threads, StoreHandler(t)
  PROVE  BrokerInv'
<1>1. /\ life[Top(t).of] = "associated" /\ life' = [life EXCEPT ![Top(t).of] = "subscribed"]
      /\ UNCHANGED list
  BY DEF StoreHandler, brokerVars, otherVars
<1>2. Shrinks /\ UNCHANGED stack  BY StoreHandlerShape
<1>3. LifeQuiet  BY <1>1 DEF LifeQuiet, Shape, Fields, Listed
<1> QED  BY <1>1, <1>2, <1>3, BrokerQuiet

\* publish() that is done makes the receiver one the list must hold, and it does.
LEMMA PublishedBroker ==
  ASSUME Shape, BrokerInv, NEW t \in Threads, Published(t)
  PROVE  BrokerInv'
<1>1. /\ life[Top(t).of] = "subscribed" /\ life' = [life EXCEPT ![Top(t).of] = "published"]
      /\ UNCHANGED list
  BY DEF Published, brokerVars, otherVars
<1>2. Shrinks /\ Returned(t)  BY PublishedShape
<1>3. LifeQuiet  BY <1>1 DEF LifeQuiet, Shape, Fields, Listed
<1>4. \A u \in Threads : \A g \in Range(stack'[u]) : g \in Range(stack[u])
  BY <1>2 DEF Returned
<1> QED  BY <1>1, <1>2, <1>3, <1>4, BrokerQuiet

\* Who is destroyed is held by nobody.
LEMMA FreeBroker ==
  ASSUME Shape, BrokerInv, NEW t \in Threads, Free(t)
  PROVE  BrokerInv'
<1>1. /\ Calling(t, "destroy") /\ life' = [life EXCEPT ![Top(t).of] = "freed"] /\ UNCHANGED list
  BY DEF Free, brokerVars, otherVars
<1>2. Shrinks /\ Returned(t)  BY FreeShape
<1>3. Top(t) \in Range(stack[t]) /\ Top(t).call = "destroy"  BY <1>1, CallTop
<1>4. ~Held(Top(t).of)  BY <1>3 DEF Shape, Dead
<1>5. LifeQuiet  BY <1>1, <1>2, <1>4 DEF LifeQuiet, Shape, Fields, Shrinks
<1>6. \A u \in Threads : \A g \in Range(stack'[u]) : g \in Range(stack[u])
  BY <1>2 DEF Returned
<1> QED  BY <1>1, <1>2, <1>5, <1>6, BrokerQuiet

\* An entry is held for a moment, or skipped because nobody holds it.
LEMMA WalkLockBroker ==
  ASSUME Shape, BrokerInv, NEW t \in Threads, WalkLock(t)
  PROVE  BrokerInv'
<1>1. UNCHANGED <<list, life>>  BY DEF WalkLock, brokerVars, otherVars, compVars
<1>2. /\ Shrinks /\ Calling(t, "walk") /\ Top(t).rest # << >> /\ Head(Top(t).rest) \in Receivers
      /\ \E f \in WalkFrames : /\ OnlyAdds(t, Front(stack[t]), f)
            /\ f = IF Held(Head(Top(t).rest)) THEN [Top(t) EXCEPT !.held = Head(Top(t).rest)]
                   ELSE [Top(t) EXCEPT !.rest = Tail(Top(t).rest)]
  BY WalkLockShape
<1>3. PICK w, c, f : /\ w = Top(t) /\ c = Head(w.rest) /\ f \in WalkFrames
                     /\ OnlyAdds(t, Front(stack[t]), f)
                     /\ f = IF Held(c) THEN [w EXCEPT !.held = c] ELSE [w EXCEPT !.rest = Tail(w.rest)]
  BY <1>2
<1>4. /\ stack[t] # << >> /\ w \in WalkFrames /\ w \in Range(stack[t]) /\ w.call = "walk"
      /\ w.rest \in Seq(Receivers) /\ w.kept \in Seq(Receivers)
  BY <1>2, <1>3, WalkTop
<1>5. WalkInv(w) /\ Walking(t)  BY <1>4 DEF BrokerInv, Walking
<1>6. WalkInv(w)'  BY <1>1, <1>2, <1>4, <1>5, WalkKeeps, LifeSame
<1>7. WalkInv(f)'
  <2>1. CASE Held(c)
    <3>1. f.of = w.of /\ f.kept = w.kept /\ f.rest = w.rest  BY <1>3, <1>4, <2>1 DEF WalkFrames
    <3> QED  BY <1>6, <3>1 DEF WalkInv
  <2>2. CASE ~Held(c)
    <3>1. f.of = w.of /\ f.kept = w.kept /\ f.rest = Tail(w.rest)  BY <1>3, <1>4, <2>2 DEF WalkFrames
    <3>2. PICK r : r = Tail(w.rest)  OBVIOUS
    <3>3. /\ Range(w.rest) = Range(r) \cup {c}
          /\ IsInjective(w.rest) => IsInjective(r)
      BY <1>2, <1>3, <1>4, <3>2, TailIs
    <3>4. ~Held(c)'  BY <1>2, <1>3, <2>2 DEF Shrinks
    <3> QED  BY <1>6, <3>1, <3>2, <3>3, <3>4 DEF WalkInv
  <2> QED  BY <2>1, <2>2
<1>8. \A u \in Threads : \A g \in Range(stack'[u]) : g \in Range(stack[u]) \/ (u = t /\ g = f)
  BY <1>2, <1>3, <1>4, TopIs DEF OnlyAdds, Adds, Shape
<1> QED  BY <1>1, <1>2, <1>5, <1>7, <1>8, LifeSame, BrokerMoves

\* The end of a turn: an entry moves from the rest of the list to the copy, or is the
\* component's own.
LEMMA WalkReleaseBroker ==
  ASSUME Shape, BrokerInv, NEW t \in Threads, WalkRelease(t)
  PROVE  BrokerInv'
<1>1. UNCHANGED <<list, life>> /\ Top(t).held # None  BY DEF WalkRelease, brokerVars, otherVars, compVars
<1>2. /\ Shrinks /\ Calling(t, "walk") /\ Top(t).held \in Receivers
      /\ \E f \in WalkFrames : /\ Replaces(t, f)
            /\ f = [Top(t) EXCEPT !.rest = Tail(Top(t).rest), !.held = None,
                      !.kept = IF Top(t).held = Top(t).of THEN Top(t).kept
                               ELSE Append(Top(t).kept, Top(t).held)]
  BY WalkReleaseShape
<1>3. PICK w, c, f : /\ w = Top(t) /\ c = w.held /\ f \in WalkFrames /\ Replaces(t, f)
                     /\ f = [w EXCEPT !.rest = Tail(w.rest), !.held = None,
                               !.kept = IF c = w.of THEN w.kept ELSE Append(w.kept, c)]
  BY <1>2
<1>4. /\ stack[t] # << >> /\ w \in WalkFrames /\ w \in Range(stack[t]) /\ w.call = "walk"
      /\ w.rest \in Seq(Receivers) /\ w.kept \in Seq(Receivers)
  BY <1>2, <1>3, WalkTop
<1>5. WalkInv(w) /\ Walking(t)  BY <1>4 DEF BrokerInv, Walking
<1>6. WalkInv(w)'  BY <1>1, <1>2, <1>4, <1>5, WalkKeeps, LifeSame
<1>7. w.rest # << >> /\ c = Head(w.rest) /\ c \in Receivers  BY <1>1, <1>2, <1>3, <1>4 DEF WalkFrames
<1>8. PICK r, k : r = Tail(w.rest) /\ k = Append(w.kept, c)  OBVIOUS
<1>9. /\ Range(w.rest) = Range(r) \cup {c}
      /\ IsInjective(w.rest) => IsInjective(r) /\ c \notin Range(r)
  BY <1>4, <1>7, <1>8, TailIs
<1>10. /\ Range(k) = Range(w.kept) \cup {c}
       /\ IsInjective(w.kept) /\ c \notin Range(w.kept) => IsInjective(k)
  BY <1>4, <1>7, <1>8, AppendIs
<1>11. f.of = w.of /\ f.rest = r /\ f.kept = IF c = w.of THEN w.kept ELSE k
  BY <1>3, <1>4, <1>8 DEF WalkFrames
<1>12. WalkInv(f)'
  <2>1. CASE c = w.of  BY <1>6, <1>9, <1>11, <2>1 DEF WalkInv
  <2>2. CASE c # w.of
    <3>1. c \notin Range(w.kept)  BY <1>6, <1>9 DEF WalkInv
    <3> QED  BY <1>6, <1>9, <1>10, <1>11, <2>2, <3>1 DEF WalkInv
  <2> QED  BY <2>1, <2>2
<1>13. \A u \in Threads : \A g \in Range(stack'[u]) : g.call = "walk" =>
           g \in Range(stack[u]) \/ (u = t /\ g = f)
  <2>1. Range(stack[t]) = Range(Front(stack[t])) \cup {Top(t)}  BY <1>4, TopIs DEF Shape
  <2> QED  BY <1>3, <2>1 DEF Replaces
<1> QED  BY <1>1, <1>2, <1>5, <1>12, <1>13, LifeSame, BrokerMoves

\* The copy becomes the list. A disassociation around this one goes on, and its
\* component is not the one that has been taken off: that one is held by nobody.
LEMMA WalkEndBroker ==
  ASSUME Shape, BrokerInv, NEW t \in Threads, WalkEnd(t)
  PROVE  BrokerInv'
<1>1. /\ Top(t).rest = << >> /\ list' = Top(t).kept
      /\ life' = [life EXCEPT ![Top(t).of] = "unpublished"]
  BY DEF WalkEnd
<1>2. Shrinks /\ Returned(t) /\ Calling(t, "walk")  BY WalkEndShape
<1>3. PICK w : w = Top(t)  OBVIOUS
<1>4. /\ stack[t] # << >> /\ w \in WalkFrames /\ w \in Range(stack[t]) /\ w.call = "walk"
      /\ w.of \in Receivers
  BY <1>2, <1>3, WalkTop
<1>5. WalkInv(w) /\ Walking(t)  BY <1>4 DEF BrokerInv, Walking
<1>6. \A d \in Receivers : life'[d] = IF d = w.of THEN "unpublished" ELSE life[d]
  BY <1>1, <1>3 DEF Shape, Fields
<1>7. Range(w.kept) \subseteq Receivers /\ Range(w.kept) \cup Range(w.rest) = Range(w.kept)
  BY <1>1, <1>3, <1>4, RangeEmpty, RangeIs DEF WalkFrames
<1>8. \A d \in Receivers : Held(d)' => (d \in Range(list') <=> life'[d] \in Listed)
  <2> SUFFICES ASSUME NEW d \in Receivers, Held(d)'
               PROVE  d \in Range(w.kept) <=> life'[d] \in Listed
    BY <1>1, <1>3
  <2>1. Held(d)  BY <1>2 DEF Shrinks
  <2>2. CASE d = w.of  BY <1>5, <1>6, <2>2 DEF WalkInv, Listed
  <2>3. CASE d # w.of
    <3>1. d \in Range(w.kept) <=> life[d] \in Listed  BY <1>5, <1>7, <2>1, <2>3 DEF WalkInv
    <3> QED  BY <1>6, <2>3, <3>1
  <2> QED  BY <2>2, <2>3
<1>9. IsInjective(list') /\ \A d \in Range(list') : life'[d] # "new"
  <2>1. \A d \in Range(w.kept) : d \in Receivers /\ d # w.of /\ life[d] # "new"
    BY <1>5, <1>7 DEF WalkInv
  <2>2. IsInjective(w.kept)  BY <1>5 DEF WalkInv
  <2> QED  BY <1>1, <1>3, <1>6, <2>1, <2>2
<1>10. ASSUME NEW u \in Threads, NEW g \in Range(stack'[u]), g.call = "walk" PROVE WalkInv(g)'
  <2>1. g \in Range(stack[u])  BY <1>2 DEF Returned
  <2>2. g \in WalkFrames /\ WalkInv(g)  BY <1>10, <2>1, WalkFrameIs DEF BrokerInv
  <2>3. u = t  BY <1>5, <1>10, <2>1 DEF BrokerInv, Walking
  <2>4. g \in Range(Front(stack[t]))  BY <1>2, <1>10, <2>3 DEF Returned
  <2>5. Over(g, w)  BY <1>3, <1>4, <2>4, TopIs DEF Shape
  <2>6. ~Held(w.of)  BY <1>4, <1>10, <2>5 DEF Over
  <2>7. LifeQuiet  BY <1>2, <1>4, <1>6, <2>6 DEF LifeQuiet, Shrinks
  <2> QED  BY <1>2, <2>2, <2>7, WalkKeeps
<1>11. \A u \in Threads : Walking(u)' => Walking(u)
  BY <1>2 DEF Walking, Returned
<1> QED  BY <1>8, <1>9, <1>10, <1>11 DEF BrokerInv

\* The walks of the next state are those of this one.
WalksStay == \A u \in Threads : \A g \in Range(stack'[u]) : g.call = "walk" => g \in Range(stack[u])

\* An emission that goes on brings no disassociation.
LEMMA EmitWalks ==
  ASSUME Shape, NEW at, Emitting(at),
         \E f \in EmitFrames : OnlyAdds(Main, Front(stack[Main]), f)
  PROVE  WalksStay
<1>1. PICK f \in EmitFrames : OnlyAdds(Main, Front(stack[Main]), f)  OBVIOUS
<1>2. f.call = "emit"  BY DEF EmitFrames
<1>3. Range(stack[Main]) = Range(Front(stack[Main])) \cup {Top(Main)}
  BY EmitTop, TopIs DEF Shape
<1> QED  BY <1>1, <1>2, <1>3 DEF WalksStay, OnlyAdds, Adds

\* The steps of the loops of an emission.
LEMMA LoopBroker ==
  ASSUME Shape, BrokerInv, LockReceivers \/ Clear \/ Gather \/ Invoke \/ Enqueue \/ InvokeReturns
  PROVE  BrokerInv'
<1>1. UNCHANGED <<list, life>>
  BY DEF LockReceivers, Clear, Gather, Invoke, Enqueue, InvokeReturns, brokerVars, otherVars, compVars
<1>2. Shrinks /\ WalksStay
  <2>1. CASE LockReceivers
    BY <2>1, LockReceiversShape, EmitWalks DEF LockReceivers
  <2>2. CASE Clear
    <3>1. CASE receiver_handlers_ = << >>
      BY <2>2, <3>1, ClearShape, EmitWalks DEF Clear
    <3>2. CASE receiver_handlers_ # << >>
      BY <2>2, <3>2, ClearShape DEF Same, WalksStay
    <3> QED  BY <3>1, <3>2
  <2>3. CASE Gather  BY <2>3, GatherShape, EmitWalks DEF Gather
  <2>4. CASE Invoke  BY <2>4, InvokeShape, EmitWalks DEF Invoke, Dispatching
  <2>5. CASE Enqueue  BY <2>5, EnqueueShape, EmitWalks DEF Enqueue, Dispatching
  <2>6. CASE InvokeReturns
    <3>1. CASE Top(Main).stale
      BY <2>6, <3>1, InvokeReturnsShape DEF WalksStay
    <3>2. CASE ~Top(Main).stale
      BY <2>6, <3>2, InvokeReturnsShape, EmitWalks DEF InvokeReturns
    <3> QED  BY <3>1, <3>2
  <2> QED  BY <2>1, <2>2, <2>3, <2>4, <2>5, <2>6
<1> QED  BY <1>1, <1>2, LifeSame, BrokerQuiet DEF WalksStay

\* The steps that begin or end something else.
LEMMA OtherBroker ==
  ASSUME Shape, BrokerInv,
         \/ EmitCached \/ EmitFetch \/ DropEmitter \/ EmitReturns \/ Forget
         \/ \E c \in Receivers : DropOwner(c)
         \/ \E o \in Others : Pin(o) \/ Unpin(o)
         \/ \E t \in Threads : RunTask(t) \/ TaskReturns(t)
         \/ UNCHANGED vars
  PROVE  BrokerInv'
<1>1. UNCHANGED <<list, life>>
  BY DEF EmitCached, EmitFetch, DropEmitter, EmitReturns, Forget, DropOwner, RunTask, TaskReturns,
         Pin, Unpin, brokerVars, compVars, vars
<1>2. Shrinks /\ WalksStay
  <2>1. CASE EmitCached
    <3>1. Emission("dispatch", sent + 1).call = "emit"  BY DEF Emission
    <3> QED  BY <2>1, <3>1, EmitCachedShape DEF OnlyAdds, Adds, WalksStay
  <2>2. CASE EmitFetch
    <3>1. Emission("fetched", sent + 1).call = "emit"  BY DEF Emission
    <3>2. /\ Shrinks
          /\ Range(stack'[Main]) = {Spoil(f) : f \in Range(stack[Main])}
                                   \cup {Emission("fetched", sent + 1)}
          /\ \A u \in Threads : u # Main => stack'[u] = stack[u]
      BY <2>2, EmitFetchShape
    <3>3. \A f \in Range(stack[Main]) : f \in AnyFrames
      BY EventAssumption, RangeIs, FramesAny DEF Shape, Stacked, Stacks
    <3>4. \A f \in Range(stack[Main]) : Spoil(f).call = "walk" => Spoil(f) = f
      BY <3>3, SpoilIs
    <3> QED  BY <3>1, <3>2, <3>4 DEF WalksStay
  <2>3. CASE DropEmitter
    <3>1. Call("forget", None).call = "forget"  BY DEF Call
    <3> QED  BY <2>3, <3>1, DropEmitterShape DEF OnlyAdds, Adds, WalksStay
  <2>4. CASE EmitReturns  BY <2>4, EmitReturnsShape DEF Returned, WalksStay
  <2>5. CASE Forget  BY <2>5, ForgetShape DEF Returned, Same, WalksStay
  <2>6. ASSUME NEW c \in Receivers, DropOwner(c) PROVE Shrinks /\ WalksStay
    BY <2>6, DropOwnerShape DEF Same, WalksStay
  <2>7. ASSUME NEW t \in Threads, RunTask(t) PROVE Shrinks /\ WalksStay
    <3>1. \A c \in Receivers : Call("task", c).call = "task"  BY DEF Call
    <3> QED  BY <2>7, <3>1, RunTaskShape DEF OnlyAdds, Adds, WalksStay
  <2>8. ASSUME NEW t \in Threads, TaskReturns(t) PROVE Shrinks /\ WalksStay
    BY <2>8, TaskReturnsShape DEF Returned, WalksStay
  <2>9. CASE UNCHANGED vars  BY <2>9, ShapeStutter DEF Same, WalksStay
  <2>10. ASSUME NEW o \in Others, Pin(o) \/ Unpin(o) PROVE Shrinks /\ WalksStay
    BY <2>10, PinShape DEF WalksStay
  <2> QED  BY <2>1, <2>2, <2>3, <2>4, <2>5, <2>6, <2>7, <2>8, <2>9, <2>10
<1> QED  BY <1>1, <1>2, LifeSame, BrokerQuiet DEF WalksStay

\* The broker's invariant holds at the start, when nobody walks.
LEMMA BrokerInit == Init => BrokerInv
BY RangeEmpty DEF Init, BrokerInv, Listed, Walking

\* Every step keeps it: the walks by their own lemmas, the rest by OtherBroker.
LEMMA BrokerNext == Shape /\ BrokerInv /\ [Next]_vars => BrokerInv'
<1> SUFFICES ASSUME Shape, BrokerInv, [Next]_vars PROVE BrokerInv'  OBVIOUS
<1>1. ASSUME ~crashed, Choice PROVE BrokerInv'
  BY <1>1, OtherBroker, AssociateBroker, UnpublishBroker DEF Choice
<1>2. ASSUME NEW t \in Threads, Step(t) PROVE BrokerInv'
  <2>1. CASE StoreHandler(t) \/ Published(t) \/ Free(t)
    BY <2>1, StoreHandlerBroker, PublishedBroker, FreeBroker
  <2>2. CASE WalkLock(t) \/ WalkRelease(t) \/ WalkEnd(t) \/ DestructorUnpublish(t)
    BY <2>2, WalkLockBroker, WalkReleaseBroker, WalkEndBroker, DestructorUnpublishBroker
  <2>3. CASE RunTask(t) \/ TaskReturns(t) \/ EmitReturns \/ Forget  BY <2>3, OtherBroker
  <2>4. CASE LockReceivers \/ Clear \/ Gather \/ Invoke \/ Enqueue \/ InvokeReturns
    BY <2>4, LoopBroker
  <2> QED  BY <1>2, <2>1, <2>2, <2>3, <2>4 DEF Step, Goes
<1> QED  BY <1>1, <1>2, OtherBroker DEF Next

\* What another lookup keeps was the broker's list, and is if nothing has replaced it.
PinInv == \A o \in Others : pinned[o] # None =>
    /\ pinned[o] <= version /\ IsInjective(pinnedList[o])
    /\ pinned[o] = version => pinnedList[o] = list

\* It is so at the start, when no other lookup runs,
LEMMA PinInit == Init => PinInv
BY DEF Init, PinInv

\* and after every step: each update of the list is another version.
LEMMA PinNext == Shape /\ BrokerInv /\ PinInv /\ [Next]_vars => PinInv'
<1> SUFFICES ASSUME Shape, BrokerInv, PinInv, [Next]_vars PROVE PinInv'  OBVIOUS
<1>1. version \in Nat /\ \A o \in Others : pinned[o] \in Nat \cup {None}  BY DEF Shape, Fields
<1>2. CASE UNCHANGED <<list, version, pinned, pinnedList>>  BY <1>2 DEF PinInv
<1>3. CASE version' = version + 1 /\ UNCHANGED <<pinned, pinnedList>>
  <2>1. \A n \in Nat : n <= version => n <= version + 1 /\ n # version + 1  BY <1>1
  <2> QED  BY <1>1, <1>3, <2>1 DEF PinInv
<1>4. ASSUME NEW o \in Others, Pin(o) \/ Unpin(o) PROVE PinInv'
  <2>1. IsInjective(list) /\ version <= version  BY <1>1 DEF BrokerInv
  <2>2. \A p \in Others : p # o => pinned'[p] = pinned[p] /\ pinnedList'[p] = pinnedList[p]
    BY <1>4 DEF Pin, Unpin, Shape, Fields
  <2>3. pinned'[o] = None \/ (pinned'[o] = version /\ pinnedList'[o] = list)
    BY <1>4 DEF Pin, Unpin, Shape, Fields
  <2>4. UNCHANGED <<list, version>>  BY <1>4 DEF Pin, Unpin
  <2> QED  BY <2>1, <2>2, <2>3, <2>4 DEF PinInv
<1>5. CASE Choice
  BY <1>2, <1>3, <1>4, <1>5 DEF Choice, EmitCached, EmitFetch, DropEmitter, Associate, Unpublish,
     DropOwner, brokerVars, otherVars
<1>6. ASSUME NEW t \in Threads, Goes(t) PROVE PinInv'
  <2>1. CASE WalkEnd(t)  BY <1>3, <2>1 DEF WalkEnd, otherVars
  <2>2. CASE ~WalkEnd(t)
    <3>1. UNCHANGED brokerVars
      BY <1>6, <2>2 DEF Goes, StoreHandler, Published, WalkLock, WalkRelease, DestructorUnpublish,
         Free, RunTask, TaskReturns, LockReceivers, Clear, Gather, Invoke, Enqueue, InvokeReturns,
         EmitReturns, Forget
    <3> QED  BY <1>2, <3>1 DEF brokerVars, otherVars
  <2> QED  BY <2>1, <2>2
<1>7. CASE UNCHANGED vars  BY <1>2, <1>7 DEF vars
<1> QED  BY <1>5, <1>6, <1>7 DEF Next, Step

\* The shape of the stacks and the broker's invariant hold throughout.
LEMMA BrokerAlways == SafeSpec => [](Shape /\ BrokerInv)
<1>1. Init => Shape /\ BrokerInv  BY ShapeInit, BrokerInit
<1>2. Shape /\ BrokerInv /\ [Next]_vars => (Shape /\ BrokerInv)'  BY ShapeNext, BrokerNext
<1> QED  BY <1>1, <1>2, PTL DEF SafeSpec

\* No update of the broker's list is lost, though each one copies it: of the components
\* somebody holds, those are on it that have been associated and are not disassociated
\* (broker::associate, broker::disassociate).
THEOREM ListKept == SafeSpec => []ListMatchesLife
<1>1. Shape /\ BrokerInv => ListMatchesLife  BY DEF BrokerInv, ListMatchesLife
<1> QED  BY <1>1, BrokerAlways, PTL
-----------------------------------------------------------------------------
\* What an emission knows of the receivers: of the list it has fetched, of the cached
\* vector it has gathered or found, and of those it has passed.

Subscribed == {"subscribed", "published"}
Gone == {"unpublished", "freed"}
Older(a, b) == /\ a # "new" => b # "new"
               /\ a \in Subscribed => b \in Subscribed \cup Gone
               /\ a \in Gone => b \in Gone

Fetching == \E f \in Range(stack[Main]) : f.call = "emit" /\ f.at \in Fetches
Wanted(f) == {c \in Receivers : Held(c) /\ f.begun[c] \in Subscribed /\ life[c] \in Subscribed}

\* entry k of the history gave event e to c; there is one such entry
Given(e, c, k) == handed[k].event = e /\ handed[k].to = c
Once(e, c) == \E k \in DOMAIN handed : \A l \in DOMAIN handed : Given(e, c, l) <=> l = k

\* how far an emission has got
Passed(f) == IF f.at = "calling" THEN f.i ELSE f.i - 1

\* The cached vector has whoever is on the list, if it is the one the cached version
\* stands for and is not being filled.
CacheInv == emitting /\ receivers_ = version /\ ~Fetching =>
    /\ \A c \in Range(receiver_handlers_) : life[c] \notin Gone
    /\ \A c \in Receivers : Held(c) /\ life[c] \in Listed =>
           c \in Range(receiver_handlers_) \cup overlooked

\* An emission that fills the vector has given nothing to anybody.
FetchInv(f) ==
    /\ f.i = 1 /\ ~f.stale /\ IsInjective(f.snap)
    /\ \A k \in DOMAIN handed : handed[k].event # f.event
    /\ f.at = "fetched" => \A o \in Keeping(receivers_) :
           \A c \in Range(pinnedList[o]) : Held(c) => f.begun[c] \notin Gone
    /\ f.at # "fetched" => \A c \in Range(f.snap) : Held(c) => f.begun[c] \notin Gone
    /\ f.at = "clear" /\ ~f.lost => Wanted(f) \subseteq Range(f.snap)
    /\ f.at = "gather" =>
       /\ Range(f.snap) \cap Range(receiver_handlers_) = {}
       /\ \A c \in Range(receiver_handlers_) : f.begun[c] \notin Gone
       /\ ~f.lost => Wanted(f) \subseteq Range(f.snap) \cup Range(receiver_handlers_)
    /\ receivers_ = version /\ f.at # "fetched" =>
       /\ ~f.lost
       /\ \A c \in Range(f.snap) : Held(c) => life[c] \notin Gone
       /\ f.at = "clear" => \A c \in Receivers : Held(c) /\ life[c] \in Listed => c \in Range(f.snap)
       /\ f.at = "gather" =>
          /\ \A c \in Range(receiver_handlers_) : life[c] \notin Gone
          /\ \A c \in Receivers : Held(c) /\ life[c] \in Listed =>
                 c \in Range(f.snap) \cup Range(receiver_handlers_) \cup overlooked

\* One that goes over the vector has given the event to those it has passed, once
\* each, and to nobody else -- unless the vector was filled anew under it.
DispatchInv(f) ==
    /\ f.snap = << >>
    /\ f.at = "dispatch" => ~f.stale /\ f.i <= Len(receiver_handlers_) + 1
    /\ ~f.stale =>
       /\ f.at = "calling" => f.i \in DOMAIN receiver_handlers_ /\ f.to = receiver_handlers_[f.i]
       /\ ~f.old => \A c \in Range(receiver_handlers_) : f.begun[c] \notin Gone
       /\ ~f.lost /\ ~f.old => Wanted(f) \ overlooked \subseteq Range(receiver_handlers_)
       /\ \A j \in 1..Passed(f) : Once(f.event, receiver_handlers_[j])
       /\ \A k \in DOMAIN handed : handed[k].event = f.event =>
              \E j \in 1..Passed(f) : receiver_handlers_[j] = handed[k].to

\* Of every emission: who was gone when it began has got nothing of it, unless it found
\* the vector of a list that only other lookups keep.
BegunInv(f) ==
    /\ \A c \in Receivers : Older(f.begun[c], life[c])
    /\ ~f.old => \A k \in DOMAIN handed : handed[k].event = f.event =>
                    f.begun[handed[k].to] \notin Gone

EmitInv(f) == BegunInv(f) /\ IF f.at \in Fetches THEN FetchInv(f) ELSE DispatchInv(f)

RefInv == /\ receivers_ # None => receivers_ <= version
          /\ IsInjective(receiver_handlers_)
          /\ \A f \in Range(stack[Main]) : f.call = "forget" => ~emitting

EventInv == /\ RefInv /\ CacheInv
            /\ \A f \in Range(stack[Main]) : f.call = "emit" => EmitInv(f)

\* What another lookup keeps it has kept before, or it is the broker's.
PinsGo == \A o \in Others :
    \/ pinned'[o] = None
    \/ pinned'[o] = pinned[o] /\ pinnedList'[o] = pinnedList[o]
    \/ \A c \in Range(pinnedList'[o]) : c \in Receivers /\ (Held(c) => life[c] \notin Gone)

\* Components only grow older, and who is on the list changes with the version only.
LifeGoes == /\ \A c \in Receivers : Older(life[c], life'[c])
            /\ version' \in Nat /\ version <= version'
            /\ version' = version => \A c \in Receivers :
                  /\ life'[c] \in Gone <=> life[c] \in Gone
                  /\ life'[c] \in Listed <=> life[c] \in Listed
            /\ PinsGo

\* Of event e nothing more is given to anybody.
HandedSame(e) == \A k :
    /\ k \in DOMAIN handed' /\ handed'[k].event = e <=> k \in DOMAIN handed /\ handed[k].event = e
    /\ k \in DOMAIN handed /\ handed[k].event = e => handed'[k] = handed[k]

\* Fields of an emission.
LEMMA EmitIs ==
  ASSUME NEW f \in EmitFrames
  PROVE  /\ f.call = "emit" /\ f.at \in {"fetched", "clear", "gather", "dispatch", "calling"}
         /\ f.snap \in Seq(Receivers) /\ Range(f.snap) \subseteq Receivers
         /\ f.i \in Nat \ {0} /\ f.event \in 1..sent
         /\ f.begun \in [Receivers -> Lives] /\ f.lost \in BOOLEAN /\ f.stale \in BOOLEAN
         /\ f.old \in BOOLEAN
BY RangeIs DEF EmitFrames, Fetches

\* A frame of an emission, by its kind.
LEMMA EmitFrameIs ==
  ASSUME Shape, NEW t \in Threads, NEW f \in Range(stack[t]), f.call = "emit"
  PROVE  f \in EmitFrames /\ t = Main
<1>1. stack[t] \in Seq(FramesOn(t))  BY DEF Shape, Stacked, Stacks
<1>2. f \in FramesOn(t)  BY <1>1, RangeIs
<1> QED  BY <1>2 DEF FramesOn, CallFrames, WalkFrames, Forgets

\* Older is transitive.
LEMMA OlderTrans ==
  ASSUME NEW a, NEW b, NEW c, Older(a, b), Older(b, c)
  PROVE  Older(a, c)
BY DEF Older, Subscribed, Gone

\* Who an emission must reach does not grow.
LEMMA WantedKept ==
  ASSUME NEW f, \A c \in Receivers : Older(f.begun[c], life[c]), LifeGoes, Shrinks
  PROVE  /\ \A c \in Receivers : Older(f.begun[c], life'[c])
         /\ Wanted(f)' \subseteq Wanted(f)
<1>1. \A c \in Receivers : Older(f.begun[c], life'[c])  BY OlderTrans DEF LifeGoes
<1>2. ASSUME NEW c \in Receivers, Held(c)', f.begun[c] \in Subscribed, life'[c] \in Subscribed
      PROVE  Held(c) /\ life[c] \in Subscribed
  BY <1>2 DEF Shrinks, LifeGoes, Older, Subscribed, Gone
<1> QED  BY <1>1, <1>2 DEF Wanted

\* An emission that has dispatched an event to nobody twice still has not.
LEMMA OnceKept ==
  ASSUME NEW e, HandedSame(e), NEW c, Once(e, c)
  PROVE  Once(e, c)'
<1>1. PICK k \in DOMAIN handed : \A l \in DOMAIN handed : Given(e, c, l) <=> l = k
  BY DEF Once
<1>2. Given(e, c, k) /\ handed[k].event = e  BY <1>1 DEF Given
<1>3. k \in DOMAIN handed' /\ handed'[k] = handed[k]  BY <1>2 DEF HandedSame
<1>4. ASSUME NEW l \in DOMAIN handed' PROVE Given(e, c, l)' <=> l = k
  <2>1. ASSUME handed'[l].event = e, handed'[l].to = c PROVE l = k
    <3>1. l \in DOMAIN handed /\ handed'[l] = handed[l]  BY <1>4, <2>1 DEF HandedSame
    <3> QED  BY <1>1, <2>1, <3>1 DEF Given
  <2> QED  BY <1>2, <1>3, <2>1 DEF Given
<1>5. \E m \in DOMAIN handed' : \A l \in DOMAIN handed' : Given(e, c, l)' <=> l = m
  BY <1>3, <1>4
<1> QED  BY <1>5 DEF Once

\* The parts of the invariant under steps that do not take the emission on.
LEMMA BegunKept ==
  ASSUME NEW f, BegunInv(f), HandedSame(f.event), LifeGoes, Shrinks
  PROVE  BegunInv(f)'
<1>1. \A c \in Receivers : Older(f.begun[c], life'[c])  BY WantedKept DEF BegunInv
<1>2. ASSUME NEW k \in DOMAIN handed', handed'[k].event = f.event
      PROVE  ~f.old => f.begun[handed'[k].to] \notin Gone
  <2>1. k \in DOMAIN handed /\ handed[k].event = f.event /\ handed'[k] = handed[k]
    BY <1>2 DEF HandedSame
  <2> QED  BY <2>1 DEF BegunInv
<1> QED  BY <1>1, <1>2 DEF BegunInv

\* What a fetched list promises is kept by a step that touches neither the list nor the frame.
LEMMA FetchKept ==
  ASSUME Fields, RefInv, NEW f, f.snap \in Seq(Receivers), BegunInv(f), FetchInv(f),
         HandedSame(f.event), LifeGoes, Shrinks, UNCHANGED receivers_,
         f.at # "gather" \/ UNCHANGED <<receiver_handlers_, overlooked>>
  PROVE  FetchInv(f)'
<1>1. Wanted(f)' \subseteq Wanted(f)  BY WantedKept DEF BegunInv
<1>2. \A c \in Receivers : Held(c)' => Held(c)  BY DEF Shrinks
<1>3. Range(f.snap) \subseteq Receivers /\ Range(receiver_handlers_) \subseteq Receivers
  BY RangeIs DEF Fields
<1>4. \A k \in DOMAIN handed' : handed'[k].event # f.event
  BY DEF FetchInv, HandedSame
<1>5. receivers_ = version' =>
          /\ receivers_ = version
          /\ \A c \in Receivers : /\ life'[c] \in Gone <=> life[c] \in Gone
                                  /\ life'[c] \in Listed <=> life[c] \in Listed
  <2> SUFFICES ASSUME receivers_ = version' PROVE version' = version
    BY DEF LifeGoes
  <2>1. receivers_ # None /\ version \in Nat /\ version' \in Nat
    BY NoneIs DEF LifeGoes, Fields
  <2>2. receivers_ <= version /\ version <= version'  BY <2>1 DEF RefInv, LifeGoes
  <2> QED  BY <2>1, <2>2
<1>6. f.at # "fetched" => \A c \in Range(f.snap) : Held(c)' => f.begun[c] \notin Gone
  BY <1>2, <1>3 DEF FetchInv
<1>7. f.at = "clear" /\ ~f.lost => Wanted(f)' \subseteq Range(f.snap)
  BY <1>1 DEF FetchInv
<1>10. ASSUME f.at = "fetched", NEW o \in Keeping(receivers_)',
              NEW c \in Range(pinnedList'[o]), Held(c)'
       PROVE  f.begun[c] \notin Gone
  <2>1. o \in Others /\ pinned'[o] = receivers_ /\ receivers_ # None  BY <1>10 DEF Keeping
  <2>2. CASE pinned'[o] = pinned[o] /\ pinnedList'[o] = pinnedList[o]
    <3>1. o \in Keeping(receivers_)  BY <2>1, <2>2 DEF Keeping
    <3>2. c \in Range(pinnedList[o]) /\ pinnedList[o] \in Seq(Receivers)
      BY <1>10, <2>1, <2>2 DEF Fields
    <3>3. c \in Receivers  BY <3>2, RangeIs
    <3> QED  BY <1>2, <1>10, <3>1, <3>2, <3>3 DEF FetchInv
  <2>3. CASE \A d \in Range(pinnedList'[o]) : d \in Receivers /\ (Held(d) => life[d] \notin Gone)
    <3>1. c \in Receivers /\ life[c] \notin Gone  BY <1>2, <1>10, <2>3
    <3> QED  BY <3>1 DEF BegunInv, Older
  <2> QED  BY <2>1, <2>2, <2>3 DEF LifeGoes, PinsGo
<1>8. CASE f.at # "gather"
  <2>1. receivers_' = version' /\ f.at # "fetched" =>
          /\ ~f.lost
          /\ \A c \in Range(f.snap) : Held(c)' => life'[c] \notin Gone
          /\ f.at = "clear" => \A c \in Receivers : Held(c)' /\ life'[c] \in Listed => c \in Range(f.snap)
    BY <1>2, <1>3, <1>5 DEF FetchInv
  <2> QED  BY <1>4, <1>6, <1>7, <1>8, <1>10, <2>1 DEF FetchInv
<1>9. CASE f.at = "gather" /\ UNCHANGED <<receiver_handlers_, overlooked>>
  <2>1. /\ Range(f.snap) \cap Range(receiver_handlers_') = {}
        /\ \A c \in Range(receiver_handlers_') : f.begun[c] \notin Gone
        /\ ~f.lost => Wanted(f)' \subseteq Range(f.snap) \cup Range(receiver_handlers_')
    BY <1>1, <1>9 DEF FetchInv
  <2>2. receivers_' = version' =>
          /\ ~f.lost
          /\ \A c \in Range(f.snap) : Held(c)' => life'[c] \notin Gone
          /\ \A c \in Range(receiver_handlers_') : life'[c] \notin Gone
          /\ \A c \in Receivers : Held(c)' /\ life'[c] \in Listed =>
                 c \in Range(f.snap) \cup Range(receiver_handlers_') \cup overlooked'
    BY <1>2, <1>3, <1>5, <1>9 DEF FetchInv
  <2> QED  BY <1>4, <1>6, <1>9, <2>1, <2>2 DEF FetchInv
<1> QED  BY <1>8, <1>9

\* So is what a dispatch under way promises,
LEMMA DispatchKept ==
  ASSUME Fields, NEW f, BegunInv(f), DispatchInv(f), HandedSame(f.event), LifeGoes, Shrinks,
         f.stale \/ UNCHANGED <<receiver_handlers_, overlooked>>
  PROVE  DispatchInv(f)'
<1>1. CASE f.stale  BY <1>1 DEF DispatchInv
<1>2. CASE ~f.stale /\ UNCHANGED <<receiver_handlers_, overlooked>>
  <2>1. Wanted(f)' \subseteq Wanted(f)  BY WantedKept DEF BegunInv
  <2>2. \A j \in 1..Passed(f) : Once(f.event, receiver_handlers_[j])'
    <3> SUFFICES ASSUME NEW j \in 1..Passed(f) PROVE Once(f.event, receiver_handlers_[j])'
      OBVIOUS
    <3>1. PICK c : c = receiver_handlers_[j]  OBVIOUS
    <3>2. Once(f.event, c)  BY <1>2, <3>1 DEF DispatchInv
    <3>3. Once(f.event, c)'  BY <3>2, OnceKept
    <3> QED  BY <1>2, <3>1, <3>3
  <2>3. \A k \in DOMAIN handed' : handed'[k].event = f.event =>
            \E j \in 1..Passed(f) : receiver_handlers_'[j] = handed'[k].to
    BY <1>2 DEF DispatchInv, HandedSame
  <2>4. /\ f.snap = << >>
        /\ f.at = "dispatch" => ~f.stale /\ f.i <= Len(receiver_handlers_') + 1
        /\ f.at = "calling" => f.i \in DOMAIN receiver_handlers_' /\ f.to = receiver_handlers_'[f.i]
        /\ ~f.old => \A c \in Range(receiver_handlers_') : f.begun[c] \notin Gone
        /\ ~f.lost /\ ~f.old => Wanted(f)' \ overlooked' \subseteq Range(receiver_handlers_')
    BY <1>2, <2>1 DEF DispatchInv
  <2> QED  BY <2>2, <2>3, <2>4 DEF DispatchInv, Passed
<1> QED  BY <1>1, <1>2

\* and what an emission promises of the receivers it has passed.
LEMMA EmitKept ==
  ASSUME Fields, RefInv, NEW f \in EmitFrames, EmitInv(f), HandedSame(f.event), LifeGoes, Shrinks,
         UNCHANGED receivers_,
         \/ f.stale \/ f.at \in {"fetched", "clear"}
         \/ UNCHANGED <<receiver_handlers_, overlooked>>
  PROVE  EmitInv(f)'
<1>1. BegunInv(f)'  BY BegunKept DEF EmitInv
<1>2. CASE f.at \in Fetches
  <2>1. f.at # "gather" \/ UNCHANGED <<receiver_handlers_, overlooked>>
    BY <1>2 DEF EmitInv, FetchInv
  <2>2. FetchInv(f)'  BY <1>2, <2>1, FetchKept, EmitIs DEF EmitInv
  <2> QED  BY <1>1, <1>2, <2>2 DEF EmitInv
<1>3. CASE f.at \notin Fetches
  <2>1. DispatchInv(f)'  BY <1>3, DispatchKept DEF EmitInv, Fetches
  <2> QED  BY <1>1, <1>3, <2>1 DEF EmitInv
<1> QED  BY <1>2, <1>3

\* The cache under steps that change neither it nor the vector.
LEMMA CacheKept ==
  ASSUME Fields, RefInv, CacheInv, LifeGoes, Shrinks, emitting' => emitting,
         UNCHANGED <<receivers_, receiver_handlers_, overlooked>>, Fetching => Fetching'
  PROVE  CacheInv'
<1> SUFFICES ASSUME emitting', receivers_' = version', ~Fetching'
             PROVE  /\ \A c \in Range(receiver_handlers_) : life'[c] \notin Gone
                    /\ \A c \in Receivers : Held(c)' /\ life'[c] \in Listed =>
                           c \in Range(receiver_handlers_) \cup overlooked
  BY DEF CacheInv
<1>1. receivers_ # None /\ version \in Nat /\ version' \in Nat
  BY NoneIs DEF LifeGoes, Fields
<1>2. receivers_ <= version /\ version <= version'  BY <1>1 DEF RefInv, LifeGoes
<1>3. receivers_ = version /\ version' = version  BY <1>1, <1>2
<1>4. \A c \in Receivers : /\ life'[c] \in Gone <=> life[c] \in Gone
                           /\ life'[c] \in Listed <=> life[c] \in Listed
  BY <1>3 DEF LifeGoes
<1>5. Range(receiver_handlers_) \subseteq Receivers  BY RangeIs DEF Fields
<1> QED  BY <1>3, <1>4, <1>5 DEF CacheInv, Shrinks

\* ... and the rest of what is said about it.
LEMMA RefKept ==
  ASSUME Fields, RefInv, LifeGoes, UNCHANGED <<receivers_, receiver_handlers_>>,
         \A f \in Range(stack'[Main]) : f.call = "forget" => f \in Range(stack[Main]) \/ ~emitting',
         emitting' => emitting
  PROVE  RefInv'
<1>1. receivers_' # None => receivers_' <= version'
  <2> SUFFICES ASSUME receivers_ # None PROVE receivers_ <= version'  OBVIOUS
  <2>1. receivers_ \in Nat /\ version \in Nat /\ version' \in Nat
    BY DEF Fields, LifeGoes
  <2>2. receivers_ <= version /\ version <= version'  BY DEF RefInv, LifeGoes
  <2> QED  BY <2>1, <2>2
<1>2. IsInjective(receiver_handlers_')  BY DEF RefInv
<1>3. \A f \in Range(stack'[Main]) : f.call = "forget" => ~emitting'  BY DEF RefInv
<1> QED  BY <1>1, <1>2, <1>3 DEF RefInv

\* Steps that emit nothing and leave the cache alone.
LEMMA EventQuiet ==
  ASSUME Shape, EventInv, Shrinks, LifeGoes, emitting' => emitting,
         UNCHANGED <<receivers_, receiver_handlers_, overlooked, handed>>,
         \A f \in Range(stack'[Main]) : f.call = "emit" => f \in Range(stack[Main]),
         \A f \in Range(stack'[Main]) : f.call = "forget" => f \in Range(stack[Main]) \/ ~emitting',
         Fetching => Fetching'
  PROVE  EventInv'
<1>1. \A e : HandedSame(e)  BY DEF HandedSame
<1>2. ASSUME NEW f \in Range(stack'[Main]), f.call = "emit" PROVE EmitInv(f)'
  <2>1. f \in EmitFrames /\ EmitInv(f)
    BY <1>2, EmitFrameIs, EventAssumption DEF EventInv
  <2>2. HandedSame(f.event)  BY <1>1
  <2> QED  BY <2>1, <2>2, EmitKept DEF EventInv, Shape
<1>3. CacheInv'  BY CacheKept DEF EventInv, Shape
<1>4. RefInv'  BY RefKept DEF EventInv, Shape
<1> QED  BY <1>2, <1>3, <1>4 DEF EventInv

\* No other lookup begins or ends.
LEMMA PinsRest == ASSUME UNCHANGED otherVars PROVE PinsGo
BY DEF PinsGo, otherVars

\* Nothing happens to the components and the broker.
LEMMA LifeRests ==
  ASSUME Shape, UNCHANGED <<life, version, otherVars>>
  PROVE  LifeGoes
BY PinsRest DEF LifeGoes, Shape, Fields, Older, Lives, Subscribed, Gone

\* The emissions of the next state are those of this one, and nobody begins to forget.
EmitsStay ==
    /\ \A f : f.call = "emit" => (f \in Range(stack'[Main]) <=> f \in Range(stack[Main]))
    /\ \A f \in Range(stack'[Main]) : f.call = "forget" => f \in Range(stack[Main])

\* A step that only pushes a call of the application's, its callers kept.
LEMMA QuietStep ==
  ASSUME Shape, EventInv, Shrinks, LifeGoes, EmitsStay, UNCHANGED emitting,
         UNCHANGED <<receivers_, receiver_handlers_, overlooked, handed>>
  PROVE  EventInv'
<1>1. Fetching => Fetching'  BY DEF Fetching, EmitsStay
<1> QED  BY <1>1, EventQuiet DEF EmitsStay

\* A call that is not an emission is made, goes on or returns.
LEMMA CallMade ==
  ASSUME NEW t \in Threads, NEW f, f.call \notin {"emit", "forget"}, OnlyAdds(t, stack[t], f)
  PROVE  EmitsStay
BY EventAssumption DEF EmitsStay, OnlyAdds, Adds

\* A call that returns leaves its caller's frame as it was.
LEMMA CallReturned ==
  ASSUME NEW t \in Threads, Returned(t), Top(t).call # "emit"
  PROVE  EmitsStay
BY EventAssumption DEF EmitsStay, Returned

\* A step that leaves every stack alone is quiet.
LEMMA SameStays == ASSUME Same({"emit", "walk", "task", "publish", "forget"}) PROVE EmitsStay
BY EventAssumption DEF EmitsStay, Same

\* A walk that exchanges its own frame is quiet for the emissions,
LEMMA WalkGoesOn ==
  ASSUME Shape, NEW t \in Threads, Calling(t, "walk"), NEW f \in WalkFrames, Replaces(t, f)
  PROVE  EmitsStay
<1>1. stack[t] # << >> /\ Top(t).call = "walk" /\ f.call = "walk"  BY WalkTop DEF WalkFrames
<1>2. Range(stack[t]) = Range(Front(stack[t])) \cup {Top(t)}  BY <1>1, TopIs DEF Shape
<1> QED  BY <1>1, <1>2, EventAssumption DEF EmitsStay, Replaces

\* whatever it does to the list.
LEMMA WalkGoesOnly ==
  ASSUME Shape, NEW t \in Threads, Calling(t, "walk"), NEW f \in WalkFrames,
         OnlyAdds(t, Front(stack[t]), f)
  PROVE  EmitsStay
<1>1. Replaces(t, f)  BY DEF Replaces, OnlyAdds, Adds
<1> QED  BY <1>1, WalkGoesOn

\* Steps of the components and of the broker.
LEMMA ComponentEvents ==
  ASSUME Shape, EventInv,
         \/ \E c \in Receivers : Associate(c) \/ Unpublish(c)
         \/ \E t \in Threads : \/ StoreHandler(t) \/ Published(t) \/ Free(t) \/ DestructorUnpublish(t)
  PROVE  EventInv'
<1>1. CASE \E c \in Receivers : Associate(c)
  <2>1. PICK c \in Receivers : Associate(c)  BY <1>1
  <2>2. Call("publish", c).call = "publish"  BY DEF Call
  <2>3. Shrinks /\ EmitsStay  BY <2>1, <2>2, AssociateShape, ThreadIs, CallMade
  <2>4. /\ life[c] = "new" /\ life' = [life EXCEPT ![c] = "associated"] /\ version' = version + 1
        /\ UNCHANGED <<otherVars, emitting, receivers_, receiver_handlers_, overlooked, handed>>
    BY <2>1 DEF Associate, refVars, eventVars
  <2>5. version' \in Nat /\ version <= version' /\ version' # version
    BY <2>4 DEF Shape, Fields
  <2>6. \A d \in Receivers : Older(life[d], life'[d])
    BY <2>4 DEF Shape, Fields, Lives, Older, Subscribed, Gone
  <2>7. LifeGoes  BY <2>4, <2>5, <2>6, PinsRest DEF LifeGoes
  <2> QED  BY <2>3, <2>4, <2>7, QuietStep
<1>2. CASE \E c \in Receivers : Unpublish(c)
  <2>1. PICK c \in Receivers : Unpublish(c)  BY <1>2
  <2>2. Shrinks /\ EmitsStay  BY <2>1, UnpublishShape, ThreadIs, CallMade, WalkIs
  <2>3. UNCHANGED <<life, version, otherVars, emitting, receivers_, receiver_handlers_, overlooked, handed>>
    BY <2>1 DEF Unpublish, refVars, eventVars, compVars, brokerVars, otherVars
  <2> QED  BY <2>2, <2>3, LifeRests, QuietStep
<1>3. CASE \E t \in Threads : StoreHandler(t)
  <2>1. PICK t \in Threads : StoreHandler(t)  BY <1>3
  <2>2. Shrinks /\ EmitsStay  BY <2>1, StoreHandlerShape DEF EmitsStay
  <2>3. /\ life[Top(t).of] = "associated" /\ life' = [life EXCEPT ![Top(t).of] = "subscribed"]
        /\ UNCHANGED <<version, otherVars, emitting, receivers_, receiver_handlers_, overlooked, handed>>
    BY <2>1 DEF StoreHandler, refVars, eventVars, brokerVars, otherVars
  <2>4. LifeGoes
    BY <2>3, PinsRest DEF Shape, Fields, Lives, LifeGoes, Older, Subscribed, Gone, Listed
  <2> QED  BY <2>2, <2>3, <2>4, QuietStep
<1>4. CASE \E t \in Threads : Published(t)
  <2>1. PICK t \in Threads : Published(t)  BY <1>4
  <2>2. Shrinks /\ EmitsStay  BY <2>1, PublishedShape, CallReturned
  <2>3. /\ life[Top(t).of] = "subscribed" /\ life' = [life EXCEPT ![Top(t).of] = "published"]
        /\ UNCHANGED <<version, otherVars, emitting, receivers_, receiver_handlers_, overlooked, handed>>
    BY <2>1 DEF Published, refVars, eventVars, brokerVars, otherVars
  <2>4. LifeGoes
    BY <2>3, PinsRest DEF Shape, Fields, Lives, LifeGoes, Older, Subscribed, Gone, Listed
  <2> QED  BY <2>2, <2>3, <2>4, QuietStep
<1>5. CASE \E t \in Threads : Free(t)
  <2>1. PICK t \in Threads : Free(t)  BY <1>5
  <2>2. Shrinks /\ EmitsStay  BY <2>1, FreeShape, CallReturned, CallTop
  <2>3. /\ life[Top(t).of] = "unpublished" /\ life' = [life EXCEPT ![Top(t).of] = "freed"]
        /\ UNCHANGED <<version, otherVars, emitting, receivers_, receiver_handlers_, overlooked, handed>>
    BY <2>1 DEF Free, refVars, eventVars, brokerVars, otherVars
  <2>4. LifeGoes
    BY <2>3, PinsRest DEF Shape, Fields, Lives, LifeGoes, Older, Subscribed, Gone, Listed
  <2> QED  BY <2>2, <2>3, <2>4, QuietStep
<1>6. CASE \E t \in Threads : DestructorUnpublish(t)
  <2>1. PICK t \in Threads : DestructorUnpublish(t)  BY <1>6
  <2>2. Shrinks /\ EmitsStay  BY <2>1, DestructorUnpublishShape, CallMade, WalkIs
  <2>3. UNCHANGED <<life, version, otherVars, emitting, receivers_, receiver_handlers_, overlooked, handed>>
    BY <2>1 DEF DestructorUnpublish, refVars, eventVars, compVars, brokerVars, otherVars
  <2> QED  BY <2>2, <2>3, LifeRests, QuietStep
<1> QED  BY <1>1, <1>2, <1>3, <1>4, <1>5, <1>6

\* A lookup of another reference keeps what the emission has found out.
LEMMA PinEvents ==
  ASSUME Shape, BrokerInv, EventInv, NEW o \in Others, Pin(o) \/ Unpin(o)
  PROVE  EventInv'
<1>1. /\ UNCHANGED <<list, version, life, emitting, stack>>
      /\ UNCHANGED <<receivers_, receiver_handlers_, overlooked, handed>>
  BY DEF Pin, Unpin, compVars, refVars, eventVars
<1>2. Shrinks /\ EmitsStay  BY <1>1, PinShape DEF EmitsStay
<1>3. \A c \in Range(list) : c \in Receivers /\ (Held(c) => life[c] \notin Gone)
  <2>1. Range(list) \subseteq Receivers  BY RangeIs DEF Shape, Fields
  <2>2. \A l \in Listed : l \notin Gone  BY DEF Listed, Gone
  <2> QED  BY <2>1, <2>2 DEF BrokerInv
<1>4. PinsGo
  <2>1. \A p \in Others : p # o => pinned'[p] = pinned[p] /\ pinnedList'[p] = pinnedList[p]
    BY DEF Pin, Unpin, Shape, Fields
  <2>2. pinned'[o] = None \/ pinnedList'[o] = list
    BY DEF Pin, Unpin, Shape, Fields
  <2> QED  BY <1>3, <2>1, <2>2 DEF PinsGo
<1>5. LifeGoes
  <2>1. \A c \in Receivers : Older(life[c], life'[c])
    BY <1>1 DEF Shape, Fields, Older, Lives, Subscribed, Gone
  <2>2. version' \in Nat /\ version <= version'  BY <1>1 DEF Shape, Fields
  <2> QED  BY <1>1, <1>4, <2>1, <2>2 DEF LifeGoes
<1> QED  BY <1>1, <1>2, <1>5, QuietStep

\* A walk's steps keep the emission's invariant.
LEMMA WalkEvents ==
  ASSUME Shape, EventInv, NEW t \in Threads, WalkLock(t) \/ WalkRelease(t) \/ WalkEnd(t)
  PROVE  EventInv'
<1>1. CASE WalkLock(t)
  <2>1. Shrinks /\ EmitsStay  BY <1>1, WalkLockShape, WalkGoesOnly
  <2>2. UNCHANGED <<life, version, otherVars, emitting, receivers_, receiver_handlers_, overlooked, handed>>
    BY <1>1 DEF WalkLock, refVars, eventVars, compVars, brokerVars, otherVars
  <2> QED  BY <2>1, <2>2, LifeRests, QuietStep
<1>2. CASE WalkRelease(t)
  <2>1. Shrinks /\ EmitsStay  BY <1>2, WalkReleaseShape, WalkGoesOn
  <2>2. UNCHANGED <<life, version, otherVars, emitting, receivers_, receiver_handlers_, overlooked, handed>>
    BY <1>2 DEF WalkRelease, refVars, eventVars, compVars, brokerVars, otherVars
  <2> QED  BY <2>1, <2>2, LifeRests, QuietStep
<1>3. CASE WalkEnd(t)
  <2>1. Shrinks /\ EmitsStay  BY <1>3, WalkEndShape, CallReturned, WalkTop
  <2>2. /\ life' = [life EXCEPT ![Top(t).of] = "unpublished"] /\ version' = version + 1
        /\ UNCHANGED <<otherVars, emitting, receivers_, receiver_handlers_, overlooked, handed>>
    BY <1>3 DEF WalkEnd, refVars, eventVars
  <2>3. version' \in Nat /\ version <= version' /\ version' # version
    BY <2>2 DEF Shape, Fields
  <2>4. \A d \in Receivers : Older(life[d], life'[d])
    BY <2>2 DEF Shape, Fields, Lives, Older, Subscribed, Gone
  <2>5. LifeGoes  BY <2>2, <2>3, <2>4, PinsRest DEF LifeGoes
  <2> QED  BY <2>1, <2>2, <2>5, QuietStep
<1> QED  BY <1>1, <1>2, <1>3

\* Steps of the executors, of the application and of an emission that ends.
LEMMA OtherEvents ==
  ASSUME Shape, EventInv,
         \/ \E t \in Threads : RunTask(t) \/ TaskReturns(t)
         \/ \E c \in Receivers : DropOwner(c)
         \/ DropEmitter \/ EmitReturns \/ UNCHANGED vars
  PROVE  EventInv'
<1>1. CASE \E t \in Threads : RunTask(t)
  <2>1. PICK t \in Threads : RunTask(t)  BY <1>1
  <2>2. Shrinks /\ (UNCHANGED stack \/ \E c \in Receivers : OnlyAdds(t, stack[t], Call("task", c)))
    BY <2>1, RunTaskShape
  <2>3. EmitsStay
    <3>1. CASE UNCHANGED stack  BY <3>1 DEF EmitsStay
    <3>2. CASE \E c \in Receivers : OnlyAdds(t, stack[t], Call("task", c))
      <4>1. \A c \in Receivers : Call("task", c).call = "task"  BY DEF Call
      <4> QED  BY <3>2, <4>1, CallMade
    <3> QED  BY <2>2, <3>1, <3>2
  <2>4. UNCHANGED <<life, version, otherVars, emitting, receivers_, receiver_handlers_, overlooked, handed>>
    BY <2>1 DEF RunTask, refVars, compVars, brokerVars, otherVars
  <2> QED  BY <2>2, <2>3, <2>4, LifeRests, QuietStep
<1>2. CASE \E t \in Threads : TaskReturns(t)
  <2>1. PICK t \in Threads : TaskReturns(t)  BY <1>2
  <2>2. Shrinks /\ EmitsStay  BY <2>1, TaskReturnsShape, CallReturned
  <2>3. UNCHANGED <<life, version, otherVars, emitting, receivers_, receiver_handlers_, overlooked, handed>>
    BY <2>1 DEF TaskReturns, refVars, eventVars, compVars, brokerVars, otherVars
  <2> QED  BY <2>2, <2>3, LifeRests, QuietStep
<1>3. CASE \E c \in Receivers : DropOwner(c)
  <2>1. PICK c \in Receivers : DropOwner(c)  BY <1>3
  <2>2. Shrinks /\ EmitsStay  BY <2>1, DropOwnerShape, SameStays
  <2>3. UNCHANGED <<life, version, otherVars, emitting, receivers_, receiver_handlers_, overlooked, handed>>
    BY <2>1 DEF DropOwner, refVars, eventVars, brokerVars, otherVars
  <2> QED  BY <2>2, <2>3, LifeRests, QuietStep
<1>4. CASE DropEmitter
  <2>1. Shrinks /\ OnlyAdds(Main, stack[Main], Call("forget", None))  BY <1>4, DropEmitterShape
  <2>2. Call("forget", None).call = "forget"  BY DEF Call
  <2>3. /\ UNCHANGED <<life, version, otherVars, receivers_, receiver_handlers_, overlooked, handed>>
        /\ ~emitting'
    BY <1>4 DEF DropEmitter, refVars, eventVars, brokerVars, otherVars
  <2>4. /\ \A f \in Range(stack'[Main]) : f.call = "emit" => f \in Range(stack[Main])
        /\ \A f \in Range(stack[Main]) : f \in Range(stack'[Main])
    BY <2>1, <2>2 DEF OnlyAdds, Adds
  <2>5. Fetching => Fetching'  BY <2>4 DEF Fetching
  <2> QED  BY <2>1, <2>3, <2>4, <2>5, LifeRests, EventQuiet
<1>5. CASE EmitReturns
  <2>1. Shrinks /\ Returned(Main)  BY <1>5, EmitReturnsShape
  <2>2. Emitting("dispatch") /\ stack[Main] # << >> /\ Top(Main).at = "dispatch"
    BY <1>5, EmitTop DEF EmitReturns
  <2>3. Range(stack[Main]) = Range(stack'[Main]) \cup {Top(Main)}  BY <2>1 DEF Returned
  <2>4. Fetching => Fetching'  BY <2>2, <2>3 DEF Fetching, Fetches
  <2>5. UNCHANGED <<life, version, otherVars, emitting, receivers_, receiver_handlers_, overlooked, handed>>
    BY <1>5 DEF EmitReturns, refVars, eventVars, compVars, brokerVars, otherVars
  <2> QED  BY <2>1, <2>3, <2>4, <2>5, LifeRests, EventQuiet
<1>6. CASE UNCHANGED vars
  <2>1. UNCHANGED <<life, version, otherVars, emitting, receivers_, receiver_handlers_, overlooked, handed, stack>>
    BY <1>6 DEF vars, otherVars
  <2>2. Shrinks /\ EmitsStay  BY <1>6, <2>1, ShapeStutter DEF EmitsStay
  <2> QED  BY <2>1, <2>2, LifeRests, QuietStep
<1> QED  BY <1>1, <1>2, <1>3, <1>4, <1>5, <1>6

\* The calls below the running one of an emission: emissions in handlers, spoiled if the
\* running one fills the vector, and of earlier events.
LEMMA Below ==
  ASSUME Shape, EventInv, NEW at, Emitting(at), NEW g \in Range(Front(stack[Main])), g.call = "emit"
  PROVE  /\ g \in EmitFrames /\ EmitInv(g) /\ g.at = "calling" /\ g.event # Top(Main).event
         /\ at \in Fetches => g.stale
<1>1. /\ Main \in Threads /\ stack[Main] # << >> /\ Top(Main) \in EmitFrames
      /\ Top(Main).call = "emit" /\ Top(Main).at = at
  BY EmitTop
<1>2. g \in Range(stack[Main]) /\ Over(g, Top(Main))  BY <1>1, TopIs DEF Shape
<1>3. g \in EmitFrames /\ EmitInv(g)  BY <1>1, <1>2, EmitFrameIs DEF EventInv
<1>4. g.event \in Nat /\ Top(Main).event \in Nat
  <2>1. \A e \in 1..sent : e \in Nat  BY DEF Shape, Fields
  <2> QED  BY <1>1, <1>3, <2>1, EmitIs
<1>5. g.at = "calling"  BY <1>1, <1>2 DEF Over, IsCode, InBroker
<1>6. g.event < Top(Main).event /\ (at \in Fetches => g.stale)  BY <1>1, <1>2 DEF Over
<1>7. g.event # Top(Main).event
  <2>1. \A m, n \in Nat : m < n => m # n  OBVIOUS
  <2> QED  BY <1>4, <1>6, <2>1
<1> QED  BY <1>3, <1>5, <1>6, <1>7

\* The running emission.
LEMMA Running ==
  ASSUME Shape, EventInv, NEW at, Emitting(at)
  PROVE  /\ Main \in Threads /\ stack[Main] # << >> /\ Top(Main) \in EmitFrames
         /\ Top(Main) \in Range(stack[Main])
         /\ Top(Main).call = "emit" /\ Top(Main).at = at /\ EmitInv(Top(Main))
<1>1. /\ Main \in Threads /\ stack[Main] # << >> /\ Top(Main) \in EmitFrames
      /\ Top(Main).call = "emit" /\ Top(Main).at = at
  BY EmitTop
<1>2. Top(Main) \in Range(stack[Main])  BY <1>1, TopIs DEF Shape
<1> QED  BY <1>1, <1>2 DEF EventInv

\* An emission goes on: what is left to show is about it and about the vector.
LEMMA EmissionGoes ==
  ASSUME Shape, EventInv, NEW at, Emitting(at), NEW f \in EmitFrames,
         OnlyAdds(Main, Front(stack[Main]), f), Shrinks, EmitInv(f)',
         UNCHANGED <<life, version, otherVars, emitting, receivers_>>, IsInjective(receiver_handlers_'),
         \A e : e = Top(Main).event \/ HandedSame(e),
         at \in Fetches \/ UNCHANGED <<receiver_handlers_, overlooked>>,
         f.at \in Fetches \/ CacheInv'
  PROVE  EventInv'
<1>1. /\ Main \in Threads /\ stack[Main] # << >> /\ Range(stack'[Main]) = Range(Front(stack[Main])) \cup {f}
      /\ Range(stack[Main]) = Range(Front(stack[Main])) \cup {Top(Main)}
      /\ Top(Main).call = "emit" /\ Top(Main).at = at /\ f.call = "emit"
  BY EmitTop, EmitIs, TopIs DEF OnlyAdds, Adds, Shape
<1>2. LifeGoes  BY LifeRests
<1>3. ASSUME NEW g \in Range(stack'[Main]), g.call = "emit" PROVE EmitInv(g)'
  <2>1. CASE g = f  BY <2>1
  <2>2. CASE g \in Range(Front(stack[Main]))
    <3>1. /\ g \in EmitFrames /\ EmitInv(g) /\ g.event # Top(Main).event
          /\ at \in Fetches => g.stale
      BY <1>3, <2>2, Below
    <3>2. HandedSame(g.event)  BY <3>1
    <3> QED  BY <1>2, <3>1, <3>2, EmitKept DEF EventInv, Shape
  <2> QED  BY <1>1, <2>1, <2>2
<1>4. CacheInv'
  <2>1. f.at \in Fetches => Fetching'  BY <1>1 DEF Fetching
  <2> QED  BY <2>1 DEF CacheInv
<1>5. RefInv'
  <2>1. \A g \in Range(stack'[Main]) : g.call = "forget" => g \in Range(stack[Main])
    BY <1>1
  <2> QED  BY <2>1 DEF RefInv, EventInv
<1> QED  BY <1>3, <1>4, <1>5 DEF EventInv

\* lock(): the list as it is now; if it has been replaced, what another lookup keeps of
\* it, or nothing.
LEMMA LockReceiversEvents ==
  ASSUME Shape, BrokerInv, PinInv, EventInv, LockReceivers
  PROVE  EventInv'
<1>1. /\ Emitting("fetched")
      /\ UNCHANGED <<life, version, otherVars, emitting, receivers_, receiver_handlers_, overlooked, handed>>
  BY DEF LockReceivers, brokerVars, compVars, refVars, eventVars
<1>2. /\ Shrinks
      /\ \E s \in Locked(receivers_), f \in EmitFrames :
            /\ OnlyAdds(Main, Front(stack[Main]), f)
            /\ f = [Top(Main) EXCEPT !.at = "clear", !.lost = receivers_ # version, !.snap = s]
  BY LockReceiversShape
<1>3. PICK w, f, s : /\ w = Top(Main) /\ s \in Locked(receivers_)
                     /\ f \in EmitFrames /\ OnlyAdds(Main, Front(stack[Main]), f)
                     /\ f = [w EXCEPT !.at = "clear", !.lost = receivers_ # version, !.snap = s]
  BY <1>2
<1>4. w \in EmitFrames /\ w.at = "fetched" /\ EmitInv(w)  BY <1>1, <1>3, Running
<1>5. BegunInv(w) /\ FetchInv(w)  BY <1>4 DEF EmitInv, Fetches
<1>6. /\ f.at = "clear" /\ f.lost = (receivers_ # version) /\ f.snap = s /\ f.i = w.i
      /\ f.stale = w.stale /\ f.event = w.event /\ f.begun = w.begun /\ f.old = w.old
  BY <1>3, <1>4 DEF EmitFrames
<1>7. \A e : HandedSame(e)  BY <1>1 DEF HandedSame
<1>8. BegunInv(f)'
  <2>1. BegunInv(f)  BY <1>5, <1>6 DEF BegunInv
  <2> QED  BY <1>1, <1>2, <1>7, <2>1, LifeRests, BegunKept
<1>9. /\ s \in Seq(Receivers)
      /\ receivers_ = version => s = list
      /\ receivers_ # version => s = << >> \/ \E o \in Keeping(receivers_) : s = pinnedList[o]
  BY <1>3, LockedIs DEF Shape
<1>10. \A c \in Receivers : life[c] \in Listed => f.begun[c] \notin Gone /\ life[c] \notin Gone
  BY <1>5, <1>6 DEF BegunInv, Older, Listed, Gone
<1>11. IsInjective(s)
  <2>1. \A o \in Keeping(receivers_) : IsInjective(pinnedList[o])  BY DEF PinInv, Keeping
  <2> QED  BY <1>9, <2>1, RangeEmpty DEF BrokerInv
<1>12. \A c \in Receivers : Held(c)' => Held(c)  BY <1>2 DEF Shrinks
<1>13. ASSUME NEW c \in Range(s), Held(c)'
       PROVE  f.begun[c] \notin Gone /\ (receivers_ = version => life[c] \notin Gone)
  <2>1. c \in Receivers /\ Held(c)  BY <1>9, <1>12, <1>13, RangeIs
  <2>2. CASE receivers_ = version
    <3>1. life[c] \in Listed  BY <1>9, <2>1, <2>2 DEF BrokerInv
    <3> QED  BY <1>10, <2>1, <3>1
  <2>3. CASE receivers_ # version
    <3>1. PICK o \in Keeping(receivers_) : s = pinnedList[o]  BY <1>9, <2>3, RangeEmpty
    <3> QED  BY <1>4, <1>5, <1>6, <2>1, <2>3, <3>1 DEF FetchInv
  <2> QED  BY <2>2, <2>3
<1>14. receivers_ = version => \A c \in Receivers : Held(c)' /\ life[c] \in Listed => c \in Range(s)
  BY <1>9, <1>12 DEF BrokerInv
<1>15. ~f.lost => Wanted(f)' \subseteq Range(s)
  BY <1>1, <1>6, <1>14 DEF Wanted, Subscribed, Listed
<1>16. FetchInv(f)'
  <2>1. f.i = 1 /\ ~f.stale /\ IsInjective(f.snap) /\ \A k \in DOMAIN handed' : handed'[k].event # f.event
    BY <1>1, <1>5, <1>6, <1>11 DEF FetchInv
  <2>2. receivers_' = version' => ~f.lost  BY <1>1, <1>6
  <2> QED  BY <1>1, <1>6, <1>13, <1>14, <1>15, <2>1, <2>2 DEF FetchInv
<1>17. EmitInv(f)'  BY <1>6, <1>8, <1>16 DEF EmitInv, Fetches
<1>18. IsInjective(receiver_handlers_')  BY <1>1 DEF EventInv, RefInv
<1> QED  BY <1>1, <1>2, <1>3, <1>6, <1>7, <1>17, <1>18, EmissionGoes DEF Fetches

\* clear(): the vector gets shorter; then it is empty, and nothing overlooks anybody.
LEMMA ClearEvents ==
  ASSUME Shape, EventInv, Clear
  PROVE  EventInv'
<1>1. /\ Emitting("clear")
      /\ UNCHANGED <<life, version, otherVars, emitting, receivers_, handed>>
  BY DEF Clear, brokerVars, otherVars, compVars, eventVars
<1>2. \A e : HandedSame(e)  BY <1>1 DEF HandedSame
<1>3. PICK w : w = Top(Main)  OBVIOUS
<1>4. w \in EmitFrames /\ w.at = "clear" /\ EmitInv(w) /\ w \in Range(stack[Main]) /\ w.call = "emit"
  BY <1>1, <1>3, Running
<1>5. LifeGoes /\ Shrinks  BY <1>1, LifeRests, ClearShape
<1>6. EmitInv(w)'
  BY <1>1, <1>2, <1>4, <1>5, EmitKept DEF EventInv, Shape
<1>7. CASE receiver_handlers_ = << >>
  <2>1. PICK f \in EmitFrames : /\ OnlyAdds(Main, Front(stack[Main]), f)
                                /\ f = [w EXCEPT !.at = "gather"]
    BY <1>3, <1>7, ClearShape
  <2>2. overlooked' = {} /\ receiver_handlers_' = << >>  BY <1>7 DEF Clear
  <2>3. /\ f.at = "gather" /\ f.lost = w.lost /\ f.snap = w.snap /\ f.i = w.i
        /\ f.stale = w.stale /\ f.event = w.event /\ f.begun = w.begun /\ f.old = w.old
    BY <1>4, <2>1 DEF EmitFrames
  <2>4. BegunInv(w)' /\ FetchInv(w)'  BY <1>4, <1>6 DEF EmitInv, Fetches
  <2>5. BegunInv(f)'  BY <2>3, <2>4 DEF BegunInv
  <2>6. Range(receiver_handlers_') = {} /\ IsInjective(receiver_handlers_')
    BY <2>2, RangeEmpty
  <2>7. Wanted(f)' = Wanted(w)'  BY <2>3 DEF Wanted
  <2>8. FetchInv(f)'  BY <1>4, <2>2, <2>3, <2>4, <2>6, <2>7 DEF FetchInv
  <2>9. EmitInv(f)'  BY <2>3, <2>5, <2>8 DEF EmitInv, Fetches
  <2> QED  BY <1>1, <1>2, <1>5, <2>1, <2>3, <2>6, <2>9, EmissionGoes DEF Fetches
<1>8. CASE receiver_handlers_ # << >>
  <2>1. Same({"emit", "walk", "task", "publish", "forget"})  BY <1>8, ClearShape
  <2>2. EmitsStay  BY <2>1, SameStays
  <2>3. IsInjective(receiver_handlers_')
    <3>1. receiver_handlers_ \in Seq(Receivers)  BY DEF Shape, Fields
    <3>2. IsInjective(receiver_handlers_)  BY DEF EventInv, RefInv
    <3>3. receiver_handlers_' = Tail(receiver_handlers_)  BY <1>8 DEF Clear
    <3> QED  BY <1>8, <3>1, <3>2, <3>3, TailIs
  <2>4. Fetching'  BY <1>4, <2>2 DEF Fetching, EmitsStay, Fetches
  <2>5. ASSUME NEW g \in Range(stack'[Main]), g.call = "emit" PROVE EmitInv(g)'
    <3>1. g \in Range(stack[Main])  BY <2>2, <2>5 DEF EmitsStay
    <3>2. CASE g = w  BY <1>6, <3>2
    <3>3. CASE g \in Range(Front(stack[Main]))
      <4>1. g \in EmitFrames /\ EmitInv(g) /\ g.stale
        BY <1>1, <2>5, <3>3, Below DEF Fetches
      <4>2. HandedSame(g.event)  BY <1>2
      <4> QED  BY <1>1, <1>5, <4>1, <4>2, EmitKept DEF EventInv, Shape
    <3>4. Range(stack[Main]) = Range(Front(stack[Main])) \cup {w}
      BY <1>1, <1>3, Running, TopIs DEF Shape
    <3> QED  BY <3>1, <3>2, <3>3, <3>4
  <2>6. RefInv'  BY <1>1, <2>2, <2>3 DEF EventInv, RefInv, EmitsStay
  <2>7. CacheInv'  BY <2>4 DEF CacheInv
  <2> QED  BY <2>5, <2>6, <2>7 DEF EventInv
<1> QED  BY <1>7, <1>8

\* The loop that fills the vector: it takes in who is on the rest of the list, held and
\* with a handler; when the rest is empty the emission goes over what it has gathered.
LEMMA GatherEvents ==
  ASSUME Shape, EventInv, Gather
  PROVE  EventInv'
<1>1. /\ Emitting("gather")
      /\ UNCHANGED <<life, version, otherVars, emitting, receivers_, handed>>
  BY DEF Gather, brokerVars, otherVars, compVars, eventVars
<1>2. \A e : HandedSame(e)  BY <1>1 DEF HandedSame
<1>3. PICK w, f : /\ w = Top(Main) /\ f \in EmitFrames /\ OnlyAdds(Main, Front(stack[Main]), f)
                  /\ f = IF w.snap = << >> THEN [w EXCEPT !.at = "dispatch"]
                         ELSE [w EXCEPT !.snap = Tail(w.snap)]
  BY GatherShape
<1>4. /\ w \in EmitFrames /\ w.at = "gather" /\ EmitInv(w)
      /\ w.snap \in Seq(Receivers) /\ w.lost \in BOOLEAN /\ w.stale \in BOOLEAN
  BY <1>1, <1>3, Running, EmitIs
<1>5. LifeGoes /\ Shrinks  BY <1>1, LifeRests, GatherShape
<1>6. BegunInv(w) /\ FetchInv(w)  BY <1>4 DEF EmitInv, Fetches
<1>7. BegunInv(w)'  BY <1>2, <1>5, <1>6, BegunKept
<1>8. Wanted(w)' \subseteq Wanted(w)  BY <1>5, <1>6, WantedKept DEF BegunInv
<1>9. receiver_handlers_ \in Seq(Receivers) /\ IsInjective(receiver_handlers_)
  BY DEF EventInv, RefInv, Shape, Fields
<1>10. CASE w.snap = << >>
  <2>1. UNCHANGED <<receiver_handlers_, overlooked>>  BY <1>3, <1>10 DEF Gather
  <2>2. /\ f.at = "dispatch" /\ f.lost = w.lost /\ f.snap = << >> /\ f.i = w.i
        /\ f.stale = w.stale /\ f.event = w.event /\ f.begun = w.begun /\ f.old = w.old
    BY <1>3, <1>4, <1>10 DEF EmitFrames
  <2>3. Range(w.snap) = {}  BY <1>10, RangeEmpty
  <2>4. BegunInv(f)'  BY <1>7, <2>2 DEF BegunInv
  <2>5. Wanted(f)' = Wanted(w)'  BY <2>2 DEF Wanted
  <2>6. f.i = 1 /\ ~f.stale /\ Passed(f) = 0 /\ 1..Passed(f) = {}
    BY <1>6, <2>2 DEF FetchInv, Passed
  <2>7. f.i <= Len(receiver_handlers_') + 1
    <3>1. Len(receiver_handlers_) \in Nat  BY <1>9, RangeIs
    <3>2. \A n \in Nat : 1 <= n + 1  OBVIOUS
    <3> QED  BY <2>1, <2>6, <3>1, <3>2
  <2>8. /\ \A c \in Range(receiver_handlers_') : f.begun[c] \notin Gone
        /\ ~f.lost => Wanted(f)' \ overlooked' \subseteq Range(receiver_handlers_')
        /\ \A k \in DOMAIN handed' : handed'[k].event # f.event
    BY <1>1, <1>4, <1>6, <1>8, <2>1, <2>2, <2>3, <2>5 DEF FetchInv
  <2>9. DispatchInv(f)'  BY <2>2, <2>6, <2>7, <2>8 DEF DispatchInv
  <2>10. EmitInv(f)'  BY <2>2, <2>4, <2>9 DEF EmitInv, Fetches
  <2>11. CacheInv'
    <3>1. receivers_ = version =>
            /\ \A c \in Range(receiver_handlers_) : life[c] \notin Gone
            /\ \A c \in Receivers : Held(c) /\ life[c] \in Listed =>
                   c \in Range(receiver_handlers_) \cup overlooked
      BY <1>4, <1>6, <2>3 DEF FetchInv
    <3> QED  BY <1>1, <1>5, <2>1, <3>1 DEF CacheInv, Shrinks
  <2>12. IsInjective(receiver_handlers_')  BY <1>9, <2>1
  <2> QED  BY <1>1, <1>2, <1>3, <1>5, <2>10, <2>11, <2>12, EmissionGoes DEF Fetches
<1>11. CASE w.snap # << >>
  <2>1. PICK c, r : c = Head(w.snap) /\ r = Tail(w.snap)  OBVIOUS
  <2>2. /\ receiver_handlers_' = IF Held(c) /\ HasHandler(c)
                                 THEN Append(receiver_handlers_, c) ELSE receiver_handlers_
        /\ overlooked' = IF Held(c) /\ ~HasHandler(c) THEN overlooked \cup {c} ELSE overlooked
    BY <1>3, <1>11, <2>1 DEF Gather
  <2>3. c \in Receivers /\ Range(w.snap) = Range(r) \cup {c} /\ IsInjective(r) /\ c \notin Range(r)
    BY <1>4, <1>6, <1>11, <2>1, TailIs DEF FetchInv
  <2>4. /\ f.at = "gather" /\ f.lost = w.lost /\ f.snap = r /\ f.i = w.i
        /\ f.stale = w.stale /\ f.event = w.event /\ f.begun = w.begun /\ f.old = w.old
    BY <1>3, <1>4, <1>11, <2>1 DEF EmitFrames
  <2>5. c \notin Range(receiver_handlers_)  BY <1>4, <1>6, <2>3 DEF FetchInv
  <2>6. /\ Range(Append(receiver_handlers_, c)) = Range(receiver_handlers_) \cup {c}
        /\ IsInjective(Append(receiver_handlers_, c))
    BY <1>9, <2>3, <2>5, AppendIs
  <2>7. /\ Range(receiver_handlers_') = IF Held(c) /\ HasHandler(c)
                                        THEN Range(receiver_handlers_) \cup {c}
                                        ELSE Range(receiver_handlers_)
        /\ IsInjective(receiver_handlers_')
    BY <1>9, <2>2, <2>6
  <2>8. BegunInv(f)'  BY <1>7, <2>4 DEF BegunInv
  <2>9. Wanted(f)' = Wanted(w)'  BY <2>4 DEF Wanted
  <2>10. c \in Wanted(w) => Held(c) /\ HasHandler(c)  BY DEF Wanted, HasHandler, Subscribed
  <2>11. Range(r) \cap Range(receiver_handlers_') = {}
    BY <1>4, <1>6, <2>3, <2>7 DEF FetchInv
  <2>12. \A d \in Range(receiver_handlers_') : f.begun[d] \notin Gone
    BY <1>4, <1>6, <2>3, <2>4, <2>7 DEF FetchInv
  <2>13. ~f.lost => Wanted(f)' \subseteq Range(r) \cup Range(receiver_handlers_')
    <3>1. ~w.lost => Wanted(w) \subseteq Range(w.snap) \cup Range(receiver_handlers_)
      BY <1>4, <1>6 DEF FetchInv
    <3> QED  BY <1>8, <2>3, <2>4, <2>7, <2>9, <2>10, <3>1
  <2>14. \A d \in Receivers : Held(d)' => Held(d)  BY <1>5 DEF Shrinks
  <2>15. Range(w.snap) \subseteq Receivers  BY <1>4, RangeIs
  <2>16. receivers_ = version =>
            /\ ~f.lost
            /\ \A d \in Range(r) : Held(d)' => life[d] \notin Gone
            /\ \A d \in Range(receiver_handlers_') : life[d] \notin Gone
            /\ \A d \in Receivers : Held(d)' /\ life[d] \in Listed =>
                   d \in Range(r) \cup Range(receiver_handlers_') \cup overlooked'
    <3> SUFFICES ASSUME receivers_ = version
                 PROVE  /\ ~f.lost
                        /\ \A d \in Range(r) : Held(d)' => life[d] \notin Gone
                        /\ \A d \in Range(receiver_handlers_') : life[d] \notin Gone
                        /\ \A d \in Receivers : Held(d)' /\ life[d] \in Listed =>
                               d \in Range(r) \cup Range(receiver_handlers_') \cup overlooked'
      OBVIOUS
    <3>1. /\ ~w.lost
          /\ \A d \in Range(w.snap) : Held(d) => life[d] \notin Gone
          /\ \A d \in Range(receiver_handlers_) : life[d] \notin Gone
          /\ \A d \in Receivers : Held(d) /\ life[d] \in Listed =>
                 d \in Range(w.snap) \cup Range(receiver_handlers_) \cup overlooked
      BY <1>4, <1>6 DEF FetchInv
    <3>2. \A d \in Range(r) : Held(d)' => life[d] \notin Gone
      BY <2>3, <2>14, <2>15, <3>1
    <3>3. \A d \in Range(receiver_handlers_') : life[d] \notin Gone
      BY <2>3, <2>7, <3>1
    <3>4. ASSUME NEW d \in Receivers, Held(d)', life[d] \in Listed
          PROVE  d \in Range(r) \cup Range(receiver_handlers_') \cup overlooked'
      BY <2>2, <2>3, <2>7, <2>14, <3>1, <3>4
    <3> QED  BY <2>4, <3>1, <3>2, <3>3, <3>4
  <2>17. \A d \in Range(r) : Held(d)' => f.begun[d] \notin Gone
    BY <1>4, <1>6, <2>3, <2>4, <2>14, <2>15 DEF FetchInv
  <2>18. f.i = 1 /\ ~f.stale /\ \A k \in DOMAIN handed' : handed'[k].event # f.event
    BY <1>1, <1>6, <2>4 DEF FetchInv
  <2>19. FetchInv(f)'
    BY <1>1, <2>3, <2>4, <2>11, <2>12, <2>13, <2>16, <2>17, <2>18 DEF FetchInv
  <2>20. EmitInv(f)'  BY <2>4, <2>8, <2>19 DEF EmitInv, Fetches
  <2> QED  BY <1>1, <1>2, <1>3, <1>5, <2>4, <2>7, <2>20, EmissionGoes DEF Fetches
<1> QED  BY <1>10, <1>11

\* What is appended to the history, and what is before it.
LEMMA HandedIs ==
  ASSUME handed \in Seq(Handovers), NEW h \in Handovers, handed' = Append(handed, h)
  PROVE  /\ Len(handed) \in Nat /\ DOMAIN handed = 1..Len(handed)
         /\ DOMAIN handed' = 1..(Len(handed) + 1)
         /\ handed'[Len(handed) + 1] = h
         /\ \A k \in DOMAIN handed : k \in DOMAIN handed' /\ handed'[k] = handed[k] /\ k < Len(handed) + 1
         /\ \A k \in DOMAIN handed' : k \in DOMAIN handed \/ k = Len(handed) + 1
         /\ \A e : e = h.event \/ HandedSame(e)
<1>1. /\ handed' \in Seq(Handovers) /\ Len(handed') = Len(handed) + 1
      /\ handed'[Len(handed) + 1] = h
      /\ \A k \in 1..Len(handed) : handed'[k] = handed[k]
  BY AppendProperties
<1>2. Len(handed) \in Nat /\ DOMAIN handed = 1..Len(handed) /\ DOMAIN handed' = 1..(Len(handed) + 1)
  BY <1>1, RangeIs
<1>3. PICK n \in Nat : n = Len(handed)  BY <1>2
<1>4. /\ \A k \in 1..n : k \in 1..(n + 1) /\ k < n + 1
      /\ \A k \in 1..(n + 1) : k \in 1..n \/ k = n + 1
  OBVIOUS
<1>5. /\ \A k \in DOMAIN handed : k \in DOMAIN handed' /\ handed'[k] = handed[k] /\ k < n + 1
      /\ \A k \in DOMAIN handed' : k \in DOMAIN handed \/ k = n + 1
      /\ handed'[n + 1] = h
  BY <1>1, <1>2, <1>3, <1>4
<1>6. \A e : e = h.event \/ HandedSame(e)
  BY <1>5 DEF HandedSame
<1> QED  BY <1>1, <1>2, <1>3, <1>5, <1>6

\* The receiver the loop has got to is given the event, and nobody of those before it
\* is the same.
LEMMA HandOver ==
  ASSUME Shape, EventInv, Emitting("dispatch"), LifeGoes, Shrinks,
         UNCHANGED <<receivers_, receiver_handlers_, overlooked>>, NEW c \in Receivers, NEW f \in EmitFrames,
         Top(Main).i \in 1..Len(receiver_handlers_), c = receiver_handlers_[Top(Main).i],
         handed' = Handed(c),
         f.event = Top(Main).event, f.begun = Top(Main).begun, f.lost = Top(Main).lost,
         f.snap = Top(Main).snap, f.stale = Top(Main).stale,
         \/ f.at = "calling" /\ f.i = Top(Main).i /\ f.to = c
         \/ f.at = "dispatch" /\ f.i = Top(Main).i + 1,
         f.old = Top(Main).old
  PROVE  EmitInv(f)' /\ \A e : e = Top(Main).event \/ HandedSame(e)
<1>1. PICK w, h, n : /\ w = Top(Main) /\ n = Len(handed) + 1
                     /\ h = [event |-> w.event, to |-> c]
  OBVIOUS
<1>2. /\ w \in EmitFrames /\ w.at = "dispatch" /\ EmitInv(w) /\ w.event \in 1..sent
      /\ w.i \in Nat \ {0}
  BY <1>1, Running, EmitIs
<1>3. h \in Handovers /\ h.event = w.event /\ h.to = c /\ handed' = Append(handed, h)
  BY <1>1, <1>2 DEF Handovers, Handed
<1>4. /\ Len(handed) \in Nat /\ DOMAIN handed = 1..Len(handed)
      /\ n \in DOMAIN handed' /\ n \notin DOMAIN handed /\ handed'[n] = h
      /\ \A k \in DOMAIN handed : k \in DOMAIN handed' /\ handed'[k] = handed[k]
      /\ \A k \in DOMAIN handed' : k \in DOMAIN handed \/ k = n
      /\ \A e : e = h.event \/ HandedSame(e)
  <2>1. handed \in Seq(Handovers)  BY DEF Shape, Fields
  <2>2. /\ Len(handed) \in Nat /\ DOMAIN handed = 1..Len(handed)
        /\ DOMAIN handed' = 1..(Len(handed) + 1)
        /\ handed'[n] = h
        /\ \A k \in DOMAIN handed : k \in DOMAIN handed' /\ handed'[k] = handed[k] /\ k < Len(handed) + 1
        /\ \A k \in DOMAIN handed' : k \in DOMAIN handed \/ k = n
        /\ \A e : e = h.event \/ HandedSame(e)
    BY <1>1, <1>3, <2>1, HandedIs
  <2>3. \A m \in Nat : m + 1 \in 1..(m + 1) /\ m + 1 \notin 1..m  OBVIOUS
  <2>4. n \in DOMAIN handed' /\ n \notin DOMAIN handed  BY <1>1, <2>2, <2>3
  <2> QED  BY <2>2, <2>4
<1>5. BegunInv(w) /\ DispatchInv(w) /\ ~w.stale  BY <1>2 DEF EmitInv, Fetches, DispatchInv
<1>6. /\ receiver_handlers_ \in Seq(Receivers) /\ IsInjective(receiver_handlers_)
      /\ Len(receiver_handlers_) \in Nat
      /\ DOMAIN receiver_handlers_ = 1..Len(receiver_handlers_) /\ c \in Range(receiver_handlers_)
  BY RangeIs DEF EventInv, RefInv, Shape, Fields
<1>7. \A d \in Receivers : Older(f.begun[d], life'[d])
  <2>1. \A d \in Receivers : Older(f.begun[d], life[d])  BY <1>1, <1>5 DEF BegunInv
  <2> QED  BY <2>1, WantedKept
<1>8. ASSUME NEW k \in DOMAIN handed', handed'[k].event = f.event
      PROVE  ~f.old => f.begun[handed'[k].to] \notin Gone
  <2>1. CASE k \in DOMAIN handed
    <3>1. handed'[k] = handed[k] /\ handed[k].event = w.event  BY <1>1, <1>4, <1>8, <2>1
    <3> QED  BY <1>1, <1>5, <2>1, <3>1 DEF BegunInv
  <2>2. CASE k = n
    <3>1. ~f.old => f.begun[c] \notin Gone  BY <1>1, <1>5, <1>6 DEF DispatchInv
    <3> QED  BY <1>1, <1>3, <1>4, <2>2, <3>1
  <2> QED  BY <1>4, <2>1, <2>2
<1>9. BegunInv(f)'  BY <1>7, <1>8 DEF BegunInv
<1>10. PICK i : i = w.i  OBVIOUS
<1>11. /\ i \in 1..Len(receiver_handlers_) /\ i \in DOMAIN receiver_handlers_
       /\ c = receiver_handlers_[i] /\ Passed(w) = i - 1 /\ Passed(f) = i
       /\ \A j \in 1..i : j \in DOMAIN receiver_handlers_ /\ (j \in 1..(i - 1) \/ j = i)
       /\ \A j \in 1..(i - 1) : j \in 1..i /\ j # i /\ j \in DOMAIN receiver_handlers_
       /\ i \in 1..i /\ i + 1 <= Len(receiver_handlers_) + 1
  <2>1. i \in Nat /\ i # 0 /\ i \in 1..Len(receiver_handlers_)  BY <1>1, <1>2, <1>10
  <2>2. Passed(w) = i - 1  BY <1>2, <1>10 DEF Passed
  <2>3. Passed(f) = i
    <3>1. \A m \in Nat : (m + 1) - 1 = m  OBVIOUS
    <3> QED  BY <1>1, <1>10, <2>1, <3>1 DEF Passed
  <2>4. PICK m \in Nat : m = Len(receiver_handlers_)  BY <1>6
  <2>5. i \in 1..m  BY <2>1, <2>4
  <2>6. /\ \A j \in 1..i : j \in 1..m /\ (j \in 1..(i - 1) \/ j = i)
        /\ \A j \in 1..(i - 1) : j \in 1..i /\ j # i /\ j \in 1..m
        /\ i \in 1..i /\ i + 1 <= m + 1
    BY <2>1, <2>5
  <2> QED  BY <1>1, <1>6, <1>10, <2>1, <2>2, <2>3, <2>4, <2>6
<1>12. \A k \in DOMAIN handed : handed[k].event = w.event =>
           \E j \in 1..(i - 1) : receiver_handlers_[j] = handed[k].to
  BY <1>5, <1>11 DEF DispatchInv
<1>13. \A k \in DOMAIN handed : handed[k].event = w.event => handed[k].to # c
  <2> SUFFICES ASSUME NEW k \in DOMAIN handed, handed[k].event = w.event PROVE handed[k].to # c
    OBVIOUS
  <2>1. PICK j \in 1..(i - 1) : receiver_handlers_[j] = handed[k].to  BY <1>12
  <2>2. j \in DOMAIN receiver_handlers_ /\ j # i  BY <1>11
  <2> QED  BY <1>6, <1>11, <2>1, <2>2 DEF IsInjective
<1>14. \A j \in 1..i : Once(w.event, receiver_handlers_[j])'
  <2> SUFFICES ASSUME NEW j \in 1..i PROVE Once(w.event, receiver_handlers_[j])'  OBVIOUS
  <2>1. PICK d : d = receiver_handlers_[j]  OBVIOUS
  <2>2. CASE j = i
    <3>1. \A l \in DOMAIN handed' : Given(w.event, d, l)' <=> l = n
      <4> SUFFICES ASSUME NEW l \in DOMAIN handed' PROVE Given(w.event, d, l)' <=> l = n
        OBVIOUS
      <4>1. d = c  BY <1>11, <2>1, <2>2
      <4>2. CASE l \in DOMAIN handed
        <5>1. handed'[l] = handed[l] /\ l # n  BY <1>4, <4>2
        <5>2. ~(handed[l].event = w.event /\ handed[l].to = c)  BY <1>13, <4>2
        <5> QED  BY <4>1, <5>1, <5>2 DEF Given
      <4>3. CASE l = n
        <5>1. handed'[l].event = w.event /\ handed'[l].to = c  BY <1>3, <1>4, <4>3
        <5> QED  BY <4>1, <4>3, <5>1 DEF Given
      <4> QED  BY <1>4, <4>2, <4>3
    <3>2. Once(w.event, d)'  BY <1>4, <3>1 DEF Once
    <3> QED  BY <2>1, <3>2
  <2>3. CASE j \in 1..(i - 1)
    <3>1. Once(w.event, d)  BY <1>5, <1>11, <2>1, <2>3 DEF DispatchInv
    <3>2. PICK k \in DOMAIN handed : \A l \in DOMAIN handed : Given(w.event, d, l) <=> l = k
      BY <3>1 DEF Once
    <3>3. d # c
      <4>1. j \in DOMAIN receiver_handlers_ /\ j # i  BY <1>11, <2>3
      <4> QED  BY <1>6, <1>11, <2>1, <4>1 DEF IsInjective
    <3>4. \A l \in DOMAIN handed' : Given(w.event, d, l)' <=> l = k
      <4> SUFFICES ASSUME NEW l \in DOMAIN handed' PROVE Given(w.event, d, l)' <=> l = k  OBVIOUS
      <4>1. CASE l \in DOMAIN handed  BY <1>4, <3>2, <4>1 DEF Given
      <4>2. CASE l = n  BY <1>3, <1>4, <3>2, <3>3, <4>2 DEF Given
      <4> QED  BY <1>4, <4>1, <4>2
    <3>5. Once(w.event, d)'  BY <1>4, <3>2, <3>4 DEF Once
    <3> QED  BY <2>1, <3>5
  <2> QED  BY <1>11, <2>2, <2>3
<1>15. \A k \in DOMAIN handed' : handed'[k].event = w.event =>
           \E j \in 1..i : receiver_handlers_[j] = handed'[k].to
  <2> SUFFICES ASSUME NEW k \in DOMAIN handed', handed'[k].event = w.event
               PROVE  \E j \in 1..i : receiver_handlers_[j] = handed'[k].to
    OBVIOUS
  <2>1. CASE k \in DOMAIN handed
    <3>1. handed'[k] = handed[k] /\ handed[k].event = w.event  BY <1>4, <2>1
    <3>2. PICK j \in 1..(i - 1) : receiver_handlers_[j] = handed[k].to  BY <1>12, <2>1, <3>1
    <3>3. j \in 1..i  BY <1>11
    <3> QED  BY <3>1, <3>2, <3>3
  <2>2. CASE k = n
    <3>1. handed'[k].to = c  BY <1>3, <1>4, <2>2
    <3>2. i \in 1..i /\ receiver_handlers_[i] = c  BY <1>11
    <3> QED  BY <3>1, <3>2
  <2> QED  BY <1>4, <2>1, <2>2
<1>16. Wanted(f)' \subseteq Wanted(w)
  <2>1. Wanted(w)' \subseteq Wanted(w)  BY <1>5, WantedKept DEF BegunInv
  <2>2. Wanted(f)' = Wanted(w)'  BY <1>1 DEF Wanted
  <2> QED  BY <2>1, <2>2
<1>17. DispatchInv(f)'
  <2>1. f.event = w.event /\ f.snap = w.snap /\ f.stale = w.stale /\ f.lost = w.lost /\ f.begun = w.begun
        /\ f.old = w.old
    BY <1>1
  <2>2. f.snap = << >> /\ ~f.stale  BY <1>5, <2>1 DEF DispatchInv
  <2>3. /\ f.at = "dispatch" => f.i <= Len(receiver_handlers_') + 1
        /\ f.at = "calling" => f.i \in DOMAIN receiver_handlers_' /\ f.to = receiver_handlers_'[f.i]
    BY <1>1, <1>10, <1>11
  <2>4. /\ ~f.old => \A d \in Range(receiver_handlers_') : f.begun[d] \notin Gone
        /\ ~f.lost /\ ~f.old => Wanted(f)' \ overlooked' \subseteq Range(receiver_handlers_')
    BY <1>5, <1>16, <2>1 DEF DispatchInv
  <2>5. \A j \in 1..Passed(f) : Once(f.event, receiver_handlers_[j])'
    BY <1>11, <1>14, <2>1
  <2>6. \A k \in DOMAIN handed' : handed'[k].event = f.event =>
              \E j \in 1..Passed(f) : receiver_handlers_'[j] = handed'[k].to
    BY <1>11, <1>15, <2>1
  <2> QED  BY <2>2, <2>3, <2>4, <2>5, <2>6 DEF DispatchInv, Passed
<1>18. f.at \notin Fetches  BY DEF Fetches
<1>19. EmitInv(f)'  BY <1>9, <1>17, <1>18 DEF EmitInv
<1> QED  BY <1>1, <1>3, <1>4, <1>19

\* Calling a handler, and enqueueing a task for one.
LEMMA InvokeEvents ==
  ASSUME Shape, EventInv, Invoke
  PROVE  EventInv'
<1>1. /\ Emitting("dispatch") /\ mutual_executor(Receiver) /\ handed' = Handed(Receiver)
      /\ UNCHANGED <<life, version, otherVars, emitting, receivers_, receiver_handlers_, overlooked>>
  BY DEF Invoke, Dispatching, brokerVars, otherVars, compVars, refVars
<1>2. /\ Shrinks /\ Receiver \in Receivers /\ Top(Main).i \in 1..Len(receiver_handlers_)
      /\ \E f \in EmitFrames : /\ OnlyAdds(Main, Front(stack[Main]), f)
            /\ f = [Top(Main) EXCEPT !.at = "calling", !.to = Receiver]
  BY InvokeShape
<1>3. PICK w, c, f : /\ w = Top(Main) /\ c = Receiver /\ f \in EmitFrames
                     /\ OnlyAdds(Main, Front(stack[Main]), f)
                     /\ f = [w EXCEPT !.at = "calling", !.to = c]
  BY <1>2
<1>4. w \in EmitFrames  BY <1>1, <1>3, Running
<1>5. /\ f.at = "calling" /\ f.to = c /\ f.i = w.i /\ f.event = w.event /\ f.begun = w.begun
      /\ f.lost = w.lost /\ f.snap = w.snap /\ f.stale = w.stale /\ f.old = w.old
  BY <1>3, <1>4 DEF EmitFrames
<1>6. c \in Receivers /\ c = receiver_handlers_[Top(Main).i] /\ handed' = Handed(c) /\ mutual_executor(c)
  BY <1>1, <1>2, <1>3 DEF Receiver
<1>7. LifeGoes  BY <1>1, LifeRests
<1>8. EmitInv(f)' /\ \A e : e = Top(Main).event \/ HandedSame(e)
  <2>1. /\ f.event = Top(Main).event /\ f.begun = Top(Main).begun /\ f.lost = Top(Main).lost
        /\ f.snap = Top(Main).snap /\ f.stale = Top(Main).stale
        /\ f.at = "calling" /\ f.i = Top(Main).i /\ f.to = c
    BY <1>3, <1>5
  <2>2. f.old = Top(Main).old  BY <1>3, <1>5
  <2>3. /\ UNCHANGED <<receivers_, receiver_handlers_, overlooked>> /\ Shrinks /\ f \in EmitFrames
        /\ Top(Main).i \in 1..Len(receiver_handlers_)
    BY <1>1, <1>2, <1>3
  <2> QED  BY <1>1, <1>6, <1>7, <2>1, <2>2, <2>3, HandOver
<1>9. IsInjective(receiver_handlers_')  BY <1>1 DEF EventInv, RefInv
<1>10. CacheInv'
  <2>1. Fetching => Fetching'
    <3>1. Top(Main).at = "dispatch" /\ Range(stack[Main]) = Range(Front(stack[Main])) \cup {Top(Main)}
      BY <1>1, Running, TopIs DEF Shape
    <3> QED  BY <1>3, <3>1 DEF Fetching, OnlyAdds, Adds, Fetches
  <2> QED  BY <1>1, <1>2, <1>7, <2>1, CacheKept DEF EventInv, Shape
<1> QED  BY <1>1, <1>2, <1>3, <1>8, <1>9, <1>10, EmissionGoes

\* A task handed to another executor keeps the emission's invariant.
LEMMA EnqueueEvents ==
  ASSUME Shape, EventInv, Enqueue
  PROVE  EventInv'
<1>1. /\ Emitting("dispatch") /\ handed' = Handed(Receiver)
      /\ UNCHANGED <<life, version, otherVars, emitting, receivers_, receiver_handlers_, overlooked>>
  BY DEF Enqueue, Dispatching, brokerVars, otherVars, compVars, refVars
<1>2. /\ Shrinks /\ Receiver \in Receivers /\ Top(Main).i \in 1..Len(receiver_handlers_)
      /\ \E f \in EmitFrames : /\ OnlyAdds(Main, Front(stack[Main]), f)
            /\ f = [Top(Main) EXCEPT !.i = Top(Main).i + 1]
  BY EnqueueShape
<1>3. PICK w, c, f : /\ w = Top(Main) /\ c = Receiver /\ f \in EmitFrames
                     /\ OnlyAdds(Main, Front(stack[Main]), f)
                     /\ f = [w EXCEPT !.i = w.i + 1]
  BY <1>2
<1>4. w \in EmitFrames /\ w.at = "dispatch"  BY <1>1, <1>3, Running
<1>5. /\ f.at = "dispatch" /\ f.i = w.i + 1 /\ f.event = w.event /\ f.begun = w.begun
      /\ f.lost = w.lost /\ f.snap = w.snap /\ f.stale = w.stale /\ f.old = w.old
  BY <1>3, <1>4 DEF EmitFrames
<1>6. c \in Receivers /\ c = receiver_handlers_[Top(Main).i] /\ handed' = Handed(c)
  BY <1>1, <1>2, <1>3 DEF Receiver
<1>7. LifeGoes  BY <1>1, LifeRests
<1>8. EmitInv(f)' /\ \A e : e = Top(Main).event \/ HandedSame(e)
  <2>1. /\ f.event = Top(Main).event /\ f.begun = Top(Main).begun /\ f.lost = Top(Main).lost
        /\ f.snap = Top(Main).snap /\ f.stale = Top(Main).stale
        /\ f.at = "dispatch" /\ f.i = Top(Main).i + 1
    BY <1>3, <1>5
  <2>2. f.old = Top(Main).old  BY <1>3, <1>5
  <2>3. /\ UNCHANGED <<receivers_, receiver_handlers_, overlooked>> /\ Shrinks /\ f \in EmitFrames
        /\ Top(Main).i \in 1..Len(receiver_handlers_)
    BY <1>1, <1>2, <1>3
  <2> QED  BY <1>1, <1>6, <1>7, <2>1, <2>2, <2>3, HandOver
<1>9. IsInjective(receiver_handlers_')  BY <1>1 DEF EventInv, RefInv
<1>10. CacheInv'
  <2>1. Fetching => Fetching'
    <3>1. Top(Main).at = "dispatch" /\ Range(stack[Main]) = Range(Front(stack[Main])) \cup {Top(Main)}
      BY <1>1, Running, TopIs DEF Shape
    <3> QED  BY <1>3, <3>1 DEF Fetching, OnlyAdds, Adds, Fetches
  <2> QED  BY <1>1, <1>2, <1>7, <2>1, CacheKept DEF EventInv, Shape
<1> QED  BY <1>1, <1>2, <1>3, <1>8, <1>9, <1>10, EmissionGoes

\* The handler returns, and the loop goes on with the next receiver.
LEMMA InvokeReturnsEvents ==
  ASSUME Shape, EventInv, InvokeReturns
  PROVE  EventInv'
<1>1. /\ Emitting("calling")
      /\ UNCHANGED <<life, version, otherVars, emitting, receivers_, receiver_handlers_, overlooked, handed>>
  BY DEF InvokeReturns, brokerVars, otherVars, compVars, refVars, eventVars
<1>2. LifeGoes /\ Shrinks  BY <1>1, LifeRests, InvokeReturnsShape
<1>3. CASE Top(Main).stale
  <2>1. UNCHANGED stack  BY <1>3, InvokeReturnsShape
  <2>2. EmitsStay  BY <2>1 DEF EmitsStay
  <2> QED  BY <1>1, <1>2, <2>2, QuietStep
<1>4. CASE ~Top(Main).stale
  <2>1. PICK w, f : /\ w = Top(Main) /\ f \in EmitFrames /\ OnlyAdds(Main, Front(stack[Main]), f)
                    /\ f = [w EXCEPT !.at = "dispatch", !.i = w.i + 1, !.to = None]
    BY <1>4, InvokeReturnsShape
  <2>2. /\ w \in EmitFrames /\ w.at = "calling" /\ EmitInv(w) /\ ~w.stale /\ w.i \in Nat \ {0}
    BY <1>1, <1>4, <2>1, Running, EmitIs
  <2>3. /\ f.at = "dispatch" /\ f.i = w.i + 1 /\ f.event = w.event /\ f.begun = w.begun
        /\ f.lost = w.lost /\ f.snap = w.snap /\ f.stale = w.stale /\ f.old = w.old
    BY <2>1, <2>2 DEF EmitFrames
  <2>4. \A e : HandedSame(e)  BY <1>1 DEF HandedSame
  <2>5. EmitInv(w)'
    BY <1>1, <1>2, <2>2, <2>4, EmitKept DEF EventInv, Shape
  <2>6. BegunInv(w)' /\ DispatchInv(w)'  BY <2>2, <2>5 DEF EmitInv, Fetches
  <2>7. BegunInv(f)'  BY <2>3, <2>6 DEF BegunInv
  <2>8. Passed(f) = Passed(w)
    <3>1. \A m \in Nat : (m + 1) - 1 = m  OBVIOUS
    <3> QED  BY <2>2, <2>3, <3>1 DEF Passed
  <2>9. f.i <= Len(receiver_handlers_') + 1
    <3>1. w.i \in DOMAIN receiver_handlers_'  BY <2>2, <2>6 DEF DispatchInv
    <3>2. DOMAIN receiver_handlers_' = 1..Len(receiver_handlers_') /\ Len(receiver_handlers_') \in Nat
      BY <1>1, RangeIs DEF Shape, Fields
    <3>3. PICK m \in Nat : m = Len(receiver_handlers_')  BY <3>2
    <3>4. w.i \in 1..m  BY <3>1, <3>2, <3>3
    <3>5. w.i + 1 <= m + 1  BY <3>4
    <3> QED  BY <2>3, <3>3, <3>5
  <2>10. Wanted(f)' = Wanted(w)'  BY <2>3 DEF Wanted
  <2>11. DispatchInv(f)'
    <3>1. /\ \A j \in 1..Passed(w) : Once(w.event, receiver_handlers_[j])'
          /\ \A k \in DOMAIN handed' : handed'[k].event = w.event =>
                 \E j \in 1..Passed(w) : receiver_handlers_'[j] = handed'[k].to
      BY <2>2, <2>6 DEF DispatchInv, Passed
    <3>2. /\ \A j \in 1..Passed(f) : Once(f.event, receiver_handlers_[j])'
          /\ \A k \in DOMAIN handed' : handed'[k].event = f.event =>
                 \E j \in 1..Passed(f) : receiver_handlers_'[j] = handed'[k].to
      BY <2>3, <2>8, <3>1
    <3>3. /\ w.snap = << >>
          /\ ~w.old => \A c \in Range(receiver_handlers_') : w.begun[c] \notin Gone
          /\ ~w.lost /\ ~w.old => Wanted(w)' \ overlooked' \subseteq Range(receiver_handlers_')
      BY <2>2, <2>6 DEF DispatchInv
    <3> QED  BY <2>2, <2>3, <2>9, <2>10, <3>2, <3>3 DEF DispatchInv, Passed
  <2>12. EmitInv(f)'  BY <2>3, <2>7, <2>11 DEF EmitInv, Fetches
  <2>13. IsInjective(receiver_handlers_')  BY <1>1 DEF EventInv, RefInv
  <2>14. CacheInv'
    <3>1. Fetching => Fetching'
      <4>1. Top(Main).at = "calling" /\ Range(stack[Main]) = Range(Front(stack[Main])) \cup {Top(Main)}
        BY <1>1, Running, TopIs DEF Shape
      <4> QED  BY <2>1, <4>1 DEF Fetching, OnlyAdds, Adds, Fetches
    <3> QED  BY <1>1, <1>2, <3>1, CacheKept DEF EventInv, Shape
  <2> QED  BY <1>1, <1>2, <2>1, <2>4, <2>12, <2>13, <2>14, EmissionGoes
<1> QED  BY <1>3, <1>4

\* An event is not given to anybody before it is emitted.
LEMMA NoneYet ==
  ASSUME Shape
  PROVE  \A k \in DOMAIN handed : handed[k].event # sent + 1
<1>1. /\ handed \in Seq(Handovers) /\ sent \in Nat  BY DEF Shape, Fields
<1>2. \A k \in DOMAIN handed : handed[k] \in Handovers  BY <1>1, RangeIs DEF Range
<1>3. \A k \in DOMAIN handed : handed[k].event \in 1..sent  BY <1>2 DEF Handovers
<1>4. \A e \in 1..sent : e # sent + 1  BY <1>1
<1> QED  BY <1>3, <1>4

\* Emissions begin in code of the application.
LEMMA InCode ==
  ASSUME Shape, EventInv, RunsCode(Main)
  PROVE  /\ ~Fetching
         /\ \A g \in Range(stack[Main]) :
               /\ g.call # "forget"
               /\ g.call = "emit" => g \in EmitFrames /\ g.at = "calling" /\ EmitInv(g)
<1>1. \A g \in Range(stack[Main]) : IsCode(g)  BY EventAssumption, CodeBelow DEF Shape
<1>2. \A g \in Range(stack[Main]) : g.call # "forget" /\ (g.call = "emit" => g.at = "calling")
  BY <1>1 DEF IsCode
<1>3. \A g \in Range(stack[Main]) : g.call = "emit" => g \in EmitFrames /\ EmitInv(g)
  BY EventAssumption, EmitFrameIs DEF EventInv
<1> QED  BY <1>2, <1>3 DEF Fetching, Fetches

\* An emission over the cached vector.
LEMMA EmitCachedEvents ==
  ASSUME Shape, EventInv, EmitCached
  PROVE  EventInv'
<1>1. /\ RunsCode(Main) /\ emitting /\ Hit /\ sent < MaxEvents /\ sent' = sent + 1
      /\ UNCHANGED <<life, version, otherVars, emitting, receivers_, receiver_handlers_, overlooked, handed>>
  BY DEF EmitCached, MayEmit, brokerVars, otherVars, compVars, refVars
<1>2. PICK f : f = Emission("dispatch", sent + 1)  OBVIOUS
<1>3. Shrinks /\ OnlyAdds(Main, stack[Main], f)  BY <1>2, EmitCachedShape
<1>4. /\ f.call = "emit" /\ f.at = "dispatch" /\ f.event = sent + 1 /\ f.i = 1 /\ f.snap = << >>
      /\ f.begun = life /\ ~f.lost /\ ~f.stale
      /\ f.old <=> receivers_ # version /\ Keeping(receivers_) # {}
  BY <1>1, <1>2, NewEmission
<1>5. LifeGoes  BY <1>1, LifeRests
<1>6. \A e : HandedSame(e)  BY <1>1 DEF HandedSame
<1>7. ~Fetching  BY <1>1, InCode
<1>8. ~f.old =>
      /\ \A c \in Range(receiver_handlers_) : life[c] \notin Gone
      /\ \A c \in Receivers : Held(c) /\ life[c] \in Listed =>
             c \in Range(receiver_handlers_) \cup overlooked
  BY <1>1, <1>4, <1>7 DEF EventInv, CacheInv, Hit
<1>9. \A k \in DOMAIN handed' : handed'[k].event # f.event  BY <1>1, <1>4, NoneYet
<1>10. BegunInv(f)'
  <2>1. \A c \in Receivers : Older(f.begun[c], life'[c])
    BY <1>1, <1>4, <1>5 DEF LifeGoes
  <2> QED  BY <1>9, <2>1 DEF BegunInv
<1>11. DispatchInv(f)'
  <2>1. Passed(f) = 0 /\ 1..Passed(f) = {}  BY <1>4 DEF Passed
  <2>2. f.i <= Len(receiver_handlers_') + 1
    <3>1. Len(receiver_handlers_) \in Nat  BY RangeIs DEF Shape, Fields
    <3>2. \A n \in Nat : 1 <= n + 1  OBVIOUS
    <3> QED  BY <1>1, <1>4, <3>1, <3>2
  <2>3. ~f.old => \A c \in Range(receiver_handlers_') : f.begun[c] \notin Gone  BY <1>1, <1>4, <1>8
  <2>4. ~f.old => Wanted(f)' \ overlooked' \subseteq Range(receiver_handlers_')
    <3>1. \A c \in Receivers : Held(c)' => Held(c)  BY <1>3 DEF Shrinks
    <3> QED  BY <1>1, <1>4, <1>8, <3>1 DEF Wanted, Subscribed, Listed
  <2> QED  BY <1>4, <1>9, <2>1, <2>2, <2>3, <2>4 DEF DispatchInv
<1>12. EmitInv(f)'  BY <1>4, <1>10, <1>11 DEF EmitInv, Fetches
<1>13. Range(stack'[Main]) = Range(stack[Main]) \cup {f}  BY <1>3 DEF OnlyAdds, Adds
<1>14. ASSUME NEW g \in Range(stack'[Main]), g.call = "emit" PROVE EmitInv(g)'
  <2>1. CASE g = f  BY <1>12, <2>1
  <2>2. CASE g \in Range(stack[Main])
    <3>1. g \in EmitFrames /\ EmitInv(g)  BY <1>1, <1>14, <2>2, InCode
    <3>2. HandedSame(g.event)  BY <1>6
    <3> QED  BY <1>1, <1>3, <1>5, <3>1, <3>2, EmitKept DEF EventInv, Shape
  <2> QED  BY <1>13, <2>1, <2>2
<1>15. CacheInv'  BY <1>1, <1>3, <1>5, <1>7, CacheKept DEF EventInv, Shape
<1>16. RefInv'
  <2>1. \A g \in Range(stack'[Main]) : g.call = "forget" => g \in Range(stack[Main])
    BY <1>4, <1>13
  <2> QED  BY <1>1, <1>5, <2>1, RefKept DEF EventInv, Shape
<1> QED  BY <1>14, <1>15, <1>16 DEF EventInv

\* An emission that fetches the list: the vector will change under those around it.
LEMMA EmitFetchEvents ==
  ASSUME Shape, BrokerInv, PinInv, EventInv, EmitFetch
  PROVE  EventInv'
<1>1. /\ RunsCode(Main) /\ sent < MaxEvents /\ sent' = sent + 1 /\ receivers_' = version
      /\ UNCHANGED <<life, version, otherVars, emitting, receiver_handlers_, overlooked, handed>>
  BY DEF EmitFetch, MayEmit, brokerVars, otherVars, compVars
<1>2. PICK f : f = Emission("fetched", sent + 1)  OBVIOUS
<1>3. Shrinks /\ Range(stack'[Main]) = {Spoil(g) : g \in Range(stack[Main])} \cup {f}
  BY <1>2, EmitFetchShape
<1>4. /\ f.call = "emit" /\ f.at = "fetched" /\ f.event = sent + 1 /\ f.i = 1 /\ f.snap = << >>
      /\ f.begun = life /\ ~f.lost /\ ~f.stale
  BY <1>1, <1>2, NewEmission
<1>5. LifeGoes  BY <1>1, LifeRests
<1>6. \A e : HandedSame(e)  BY <1>1 DEF HandedSame
<1>7. \A k \in DOMAIN handed' : handed'[k].event # f.event  BY <1>1, <1>4, NoneYet
<1>8. EmitInv(f)'
  <2>1. \A c \in Receivers : Older(f.begun[c], life'[c])
    BY <1>1, <1>4, <1>5 DEF LifeGoes
  <2>2. BegunInv(f)'  BY <1>7, <2>1 DEF BegunInv
  <2>4. ASSUME NEW o \in Keeping(receivers_)', NEW c \in Range(pinnedList'[o]), Held(c)'
        PROVE  f.begun[c] \notin Gone
    <3>1. o \in Others /\ pinned[o] = version /\ pinned[o] # None /\ c \in Range(pinnedList[o])
      BY <1>1, <2>4 DEF Keeping, otherVars
    <3>2. c \in Range(list) /\ list \in Seq(Receivers)  BY <3>1 DEF PinInv, Shape, Fields
    <3>3. c \in Receivers  BY <3>2, RangeIs
    <3>4. Held(c)  BY <1>3, <2>4, <3>3 DEF Shrinks
    <3>5. life[c] \in Listed  BY <3>2, <3>3, <3>4 DEF BrokerInv
    <3> QED  BY <1>4, <3>5 DEF Listed, Gone
  <2>3. FetchInv(f)'  BY <1>4, <1>7, <2>4, RangeEmpty DEF FetchInv
  <2> QED  BY <1>4, <2>2, <2>3 DEF EmitInv, Fetches
<1>9. \A g \in Range(stack[Main]) : g \in AnyFrames
  BY EventAssumption, RangeIs, FramesAny DEF Shape, Stacked, Stacks
<1>10. ASSUME NEW g \in Range(stack'[Main]), g.call = "emit" PROVE EmitInv(g)'
  <2>1. CASE g = f  BY <1>8, <2>1
  <2>2. CASE \E h \in Range(stack[Main]) : g = Spoil(h)
    <3>1. PICK h \in Range(stack[Main]) : g = Spoil(h)  BY <2>2
    <3>2. h.call = "emit" /\ g = [h EXCEPT !.stale = TRUE]
      BY <1>9, <1>10, <3>1, SpoilIs
    <3>3. h \in EmitFrames /\ h.at = "calling" /\ EmitInv(h)
      BY <1>1, <3>2, InCode
    <3>4. /\ g.at = "calling" /\ g.event = h.event /\ g.begun = h.begun /\ g.old = h.old
          /\ g.snap = h.snap /\ g.stale
      BY <3>2, <3>3 DEF EmitFrames
    <3>5. BegunInv(h) /\ DispatchInv(h)  BY <3>3 DEF EmitInv, Fetches
    <3>6. HandedSame(h.event)  BY <1>6
    <3>7. BegunInv(h)'  BY <1>3, <1>5, <3>5, <3>6, BegunKept
    <3>8. BegunInv(g)'  BY <3>4, <3>7 DEF BegunInv
    <3>9. DispatchInv(g)'  BY <3>4, <3>5 DEF DispatchInv
    <3> QED  BY <3>4, <3>8, <3>9 DEF EmitInv, Fetches
  <2> QED  BY <1>3, <2>1, <2>2
<1>11. CacheInv'
  <2>1. Fetching'  BY <1>3, <1>4 DEF Fetching, Fetches
  <2> QED  BY <2>1 DEF CacheInv
<1>12. RefInv'
  <2>1. receivers_' <= version'  BY <1>1 DEF Shape, Fields
  <2>2. \A g \in Range(stack'[Main]) : g.call # "forget"
    BY <1>1, <1>3, <1>4, <1>9, InCode, SpoilIs
  <2> QED  BY <1>1, <2>1, <2>2 DEF RefInv, EventInv
<1> QED  BY <1>10, <1>11, <1>12 DEF EventInv

\* The end of the emitter.
LEMMA ForgetEvents ==
  ASSUME Shape, EventInv, Forget
  PROVE  EventInv'
<1>1. /\ Main \in Threads /\ stack[Main] # << >> /\ Top(Main).call = "forget"
      /\ UNCHANGED <<version, emitting>>
  BY EventAssumption DEF Forget, Calling, Top, brokerVars, otherVars, compVars
<1>2. Range(stack[Main]) = {Top(Main)}
  <2>1. /\ Range(stack[Main]) = Range(Front(stack[Main])) \cup {Top(Main)}
        /\ \A g \in Range(Front(stack[Main])) : Over(g, Top(Main))
    BY <1>1, TopIs DEF Shape
  <2>2. \A g : ~Over(g, Top(Main))  BY <1>1 DEF Over, InBroker
  <2> QED  BY <2>1, <2>2
<1>3. ~emitting'  BY <1>1, <1>2 DEF EventInv, RefInv
<1>4. \A g \in Range(stack'[Main]) : g.call # "emit"
  <2>1. \/ Returned(Main) \/ Same({"emit", "walk", "task", "publish", "forget"})
    BY ForgetShape
  <2>2. \A g \in Range(stack'[Main]) : g.call = "emit" => g \in Range(stack[Main])
    BY <1>1, <2>1 DEF Returned, Same
  <2> QED  BY <1>1, <1>2, <2>2
<1>5. /\ receivers_' # None => receivers_' <= version'
      /\ IsInjective(receiver_handlers_')
  <2>1. CASE receiver_handlers_ = << >>
    BY <1>1, <2>1, RangeEmpty DEF Forget, EventInv, RefInv
  <2>2. CASE receiver_handlers_ # << >>
    <3>1. receiver_handlers_ \in Seq(Receivers)  BY DEF Shape, Fields
    <3>2. IsInjective(receiver_handlers_) /\ (receivers_ # None => receivers_ <= version)
      BY DEF EventInv, RefInv
    <3>3. /\ receiver_handlers_' = Tail(receiver_handlers_)
          /\ UNCHANGED receivers_ /\ UNCHANGED version
      BY <1>1, <2>2 DEF Forget, brokerVars, otherVars
    <3>4. IsInjective(Tail(receiver_handlers_))  BY <2>2, <3>1, <3>2, TailIs
    <3> QED  BY <3>2, <3>3, <3>4
  <2> QED  BY <2>1, <2>2
<1> QED  BY <1>3, <1>4, <1>5 DEF EventInv, RefInv, CacheInv

\* The emission's invariant holds at the start, when no reference holds a list.
LEMMA EventInit == Init => EventInv
<1> SUFFICES ASSUME Init PROVE EventInv  OBVIOUS
<1>1. Range(stack[Main]) = {}  BY EventAssumption, RangeEmpty DEF Init
<1>2. RefInv  BY <1>1, RangeEmpty DEF Init, RefInv
<1>3. CacheInv  BY NoneIs DEF Init, CacheInv
<1> QED  BY <1>1, <1>2, <1>3 DEF EventInv

\* Every step keeps it.
LEMMA EventNext == Shape /\ BrokerInv /\ PinInv /\ EventInv /\ [Next]_vars => EventInv'
<1> SUFFICES ASSUME Shape, BrokerInv, PinInv, EventInv, [Next]_vars PROVE EventInv'  OBVIOUS
<1>1. ASSUME ~crashed, Choice PROVE EventInv'
  BY <1>1, EmitCachedEvents, EmitFetchEvents, ComponentEvents, OtherEvents, PinEvents DEF Choice
<1>2. ASSUME NEW t \in Threads, Step(t) PROVE EventInv'
  <2>1. CASE StoreHandler(t) \/ Published(t) \/ Free(t) \/ DestructorUnpublish(t)
    BY <2>1, ComponentEvents
  <2>2. CASE WalkLock(t) \/ WalkRelease(t) \/ WalkEnd(t)  BY <2>2, WalkEvents
  <2>3. CASE RunTask(t) \/ TaskReturns(t) \/ EmitReturns  BY <2>3, OtherEvents
  <2>4. CASE LockReceivers \/ Clear \/ Gather
    BY <2>4, LockReceiversEvents, ClearEvents, GatherEvents
  <2>5. CASE Invoke \/ Enqueue \/ InvokeReturns \/ Forget
    BY <2>5, InvokeEvents, EnqueueEvents, InvokeReturnsEvents, ForgetEvents
  <2> QED  BY <1>2, <2>1, <2>2, <2>3, <2>4, <2>5 DEF Step, Goes
<1> QED  BY <1>1, <1>2, OtherEvents DEF Next

\* The inductive invariant, throughout.
IInv == Shape /\ BrokerInv /\ PinInv /\ EventInv

\* The whole invariant, put together from the steps above.
LEMMA InvAlways == SafeSpec => []IInv
<1>1. Init => IInv  BY ShapeInit, BrokerInit, PinInit, EventInit DEF IInv
<1>2. IInv /\ [Next]_vars => IInv'  BY ShapeNext, BrokerNext, PinNext, EventNext DEF IInv
<1> QED  BY <1>1, <1>2, PTL DEF SafeSpec

\* The fields have their types, and no receiver that the application or the cached
\* vector holds is destroyed; an emission whose vector was not filled anew under it is
\* in the handler of the receiver it has got to (event::operator(), poly_ref_base).
THEOREM TypeCorrect == SafeSpec => []TypeOK
<1>1. IInv => TypeOK
  <2> SUFFICES ASSUME IInv PROVE TypeOK  OBVIOUS
  <2>1. \A k \in DOMAIN handed : handed[k].event \in 1..sent /\ handed[k].to \in Receivers
    <3>1. \A k \in DOMAIN handed : handed[k] \in Handovers
      BY RangeIs DEF Range, IInv, Shape, Fields
    <3> QED  BY <3>1 DEF Handovers
  <2>2. \A c \in owned \cup Range(receiver_handlers_) : life[c] # "freed"
    <3> SUFFICES ASSUME NEW c \in owned \cup Range(receiver_handlers_) PROVE life[c] # "freed"
      OBVIOUS
    <3>1. Held(c)  BY HeldIs
    <3>2. c \in Receivers  BY RangeIs DEF IInv, Shape, Fields
    <3> QED  BY <3>1, <3>2 DEF IInv, Shape, Dead
  <2>3. \A f \in Range(stack[Main]) : f.call = "emit" /\ f.at = "calling" /\ ~f.stale =>
            f.i \in DOMAIN receiver_handlers_ /\ f.to = receiver_handlers_[f.i]
    BY DEF IInv, EventInv, EmitInv, DispatchInv, Fetches
  <2> QED  BY <2>1, <2>2, <2>3 DEF TypeOK, IInv, Shape, Fields
<1> QED  BY <1>1, InvAlways, PTL

\* A receiver whose unpublish_dependencies() has returned gets no event emitted after
\* that, unless the emission found the vector of a replaced list that another reference's
\* lookup kept (component_base.h, poly_ref.h).
THEOREM NothingAfterUnpublish == SafeSpec => []NotAfterUnpublish
<1>1. IInv => NotAfterUnpublish
  BY DEF IInv, EventInv, EmitInv, BegunInv, Gone, NotAfterUnpublish
<1> QED  BY <1>1, InvAlways, PTL

\* An emission that ends has given its event, once, to everyone who was subscribed all
\* the time and is not among those the cached list was gathered without, unless the list
\* was replaced as it was fetched or only another lookup kept it (event.h).
THEOREM AllReached == SafeSpec => ReachesSubscribers
<1>1. ASSUME IInv, EmitReturns, ~Top(Main).lost, ~Top(Main).old, NEW c \in Receivers \ overlooked,
             Held(c), {Top(Main).begun[c], life[c]} \subseteq {"subscribed", "published"}
      PROVE  \E k \in DOMAIN handed : \A l \in DOMAIN handed :
                 handed[l].event = Top(Main).event /\ handed[l].to = c <=> l = k
  <2>1. PICK w : w = Top(Main)  OBVIOUS
  <2>2. Emitting("dispatch") /\ w.i > Len(receiver_handlers_)  BY <1>1, <2>1 DEF EmitReturns
  <2>3. w \in EmitFrames /\ w.at = "dispatch" /\ EmitInv(w) /\ w.i \in Nat \ {0}
    BY <1>1, <2>1, <2>2, Running, EmitIs DEF IInv
  <2>4. DispatchInv(w) /\ ~w.stale  BY <2>3 DEF EmitInv, Fetches, DispatchInv
  <2>5. c \in Wanted(w)  BY <1>1, <2>1 DEF Wanted, Subscribed
  <2>6. c \in Range(receiver_handlers_)  BY <1>1, <2>1, <2>4, <2>5 DEF DispatchInv
  <2>7. PICK j \in 1..Len(receiver_handlers_) : receiver_handlers_[j] = c
    BY <1>1, <2>6, RangeIs DEF IInv, Shape, Fields
  <2>8. j \in 1..Passed(w)
    <3>1. Len(receiver_handlers_) \in Nat  BY <1>1, RangeIs DEF IInv, Shape, Fields
    <3>2. \A m, i \in Nat : i > m => 1..m \subseteq 1..(i - 1)  OBVIOUS
    <3> QED  BY <2>2, <2>3, <2>7, <3>1, <3>2 DEF Passed
  <2>9. Once(w.event, c)  BY <2>4, <2>7, <2>8 DEF DispatchInv
  <2> QED  BY <2>1, <2>9 DEF Once, Given
<1>2. IInv /\ [Next]_vars =>
        [EmitReturns /\ ~Top(Main).lost /\ ~Top(Main).old =>
            \A c \in Receivers \ overlooked :
                Held(c) /\ {Top(Main).begun[c], life[c]} \subseteq {"subscribed", "published"} =>
                    \E k \in DOMAIN handed : \A l \in DOMAIN handed :
                        handed[l].event = Top(Main).event /\ handed[l].to = c <=> l = k]_vars
  BY <1>1
<1> QED  BY <1>2, InvAlways, PTL DEF SafeSpec, ReachesSubscribers
=============================================================================

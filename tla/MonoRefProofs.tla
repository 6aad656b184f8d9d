---------------------------- MODULE MonoRefProofs ----------------------------
(* Proofs about MonoRef for any number of components, messages and            *)
(* references, any wiring of them and any bound on the filters. RefInv says,  *)
(* of a lookup in each of its places, what it has read and how far that may   *)
(* be out of date: the argument is that a list the broker replaces never      *)
(* becomes current again (VersionsGrow), so whoever still points to the       *)
(* current list has seen all that was changed with a replacement.             *)
EXTENDS MonoRef, TLAPS

Attached(r) == receivers_[r] = version[Msg[r]]

\* A lookup is made while the application holds the component.
BusyOwned(r) == pc[r] # "idle" => Owner[r] \in owned

\* A reference points to a list the broker has had.
VersionsGrow(r) == receivers_[r] # None => receivers_[r] <= version[Msg[r]]

\* The list a lookup has read is the current one, while it points to it.
SnapIsCurrent(r) == Holds(r) /\ Attached(r) => snap[r] = active_lookups_[Msg[r]]

\* The receiver is the only one of the list that was read.
OnlyReceiver(r) == pc[r] \in {"located", "resolved"} =>
    receiver_[r] \in Components /\ snap[r] = {receiver_[r]}

\* The handler is the receiver's, with the filters the broker knows of.
ResolvedIsCurrent(r) == pc[r] = "resolved" =>
    \E n \in 0..MaxFilters :
        /\ handler_[r] = <<receiver_[r], n>>
        /\ Attached(r) /\ <<receiver_[r], Msg[r]>> \notin filtering
             => n = filters[receiver_[r]][Msg[r]]

\* CacheIsCurrent, of the fields themselves.
IdleIsCurrent(r) == \A c \in Components :
    /\ pc[r] = "idle" /\ handler_[r] # None /\ Attached(r)
    /\ active_lookups_[Msg[r]] = {c} /\ Held(c) /\ <<c, Msg[r]>> \notin filtering
    => handler_[r] = <<c, filters[c][Msg[r]]>> /\ receiver_[r] = c

\* Until a lookup has taken a receiver, the handler goes with the old one.
HandlerGoesWithReceiver(r) ==
    pc[r] \in {"idle", "fetched", "listed"} /\ handler_[r] # None /\ receiver_[r] # None
        => handler_[r][1] = receiver_[r]

RefInv(r) == /\ BusyOwned(r) /\ VersionsGrow(r) /\ SnapIsCurrent(r) /\ OnlyReceiver(r)
             /\ ResolvedIsCurrent(r) /\ IdleIsCurrent(r) /\ HandlerGoesWithReceiver(r)

\* Nobody holds a component that was destroyed, so it cannot be held again.
FreedNotHeld == \A c \in Components : life[c] = "freed" => ~Held(c)

IInv == /\ TypeOK
        /\ \A r \in Refs : RefInv(r)
        /\ FreedNotHeld
        /\ ListedWhilePublished
-----------------------------------------------------------------------------
\* A reference no step touches, while the broker and the components stay and
\* components are at most let go of.
LEMMA OtherRef ==
  ASSUME TypeOK, NEW s \in Refs, RefInv(s),
         UNCHANGED <<brokerVars, owned, filters, filtering>>,
         handler_'[s] = handler_[s], receivers_'[s] = receivers_[s],
         receiver_'[s] = receiver_[s], pc'[s] = pc[s], snap'[s] = snap[s],
         \A c \in Components : Held(c)' => Held(c)
  PROVE  RefInv(s)'
<1>1. BusyOwned(s)' /\ VersionsGrow(s)'
  BY DEF RefInv, BusyOwned, VersionsGrow, brokerVars
<1>2. SnapIsCurrent(s)' /\ OnlyReceiver(s)'
  BY DEF RefInv, SnapIsCurrent, OnlyReceiver, Holds, Attached, brokerVars
<1>3. ResolvedIsCurrent(s)'
  BY DEF RefInv, ResolvedIsCurrent, Attached, brokerVars
<1>4. IdleIsCurrent(s)'
  BY DEF RefInv, IdleIsCurrent, Attached, brokerVars
<1>5. HandlerGoesWithReceiver(s)'
  BY DEF RefInv, HandlerGoesWithReceiver
<1> QED  BY <1>1, <1>2, <1>3, <1>4, <1>5 DEF RefInv

\* What a component does to the references' view of the world: a list stays or
\* is replaced, and a handler changes only while a filter is being prepended.
LEMMA RefsUntouched ==
  ASSUME TypeOK, NEW r \in Refs, RefInv(r),
         UNCHANGED refVars, owned' \subseteq owned, BusyOwned(r)',
         \A m \in Messages :
            \/ version'[m] = version[m] /\ active_lookups_'[m] = active_lookups_[m]
            \/ version'[m] = version[m] + 1,
         \A c \in Components, m \in Messages :
            \/ <<c, m>> \in filtering'
            \/ version'[m] = version[m] + 1
            \/ <<c, m>> \notin filtering /\ filters'[c][m] = filters[c][m]
  PROVE  RefInv(r)' /\ \A c \in Components : Held(c)' => Held(c)
<1> USE MonoRefAssumption
<1>1. \A c \in Components : Held(c)' => Held(c)
  BY DEF Held, refVars
<1>2. /\ Msg[r] \in Messages
      /\ version[Msg[r]] \in Nat
      /\ receivers_[r] \in Nat \cup {None}
  BY DEF TypeOK
<1>3. VersionsGrow(r)'
  BY <1>2 DEF RefInv, VersionsGrow, refVars
<1>4. Attached(r)' => /\ Attached(r)
                      /\ version'[Msg[r]] # version[Msg[r]] + 1
                      /\ active_lookups_'[Msg[r]] = active_lookups_[Msg[r]]
  <2> SUFFICES ASSUME Attached(r)' PROVE version'[Msg[r]] # version[Msg[r]] + 1
    BY <1>2 DEF Attached, refVars
  <2>1. receivers_[r] <= version[Msg[r]] \/ receivers_[r] = None
    BY DEF RefInv, VersionsGrow
  <2> QED  BY <1>2, <2>1 DEF Attached, refVars
<1>5. SnapIsCurrent(r)' /\ OnlyReceiver(r)'
  BY <1>4 DEF RefInv, SnapIsCurrent, OnlyReceiver, Holds, refVars
<1>6. ResolvedIsCurrent(r)'
  <2> SUFFICES ASSUME pc[r] = "resolved" PROVE ResolvedIsCurrent(r)'
    BY DEF ResolvedIsCurrent, refVars
  <2>1. receiver_[r] \in Components  BY DEF RefInv, OnlyReceiver
  <2>2. PICK n \in 0..MaxFilters :
          /\ handler_[r] = <<receiver_[r], n>>
          /\ Attached(r) /\ <<receiver_[r], Msg[r]>> \notin filtering
               => n = filters[receiver_[r]][Msg[r]]
    BY DEF RefInv, ResolvedIsCurrent
  <2>3. Attached(r)' /\ <<receiver_[r], Msg[r]>> \notin filtering'
          => n = filters'[receiver_[r]][Msg[r]]
    BY <1>2, <1>4, <2>1, <2>2
  <2> QED  BY <2>2, <2>3 DEF ResolvedIsCurrent, refVars
<1>7. IdleIsCurrent(r)'
  <2> SUFFICES ASSUME NEW c \in Components,
                      pc[r] = "idle", handler_[r] # None, Attached(r)',
                      active_lookups_'[Msg[r]] = {c}, Held(c)',
                      <<c, Msg[r]>> \notin filtering'
               PROVE  handler_[r] = <<c, filters'[c][Msg[r]]>> /\ receiver_[r] = c
    BY DEF IdleIsCurrent, refVars
  <2>1. <<c, Msg[r]>> \notin filtering /\ filters'[c][Msg[r]] = filters[c][Msg[r]]
    BY <1>2, <1>4
  <2>2. Attached(r) /\ active_lookups_[Msg[r]] = {c} /\ Held(c)  BY <1>1, <1>4
  <2> QED  BY <2>1, <2>2 DEF RefInv, IdleIsCurrent
<1>8. HandlerGoesWithReceiver(r)'
  BY DEF RefInv, HandlerGoesWithReceiver, refVars
<1> QED  BY <1>1, <1>3, <1>5, <1>6, <1>7, <1>8 DEF RefInv
-----------------------------------------------------------------------------

\* PublishAssociate keeps IInv.
LEMMA PublishAssociateStep ==
  ASSUME IInv, History, NEW c \in Components, NEW m \in Messages, PublishAssociate(c, m)
  PROVE  IInv'
<1> USE MonoRefAssumption
<1>0. TypeOK /\ FreedNotHeld /\ ListedWhilePublished /\ \A r \in Refs : RefInv(r)
  BY DEF IInv
<1>1. TypeOK'
  BY <1>0 DEF PublishAssociate, associate, Replace, TypeOK, History, HandlerIds, refVars
<1>2. UNCHANGED refVars /\ owned' \subseteq owned
  BY DEF PublishAssociate
<1>3. \A r \in Refs : BusyOwned(r)'
  BY <1>0 DEF PublishAssociate, RefInv, BusyOwned, refVars
<1>4. \A n \in Messages :
        \/ version'[n] = version[n] /\ active_lookups_'[n] = active_lookups_[n]
        \/ version'[n] = version[n] + 1
  BY <1>0 DEF PublishAssociate, associate, Replace, TypeOK
<1>5. \A d \in Components, n \in Messages :
        \/ <<d, n>> \in filtering'
        \/ version'[n] = version[n] + 1
        \/ <<d, n>> \notin filtering /\ filters'[d][n] = filters[d][n]
  BY <1>0 DEF PublishAssociate, associate, Replace, Changing, TypeOK
<1>6. (\A r \in Refs : RefInv(r)') /\ \A d \in Components : Held(d)' => Held(d)
  BY <1>0, <1>2, <1>3, <1>4, <1>5, RefsUntouched DEF Held, refVars
<1>7. FreedNotHeld'
  BY <1>0, <1>6 DEF PublishAssociate, FreedNotHeld, TypeOK
<1>8. ListedWhilePublished'
  BY <1>0, <1>6 DEF PublishAssociate, Changing, associate, Replace, ListedWhilePublished, Unpublishing, TypeOK
<1> QED  BY <1>1, <1>6, <1>7, <1>8 DEF IInv

\* PublishHandler keeps IInv.
LEMMA PublishHandlerStep ==
  ASSUME IInv, History, NEW c \in Components, NEW m \in Messages, PublishHandler(c, m)
  PROVE  IInv'
<1> USE MonoRefAssumption
<1>0. TypeOK /\ FreedNotHeld /\ ListedWhilePublished /\ \A r \in Refs : RefInv(r)
  BY DEF IInv
<1>1. TypeOK'
  BY <1>0 DEF PublishHandler, brokerVars, TypeOK, History, HandlerIds, refVars
<1>2. UNCHANGED refVars /\ owned' \subseteq owned
  BY DEF PublishHandler
<1>3. \A r \in Refs : BusyOwned(r)'
  BY <1>0 DEF PublishHandler, RefInv, BusyOwned, refVars
<1>4. \A n \in Messages :
        \/ version'[n] = version[n] /\ active_lookups_'[n] = active_lookups_[n]
        \/ version'[n] = version[n] + 1
  BY <1>0 DEF PublishHandler, brokerVars, TypeOK
<1>5. \A d \in Components, n \in Messages :
        \/ <<d, n>> \in filtering'
        \/ version'[n] = version[n] + 1
        \/ <<d, n>> \notin filtering /\ filters'[d][n] = filters[d][n]
  BY <1>0 DEF PublishHandler, brokerVars, Changing, TypeOK
<1>6. (\A r \in Refs : RefInv(r)') /\ \A d \in Components : Held(d)' => Held(d)
  BY <1>0, <1>2, <1>3, <1>4, <1>5, RefsUntouched DEF Held, refVars
<1>7. FreedNotHeld'
  BY <1>0, <1>6 DEF PublishHandler, FreedNotHeld, TypeOK
<1>8. ListedWhilePublished'
  BY <1>0, <1>6 DEF PublishHandler, brokerVars, ListedWhilePublished, Unpublishing, TypeOK
<1> QED  BY <1>1, <1>6, <1>7, <1>8 DEF IInv

\* PublishOverride keeps IInv.
LEMMA PublishOverrideStep ==
  ASSUME IInv, History, NEW c \in Components, NEW m \in Messages, PublishOverride(c, m)
  PROVE  IInv'
<1> USE MonoRefAssumption
<1>0. TypeOK /\ FreedNotHeld /\ ListedWhilePublished /\ \A r \in Refs : RefInv(r)
  BY DEF IInv
<1>1. TypeOK'
  BY <1>0 DEF PublishOverride, brokerVars, TypeOK, History, HandlerIds, refVars
<1>2. UNCHANGED refVars /\ owned' \subseteq owned
  BY DEF PublishOverride
<1>3. \A r \in Refs : BusyOwned(r)'
  BY <1>0 DEF PublishOverride, RefInv, BusyOwned, refVars
<1>4. \A n \in Messages :
        \/ version'[n] = version[n] /\ active_lookups_'[n] = active_lookups_[n]
        \/ version'[n] = version[n] + 1
  BY <1>0 DEF PublishOverride, brokerVars, TypeOK
<1>5. \A d \in Components, n \in Messages :
        \/ <<d, n>> \in filtering'
        \/ version'[n] = version[n] + 1
        \/ <<d, n>> \notin filtering /\ filters'[d][n] = filters[d][n]
  BY <1>0 DEF PublishOverride, brokerVars, Changing, TypeOK
<1>6. (\A r \in Refs : RefInv(r)') /\ \A d \in Components : Held(d)' => Held(d)
  BY <1>0, <1>2, <1>3, <1>4, <1>5, RefsUntouched DEF Held, refVars
<1>7. FreedNotHeld'
  BY <1>0, <1>6 DEF PublishOverride, FreedNotHeld, TypeOK
<1>8. ListedWhilePublished'
  BY <1>0, <1>6 DEF PublishOverride, brokerVars, ListedWhilePublished, Unpublishing, TypeOK
<1> QED  BY <1>1, <1>6, <1>7, <1>8 DEF IInv

\* Published keeps IInv.
LEMMA PublishedStep ==
  ASSUME IInv, History, NEW c \in Components, Published(c)
  PROVE  IInv'
<1> USE MonoRefAssumption
<1>0. TypeOK /\ FreedNotHeld /\ ListedWhilePublished /\ \A r \in Refs : RefInv(r)
  BY DEF IInv
<1>1. TypeOK'
  BY <1>0 DEF Published, brokerVars, TypeOK, History, HandlerIds, refVars
<1>2. UNCHANGED refVars /\ owned' \subseteq owned
  BY DEF Published
<1>3. \A r \in Refs : BusyOwned(r)'
  BY <1>0 DEF Published, RefInv, BusyOwned, refVars
<1>4. \A n \in Messages :
        \/ version'[n] = version[n] /\ active_lookups_'[n] = active_lookups_[n]
        \/ version'[n] = version[n] + 1
  BY <1>0 DEF Published, brokerVars, TypeOK
<1>5. \A d \in Components, n \in Messages :
        \/ <<d, n>> \in filtering'
        \/ version'[n] = version[n] + 1
        \/ <<d, n>> \notin filtering /\ filters'[d][n] = filters[d][n]
  BY <1>0 DEF Published, brokerVars, Changing, TypeOK
<1>6. (\A r \in Refs : RefInv(r)') /\ \A d \in Components : Held(d)' => Held(d)
  BY <1>0, <1>2, <1>3, <1>4, <1>5, RefsUntouched DEF Held, refVars
<1>7. FreedNotHeld'
  BY <1>0, <1>6 DEF Published, FreedNotHeld, TypeOK
<1>8. ListedWhilePublished'
  BY <1>0, <1>6 DEF Published, brokerVars, ListedWhilePublished, Unpublishing, TypeOK
<1> QED  BY <1>1, <1>6, <1>7, <1>8 DEF IInv

\* FilterReplace keeps IInv.
LEMMA FilterReplaceStep ==
  ASSUME IInv, History, NEW c \in Components, NEW m \in Messages, FilterReplace(c, m)
  PROVE  IInv'
<1> USE MonoRefAssumption
<1>0. TypeOK /\ FreedNotHeld /\ ListedWhilePublished /\ \A r \in Refs : RefInv(r)
  BY DEF IInv
<1>1. TypeOK'
  BY <1>0 DEF FilterReplace, brokerVars, TypeOK, History, HandlerIds, refVars
<1>2. UNCHANGED refVars /\ owned' \subseteq owned
  BY DEF FilterReplace
<1>3. \A r \in Refs : BusyOwned(r)'
  BY <1>0 DEF FilterReplace, RefInv, BusyOwned, refVars
<1>4. \A n \in Messages :
        \/ version'[n] = version[n] /\ active_lookups_'[n] = active_lookups_[n]
        \/ version'[n] = version[n] + 1
  BY <1>0 DEF FilterReplace, brokerVars, TypeOK
<1>5. \A d \in Components, n \in Messages :
        \/ <<d, n>> \in filtering'
        \/ version'[n] = version[n] + 1
        \/ <<d, n>> \notin filtering /\ filters'[d][n] = filters[d][n]
  BY <1>0 DEF FilterReplace, brokerVars, Changing, TypeOK
<1>6. (\A r \in Refs : RefInv(r)') /\ \A d \in Components : Held(d)' => Held(d)
  BY <1>0, <1>2, <1>3, <1>4, <1>5, RefsUntouched DEF Held, refVars
<1>7. FreedNotHeld'
  BY <1>0, <1>6 DEF FilterReplace, FreedNotHeld, TypeOK
<1>8. ListedWhilePublished'
  BY <1>0, <1>6 DEF FilterReplace, brokerVars, ListedWhilePublished, Unpublishing, TypeOK
<1> QED  BY <1>1, <1>6, <1>7, <1>8 DEF IInv

\* FilterInvalidate keeps IInv.
LEMMA FilterInvalidateStep ==
  ASSUME IInv, History, NEW c \in Components, NEW m \in Messages, FilterInvalidate(c, m)
  PROVE  IInv'
<1> USE MonoRefAssumption
<1>0. TypeOK /\ FreedNotHeld /\ ListedWhilePublished /\ \A r \in Refs : RefInv(r)
  BY DEF IInv
<1>1. TypeOK'
  BY <1>0 DEF FilterInvalidate, invalidate, Replace, TypeOK, History, HandlerIds, refVars
<1>2. UNCHANGED refVars /\ owned' \subseteq owned
  BY DEF FilterInvalidate
<1>3. \A r \in Refs : BusyOwned(r)'
  BY <1>0 DEF FilterInvalidate, RefInv, BusyOwned, refVars
<1>4. \A n \in Messages :
        \/ version'[n] = version[n] /\ active_lookups_'[n] = active_lookups_[n]
        \/ version'[n] = version[n] + 1
  BY <1>0 DEF FilterInvalidate, invalidate, Replace, TypeOK
<1>5. \A d \in Components, n \in Messages :
        \/ <<d, n>> \in filtering'
        \/ version'[n] = version[n] + 1
        \/ <<d, n>> \notin filtering /\ filters'[d][n] = filters[d][n]
  BY <1>0 DEF FilterInvalidate, invalidate, Replace, Changing, TypeOK
<1>6. (\A r \in Refs : RefInv(r)') /\ \A d \in Components : Held(d)' => Held(d)
  BY <1>0, <1>2, <1>3, <1>4, <1>5, RefsUntouched DEF Held, refVars
<1>7. FreedNotHeld'
  BY <1>0, <1>6 DEF FilterInvalidate, FreedNotHeld, TypeOK
<1>8. ListedWhilePublished'
  BY <1>0, <1>6 DEF FilterInvalidate, invalidate, Replace, ListedWhilePublished, Unpublishing, TypeOK
<1> QED  BY <1>1, <1>6, <1>7, <1>8 DEF IInv

\* Unpublish keeps IInv.
LEMMA UnpublishStep ==
  ASSUME IInv, History, NEW c \in Components, Unpublish(c)
  PROVE  IInv'
<1> USE MonoRefAssumption
<1>0. TypeOK /\ FreedNotHeld /\ ListedWhilePublished /\ \A r \in Refs : RefInv(r)
  BY DEF IInv
<1>9. walk' = [of |-> c, left |-> Messages, live |-> Live] /\ walk = None
      /\ UNCHANGED <<active_lookups_, version, compVars, refVars>>
  BY DEF Unpublish, disassociate_everything, MutexFree
<1>1. TypeOK'
  <2>1. walk' \in Walks  BY <1>9 DEF Walks, Live
  <2>2. steady' \subseteq Refs  BY DEF History
  <2> QED  BY <1>0, <1>9, <2>1, <2>2 DEF TypeOK, HandlerIds, compVars, refVars
<1>2. UNCHANGED refVars /\ owned' \subseteq owned
  BY DEF Unpublish, compVars
<1>3. \A r \in Refs : BusyOwned(r)'
  BY <1>0 DEF Unpublish, RefInv, BusyOwned, refVars, compVars
<1>4. \A n \in Messages :
        \/ version'[n] = version[n] /\ active_lookups_'[n] = active_lookups_[n]
        \/ version'[n] = version[n] + 1
  BY <1>0 DEF Unpublish, disassociate_everything, compVars, TypeOK
<1>5. \A d \in Components, n \in Messages :
        \/ <<d, n>> \in filtering'
        \/ version'[n] = version[n] + 1
        \/ <<d, n>> \notin filtering /\ filters'[d][n] = filters[d][n]
  BY <1>0 DEF Unpublish, disassociate_everything, compVars, Changing, TypeOK
<1>6. (\A r \in Refs : RefInv(r)') /\ \A d \in Components : Held(d)' => Held(d)
  BY <1>0, <1>2, <1>3, <1>4, <1>5, RefsUntouched DEF Held, refVars
<1>7. FreedNotHeld'
  BY <1>0, <1>6, <1>9 DEF FreedNotHeld, compVars
<1>8. ListedWhilePublished'
  <2>1. \A d \in Components, m \in Messages : Unpublishing(d)' => m \in walk'.left  BY <1>9
  <2>2. \A d \in Components : ~Unpublishing(d)  BY <1>9 DEF Unpublishing
  <2> QED  BY <1>0, <1>6, <1>9, <2>1, <2>2 DEF ListedWhilePublished, compVars
<1> QED  BY <1>1, <1>6, <1>7, <1>8 DEF IInv

\* DropOwner keeps IInv.
LEMMA DropOwnerStep ==
  ASSUME IInv, History, NEW c \in Components, DropOwner(c)
  PROVE  IInv'
<1> USE MonoRefAssumption
<1>0. TypeOK /\ FreedNotHeld /\ ListedWhilePublished /\ \A r \in Refs : RefInv(r)
  BY DEF IInv
<1>1. TypeOK'
  BY <1>0 DEF DropOwner, Busy, brokerVars, TypeOK, History, HandlerIds, refVars
<1>2. UNCHANGED refVars /\ owned' \subseteq owned
  BY DEF DropOwner
<1>3. \A r \in Refs : BusyOwned(r)'
  BY <1>0 DEF DropOwner, Busy, RefInv, BusyOwned, refVars
<1>4. \A n \in Messages :
        \/ version'[n] = version[n] /\ active_lookups_'[n] = active_lookups_[n]
        \/ version'[n] = version[n] + 1
  BY <1>0 DEF DropOwner, Busy, brokerVars, TypeOK
<1>5. \A d \in Components, n \in Messages :
        \/ <<d, n>> \in filtering'
        \/ version'[n] = version[n] + 1
        \/ <<d, n>> \notin filtering /\ filters'[d][n] = filters[d][n]
  BY <1>0 DEF DropOwner, Busy, brokerVars, Changing, TypeOK
<1>6. (\A r \in Refs : RefInv(r)') /\ \A d \in Components : Held(d)' => Held(d)
  BY <1>0, <1>2, <1>3, <1>4, <1>5, RefsUntouched DEF Held, refVars
<1>7. FreedNotHeld'
  BY <1>0, <1>6 DEF DropOwner, FreedNotHeld, TypeOK
<1>8. ListedWhilePublished'
  BY <1>0, <1>6 DEF DropOwner, Busy, brokerVars, ListedWhilePublished, Unpublishing, TypeOK
<1> QED  BY <1>1, <1>6, <1>7, <1>8 DEF IInv

\* DestructorUnpublish keeps IInv.
LEMMA DestructorUnpublishStep ==
  ASSUME IInv, History, NEW c \in Components, DestructorUnpublish(c)
  PROVE  IInv'
<1> USE MonoRefAssumption
<1>0. TypeOK /\ FreedNotHeld /\ ListedWhilePublished /\ \A r \in Refs : RefInv(r)
  BY DEF IInv
<1>9. walk' = [of |-> c, left |-> Messages, live |-> Live] /\ walk = None
      /\ UNCHANGED <<active_lookups_, version, compVars, refVars>>
  BY DEF DestructorUnpublish, disassociate_everything, MutexFree
<1>1. TypeOK'
  <2>1. walk' \in Walks  BY <1>9 DEF Walks, Live
  <2>2. steady' \subseteq Refs  BY DEF History
  <2> QED  BY <1>0, <1>9, <2>1, <2>2 DEF TypeOK, HandlerIds, compVars, refVars
<1>2. UNCHANGED refVars /\ owned' \subseteq owned
  BY DEF DestructorUnpublish, compVars
<1>3. \A r \in Refs : BusyOwned(r)'
  BY <1>0 DEF DestructorUnpublish, RefInv, BusyOwned, refVars, compVars
<1>4. \A n \in Messages :
        \/ version'[n] = version[n] /\ active_lookups_'[n] = active_lookups_[n]
        \/ version'[n] = version[n] + 1
  BY <1>0 DEF DestructorUnpublish, disassociate_everything, compVars, TypeOK
<1>5. \A d \in Components, n \in Messages :
        \/ <<d, n>> \in filtering'
        \/ version'[n] = version[n] + 1
        \/ <<d, n>> \notin filtering /\ filters'[d][n] = filters[d][n]
  BY <1>0 DEF DestructorUnpublish, disassociate_everything, compVars, Changing, TypeOK
<1>6. (\A r \in Refs : RefInv(r)') /\ \A d \in Components : Held(d)' => Held(d)
  BY <1>0, <1>2, <1>3, <1>4, <1>5, RefsUntouched DEF Held, refVars
<1>7. FreedNotHeld'
  BY <1>0, <1>6, <1>9 DEF FreedNotHeld, compVars
<1>8. ListedWhilePublished'
  <2>1. \A d \in Components, m \in Messages : Unpublishing(d)' => m \in walk'.left  BY <1>9
  <2>2. \A d \in Components : ~Unpublishing(d)  BY <1>9 DEF Unpublishing
  <2> QED  BY <1>0, <1>6, <1>9, <2>1, <2>2 DEF ListedWhilePublished, compVars
<1> QED  BY <1>1, <1>6, <1>7, <1>8 DEF IInv

\* NestedUnpublish keeps IInv.
LEMMA NestedUnpublishStep ==
  ASSUME IInv, History, NEW c \in Components, NestedUnpublish(c)
  PROVE  IInv'
<1> USE MonoRefAssumption
<1>0. TypeOK /\ FreedNotHeld /\ ListedWhilePublished /\ \A r \in Refs : RefInv(r)
  BY DEF IInv
<1>1. TypeOK'
  BY <1>0 DEF NestedUnpublish, disassociate_nested, Replace, TypeOK, History, HandlerIds, refVars
<1>2. UNCHANGED refVars /\ owned' \subseteq owned
  BY DEF NestedUnpublish
<1>3. \A r \in Refs : BusyOwned(r)'
  BY <1>0 DEF NestedUnpublish, RefInv, BusyOwned, refVars
<1>4. \A n \in Messages :
        \/ version'[n] = version[n] /\ active_lookups_'[n] = active_lookups_[n]
        \/ version'[n] = version[n] + 1
  BY <1>0 DEF NestedUnpublish, disassociate_nested, Replace, TypeOK
<1>5. \A d \in Components, n \in Messages :
        \/ <<d, n>> \in filtering'
        \/ version'[n] = version[n] + 1
        \/ <<d, n>> \notin filtering /\ filters'[d][n] = filters[d][n]
  BY <1>0 DEF NestedUnpublish, disassociate_nested, Replace, Changing, TypeOK
<1>6. (\A r \in Refs : RefInv(r)') /\ \A d \in Components : Held(d)' => Held(d)
  BY <1>0, <1>2, <1>3, <1>4, <1>5, RefsUntouched DEF Held, refVars
<1>7. FreedNotHeld'
  BY <1>0, <1>6 DEF NestedUnpublish, FreedNotHeld, TypeOK
<1>8. ListedWhilePublished'
  <2>1. ASSUME NEW d \in Components, NEW m \in Messages, Held(d)
        PROVE  d \in active_lookups_'[m] <=> d \in active_lookups_[m]
    <3>1. PICK gone \in [Messages -> SUBSET (Components \ Live)] :
            active_lookups_' = [n \in Messages |-> active_lookups_[n] \ (IF n \in walk.left THEN {} ELSE gone[n])]
      BY <1>0 DEF NestedUnpublish, disassociate_nested, Replace
    <3>2. d \notin gone[m]  BY <2>1 DEF Live
    <3> QED  BY <3>1, <3>2
  <2>2. \A d \in Components : Held(d) => life'[d] = life[d]
    BY <1>0 DEF NestedUnpublish, TypeOK
  <2>3. UNCHANGED <<stage, walk>>  BY DEF NestedUnpublish, disassociate_nested
  <2> QED  BY <1>0, <1>6, <2>1, <2>2, <2>3 DEF ListedWhilePublished, Unpublishing
<1> QED  BY <1>1, <1>6, <1>7, <1>8 DEF IInv

\* Disassociate keeps IInv.
LEMMA DisassociateStep ==
  ASSUME IInv, History, NEW m \in Messages, Disassociate(m)
  PROVE  IInv'
<1> USE MonoRefAssumption
<1>0. TypeOK /\ FreedNotHeld /\ ListedWhilePublished /\ \A r \in Refs : RefInv(r)
  BY DEF IInv
<1>10. /\ walk \in Walks
       /\ walk # None /\ m \in walk.left
  BY <1>0 DEF Disassociate, disassociate, TypeOK
<1>11. \/ LastMessage(m) /\ walk' = None /\ life' = [life EXCEPT ![walk.of] = "unpublished"]
       \/ ~LastMessage(m) /\ walk' = [walk EXCEPT !.left = @ \ {m}, !.live = Live] /\ life' = life
  BY DEF Disassociate, disassociate, Turn
<1>13. ~LastMessage(m) => walk' \in Walks
  <2> SUFFICES ASSUME ~LastMessage(m) PROVE walk' \in Walks  OBVIOUS
  <2>1. /\ walk.of \in Components /\ walk.left \ {m} \subseteq Messages /\ Live \subseteq Components
        /\ walk' = [of |-> walk.of, left |-> walk.left \ {m}, live |-> Live]
    BY <1>10, <1>11 DEF Walks, Live
  <2> QED  BY <2>1 DEF Walks
<1>12. PICK back \in SUBSET (walk.live \ Live) :
         /\ active_lookups_' = [n \in Messages |-> IF n \in {m}
                THEN {c \in active_lookups_[n] : c # walk.of /\ c \in Live \cup back}
                ELSE active_lookups_[n]]
         /\ version' = [n \in Messages |-> IF n \in {m} THEN version[n] + 1 ELSE version[n]]
  BY DEF Disassociate, disassociate, Replace
<1>1. TypeOK'
  <2>1. walk' \in Walks \cup {None}
    BY <1>11, <1>13
  <2>2. active_lookups_' \in [Messages -> SUBSET Components] /\ version' \in [Messages -> Nat]
    BY <1>0, <1>12 DEF TypeOK
  <2>3. life' \in [Components -> {"new", "published", "unpublished", "freed"}]
    BY <1>0, <1>10, <1>11 DEF TypeOK, Walks
  <2>4. steady' \subseteq Refs  BY DEF History
  <2> QED  BY <1>0, <2>1, <2>2, <2>3, <2>4 DEF Disassociate, TypeOK, HandlerIds, refVars
<1>2. UNCHANGED refVars /\ owned' \subseteq owned
  BY DEF Disassociate
<1>3. \A r \in Refs : BusyOwned(r)'
  BY <1>0 DEF Disassociate, RefInv, BusyOwned, refVars
<1>4. \A n \in Messages :
        \/ version'[n] = version[n] /\ active_lookups_'[n] = active_lookups_[n]
        \/ version'[n] = version[n] + 1
  BY <1>0 DEF Disassociate, disassociate, Replace, Turn, TypeOK
<1>5. \A d \in Components, n \in Messages :
        \/ <<d, n>> \in filtering'
        \/ version'[n] = version[n] + 1
        \/ <<d, n>> \notin filtering /\ filters'[d][n] = filters[d][n]
  BY <1>0 DEF Disassociate, disassociate, Replace, Turn, Changing, TypeOK
<1>6. (\A r \in Refs : RefInv(r)') /\ \A d \in Components : Held(d)' => Held(d)
  BY <1>0, <1>2, <1>3, <1>4, <1>5, RefsUntouched DEF Held, refVars
<1>7. FreedNotHeld'
  BY <1>0, <1>6 DEF Disassociate, FreedNotHeld, TypeOK
<1>8. ListedWhilePublished'
  <2>1. SUFFICES ASSUME NEW d \in Components, NEW n \in Messages, Held(d)'
                 PROVE  (d \in active_lookups_[n] <=> /\ stage[d][n] # "none" /\ life[d] \in {"new", "published"}
                                                      /\ walk.of = d => n \in walk.left)
                        => (d \in active_lookups_'[n] <=> /\ stage'[d][n] # "none" /\ life'[d] \in {"new", "published"}
                                                          /\ Unpublishing(d)' => n \in walk'.left)
    BY <1>0, <1>6, <1>10 DEF ListedWhilePublished, Unpublishing
  <2>2. d \in active_lookups_'[n] <=> d \in active_lookups_[n] /\ (n = m => d # walk.of)
    <3>1. d \in Live  BY <1>6, <2>1 DEF Live
    <3> QED  BY <1>12, <3>1
  <2>3. UNCHANGED stage  BY DEF Disassociate
  <2>4. CASE LastMessage(m)
    <3>1. n \in walk.left <=> n = m  BY <2>4 DEF LastMessage
    <3>2. ~Unpublishing(d)'  BY <1>11, <2>4 DEF Unpublishing
    <3>3. life'[d] = IF d = walk.of THEN "unpublished" ELSE life[d]
      BY <1>0, <1>11, <2>4 DEF TypeOK
    <3> QED  BY <2>2, <2>3, <3>1, <3>2, <3>3
  <2>5. CASE ~LastMessage(m)
    <3>1. walk'.of = walk.of /\ walk'.left = walk.left \ {m} /\ life' = life
      BY <1>10, <1>11, <2>5 DEF Walks
    <3>2. walk' # None  BY <1>13, <2>5, BrokerAssumption
    <3> QED  BY <2>2, <2>3, <3>1, <3>2 DEF Unpublishing
  <2> QED  BY <2>4, <2>5
<1> QED  BY <1>1, <1>6, <1>7, <1>8 DEF IInv
-----------------------------------------------------------------------------

\* Fetch keeps IInv.
LEMMA FetchStep ==
  ASSUME IInv, History, NEW r \in Refs, Fetch(r)
  PROVE  IInv'
<1> USE MonoRefAssumption
<1>0. TypeOK /\ FreedNotHeld /\ ListedWhilePublished /\ RefInv(r) /\ \A s \in Refs : RefInv(s)
  BY DEF IInv
<1>1. TypeOK'
  BY <1>0 DEF Fetch, lookup, Goto, TypeOK, History, HandlerIds, compVars, brokerVars
<1>2. UNCHANGED <<brokerVars, compVars>>
  BY DEF Fetch
<1>3. \A d \in Components : Held(d)' => Held(d)
  BY <1>0 DEF Fetch, lookup, Goto, Held, TypeOK, compVars
<1>4. ASSUME NEW s \in Refs, s # r PROVE RefInv(s)'
  <2>1. /\ handler_'[s] = handler_[s] /\ receivers_'[s] = receivers_[s]
        /\ receiver_'[s] = receiver_[s] /\ pc'[s] = pc[s] /\ snap'[s] = snap[s]
    BY <1>0, <1>4 DEF Fetch, lookup, Goto, TypeOK
  <2> QED  BY <1>0, <1>2, <1>3, <2>1, OtherRef DEF compVars
<1>5. RefInv(r)'
  <2>1. BusyOwned(r)' /\ VersionsGrow(r)'
    BY <1>0 DEF Fetch, lookup, Goto, RefInv, BusyOwned, VersionsGrow, TypeOK, compVars, brokerVars
  <2>2. SnapIsCurrent(r)'
    BY <1>0 DEF Fetch, lookup, Goto, RefInv, SnapIsCurrent, VersionsGrow, Holds, Attached, TypeOK, brokerVars
  <2>3. OnlyReceiver(r)'
    BY <1>0 DEF Fetch, lookup, Goto, RefInv, OnlyReceiver, TypeOK
  <2>4. ResolvedIsCurrent(r)'
    BY <1>0 DEF Fetch, lookup, Goto, RefInv, ResolvedIsCurrent, OnlyReceiver, Attached, TypeOK, compVars, brokerVars
  <2>5. IdleIsCurrent(r)'
    BY <1>0, <1>3 DEF Fetch, lookup, Goto, RefInv, IdleIsCurrent, SnapIsCurrent, OnlyReceiver, ResolvedIsCurrent, Holds, Attached, TypeOK, compVars, brokerVars
  <2>6. HandlerGoesWithReceiver(r)'
    BY <1>0 DEF Fetch, Busy, lookup, Goto, RefInv, HandlerGoesWithReceiver, OnlyReceiver, ResolvedIsCurrent, TypeOK
  <2> QED  BY <2>1, <2>2, <2>3, <2>4, <2>5, <2>6 DEF RefInv
<1>6. FreedNotHeld'
  BY <1>0, <1>2, <1>3 DEF FreedNotHeld, compVars
<1>7. ListedWhilePublished'
  BY <1>0, <1>2, <1>3 DEF ListedWhilePublished, Unpublishing, brokerVars, compVars
<1> QED  BY <1>1, <1>4, <1>5, <1>6, <1>7 DEF IInv

\* LockReceivers keeps IInv.
LEMMA LockReceiversStep ==
  ASSUME IInv, History, NEW r \in Refs, LockReceivers(r)
  PROVE  IInv'
<1> USE MonoRefAssumption
<1>0. TypeOK /\ FreedNotHeld /\ ListedWhilePublished /\ RefInv(r) /\ \A s \in Refs : RefInv(s)
  BY DEF IInv
<1>1. TypeOK'
  <2>1. ASSUME ~Expired(r) PROVE Receivers(r) \subseteq Components
    <3>1. CASE receivers_[r] = version[Msg[r]]
      BY <1>0, <3>1 DEF Receivers, TypeOK
    <3>2. CASE receivers_[r] # version[Msg[r]]
      <4> DEFINE p == CHOOSE q \in Refs : Pins(q, r)
      <4>1. p \in Refs  BY <2>1, <3>2 DEF Expired
      <4> HIDE DEF p
      <4>2. snap[p] \subseteq Components  BY <1>0, <4>1 DEF TypeOK
      <4> QED  BY <3>2, <4>2 DEF Receivers, p
    <3> QED  BY <3>1, <3>2
  <2>2. snap' \in [Refs -> SUBSET Components]
    <3>1. snap \in [Refs -> SUBSET Components]  BY <1>0 DEF TypeOK
    <3>2. CASE snap' = [snap EXCEPT ![r] = {}]  BY <3>1, <3>2
    <3>3. CASE ~Expired(r) /\ snap' = [snap EXCEPT ![r] = Receivers(r)]
      BY <2>1, <3>1, <3>3
    <3> QED  BY <3>2, <3>3 DEF LockReceivers, Return
  <2>3. /\ pc' \in [Refs -> {"idle", "fetched", "listed", "located", "resolved"}]
        /\ \A s \in Refs : pc'[s] \in {"located", "resolved"} => pc'[s] = pc[s]
    <3>1. pc \in [Refs -> {"idle", "fetched", "listed", "located", "resolved"}]  BY <1>0 DEF TypeOK
    <3>2. pc' = [pc EXCEPT ![r] = "idle"] \/ pc' = [pc EXCEPT ![r] = "listed"]
      BY DEF LockReceivers, Goto, Return
    <3> QED  BY <3>1, <3>2
  <2>4. UNCHANGED <<active_lookups_, version, walk, life, owned, stage, filters, filtering, handler_,
                    receivers_, receiver_, receiver_executor_>>
    BY DEF LockReceivers, compVars, brokerVars
  <2>5. steady' \subseteq Refs  BY <1>0 DEF TypeOK, History
  <2> QED
    BY <1>0, <2>2, <2>3, <2>4, <2>5 DEF TypeOK
<1>2. UNCHANGED <<brokerVars, compVars>>
  BY DEF LockReceivers
<1>3. \A d \in Components : Held(d)' => Held(d)
  BY <1>0 DEF LockReceivers, Goto, Return, Held, TypeOK, compVars
<1>4. ASSUME NEW s \in Refs, s # r PROVE RefInv(s)'
  <2>1. /\ handler_'[s] = handler_[s] /\ receivers_'[s] = receivers_[s]
        /\ receiver_'[s] = receiver_[s] /\ pc'[s] = pc[s] /\ snap'[s] = snap[s]
    BY <1>0, <1>4 DEF LockReceivers, Goto, Return, TypeOK
  <2> QED  BY <1>0, <1>2, <1>3, <2>1, OtherRef DEF compVars
<1>8. Attached(r) => ~Expired(r) /\ Receivers(r) = active_lookups_[Msg[r]]
  BY DEF Attached, Expired, Receivers
<1>9. Attached(r)' <=> Attached(r)
  BY DEF Attached, LockReceivers, brokerVars
<1>5. RefInv(r)'
  <2>1. BusyOwned(r)' /\ VersionsGrow(r)'
    BY <1>0 DEF LockReceivers, Goto, Return, RefInv, BusyOwned, VersionsGrow, TypeOK, compVars, brokerVars
  <2>2. SnapIsCurrent(r)'
    BY <1>0, <1>8, <1>9 DEF LockReceivers, Goto, Return, SnapIsCurrent, Holds, TypeOK, brokerVars
  <2>3. OnlyReceiver(r)'
    BY <1>0 DEF LockReceivers, Goto, Return, RefInv, OnlyReceiver, TypeOK
  <2>4. ResolvedIsCurrent(r)'
    BY <1>0 DEF LockReceivers, Goto, Return, RefInv, ResolvedIsCurrent, OnlyReceiver, Attached, TypeOK, compVars, brokerVars
  <2>5. IdleIsCurrent(r)'
    BY <1>0, <1>8, <1>9 DEF LockReceivers, Goto, Return, IdleIsCurrent, TypeOK
  <2>6. HandlerGoesWithReceiver(r)'
    BY <1>0 DEF LockReceivers, Goto, Return, RefInv, HandlerGoesWithReceiver, OnlyReceiver, ResolvedIsCurrent, TypeOK
  <2> QED  BY <2>1, <2>2, <2>3, <2>4, <2>5, <2>6 DEF RefInv
<1>6. FreedNotHeld'
  BY <1>0, <1>2, <1>3 DEF FreedNotHeld, compVars
<1>7. ListedWhilePublished'
  BY <1>0, <1>2, <1>3 DEF ListedWhilePublished, Unpublishing, brokerVars, compVars
<1> QED  BY <1>1, <1>4, <1>5, <1>6, <1>7 DEF IInv

\* LockReceiver keeps IInv.
LEMMA LockReceiverStep ==
  ASSUME IInv, History, NEW r \in Refs, LockReceiver(r)
  PROVE  IInv'
<1> USE MonoRefAssumption
<1>0. TypeOK /\ FreedNotHeld /\ ListedWhilePublished /\ RefInv(r) /\ \A s \in Refs : RefInv(s)
  BY DEF IInv
<1>1. TypeOK'
  <2> DEFINE located(s) == /\ pc[s] \in {"located", "resolved"} => receiver_[s] # None
                           /\ pc[s] = "resolved" => handler_[s] # None
  <2>1. CASE UNCHANGED receiver_ /\ Return(r)
    BY <1>0, <2>1 DEF LockReceiver, Return, TypeOK, History, HandlerIds, compVars, brokerVars
  <2>2. CASE \E c \in snap[r] : TakeReceiver(r, c)
    <3>1. PICK c \in snap[r] : TakeReceiver(r, c)  BY <2>2
    <3>2. c \in Components /\ c # None  BY <1>0 DEF TypeOK
    <3>3. \A s \in Refs : located(s)'
      BY <1>0, <3>1, <3>2 DEF LockReceiver, TakeReceiver, Goto, Return, TypeOK
    <3>4. /\ receiver_' \in [Refs -> Components \cup {None}]
          /\ pc' \in [Refs -> {"idle", "fetched", "listed", "located", "resolved"}]
          /\ snap' \in [Refs -> SUBSET Components]
      <4>1. CASE Held(c)
        <5>1. /\ receiver_' = [receiver_ EXCEPT ![r] = c]
              /\ pc' = [pc EXCEPT ![r] = "located"] /\ snap' = snap
          BY <3>1, <4>1 DEF TakeReceiver, Goto
        <5> QED  BY <1>0, <3>2, <5>1 DEF TypeOK
      <4>2. CASE ~Held(c)  BY <1>0, <3>1, <4>2 DEF TakeReceiver, Return, TypeOK
      <4> QED  BY <4>1, <4>2
    <3> QED  BY <1>0, <3>3, <3>4 DEF LockReceiver, TypeOK, History, HandlerIds, compVars, brokerVars
  <2> QED  BY <2>1, <2>2 DEF LockReceiver
<1>2. UNCHANGED <<brokerVars, compVars>>
  BY DEF LockReceiver
<1>3. \A d \in Components : Held(d)' => Held(d)
  BY <1>0 DEF LockReceiver, TakeReceiver, Goto, Return, Held, TypeOK, compVars
<1>4. ASSUME NEW s \in Refs, s # r PROVE RefInv(s)'
  <2>1. /\ handler_'[s] = handler_[s] /\ receivers_'[s] = receivers_[s]
        /\ receiver_'[s] = receiver_[s] /\ pc'[s] = pc[s] /\ snap'[s] = snap[s]
    BY <1>0, <1>4 DEF LockReceiver, TakeReceiver, Goto, Return, TypeOK
  <2> QED  BY <1>0, <1>2, <1>3, <2>1, OtherRef DEF compVars
<1>5. RefInv(r)'
  <2>1. BusyOwned(r)' /\ VersionsGrow(r)'
    BY <1>0 DEF LockReceiver, TakeReceiver, Goto, Return, RefInv, BusyOwned, VersionsGrow, TypeOK, compVars, brokerVars
  <2>2. SnapIsCurrent(r)'
    BY <1>0 DEF LockReceiver, TakeReceiver, Goto, Return, RefInv, SnapIsCurrent, VersionsGrow, Holds, Attached, TypeOK, brokerVars
  <2>3. OnlyReceiver(r)'
    BY <1>0 DEF LockReceiver, TakeReceiver, Goto, Return, RefInv, OnlyReceiver, TypeOK
  <2>4. ResolvedIsCurrent(r)'
    BY <1>0 DEF LockReceiver, TakeReceiver, Goto, Return, RefInv, ResolvedIsCurrent, OnlyReceiver, Attached, TypeOK, compVars, brokerVars
  <2>5. IdleIsCurrent(r)'
    <3> SUFFICES ASSUME NEW c \in Components, pc'[r] = "idle", Attached(r)',
                        active_lookups_'[Msg[r]] = {c}, Held(c)'
                 PROVE  FALSE
      BY DEF IdleIsCurrent
    <3>1. Attached(r) /\ active_lookups_[Msg[r]] = {c} /\ Held(c) /\ pc[r] = "listed"
      BY <1>3 DEF LockReceiver, Attached, brokerVars
    <3>2. snap[r] = {c}  BY <1>0, <3>1 DEF RefInv, SnapIsCurrent, Holds
    <3>3. TakeReceiver(r, c)  BY <3>2 DEF LockReceiver
    <3> QED  BY <1>0, <3>1, <3>3 DEF TakeReceiver, Goto, TypeOK
  <2>6. HandlerGoesWithReceiver(r)'
    BY <1>0 DEF LockReceiver, TakeReceiver, Goto, Return, RefInv, HandlerGoesWithReceiver, OnlyReceiver, ResolvedIsCurrent, TypeOK
  <2> QED  BY <2>1, <2>2, <2>3, <2>4, <2>5, <2>6 DEF RefInv
<1>6. FreedNotHeld'
  BY <1>0, <1>2, <1>3 DEF FreedNotHeld, compVars
<1>7. ListedWhilePublished'
  BY <1>0, <1>2, <1>3 DEF ListedWhilePublished, Unpublishing, brokerVars, compVars
<1> QED  BY <1>1, <1>4, <1>5, <1>6, <1>7 DEF IInv

\* LookupHandler keeps IInv.
LEMMA LookupHandlerStep ==
  ASSUME IInv, History, NEW r \in Refs, LookupHandler(r)
  PROVE  IInv'
<1> USE MonoRefAssumption
<1>0. TypeOK /\ FreedNotHeld /\ ListedWhilePublished /\ RefInv(r) /\ \A s \in Refs : RefInv(s)
  BY DEF IInv
<1>8. receiver_[r] \in Components /\ Msg[r] \in Messages
  BY <1>0 DEF LookupHandler, RefInv, OnlyReceiver
<1>9. filters[receiver_[r]][Msg[r]] \in 0..MaxFilters
  BY <1>0, <1>8 DEF TypeOK
<1>10. <<receiver_[r], filters[receiver_[r]][Msg[r]]>> # None
  BY <1>8, <1>9
<1>1. TypeOK'
  <2> DEFINE h == <<receiver_[r], filters[receiver_[r]][Msg[r]]>>
  <2>4. h \in HandlerIds /\ h # None  BY <1>8, <1>9, <1>10 DEF HandlerIds
  <2>5. \/ handler_' = [handler_ EXCEPT ![r] = h] /\ Goto(r, "resolved")
        \/ handler_' = [handler_ EXCEPT ![r] = None] /\ Return(r)
    BY DEF LookupHandler
  <2> HIDE DEF h
  <2>1. handler_' \in [Refs -> HandlerIds \cup {None}]
    <3>1. handler_ \in [Refs -> HandlerIds \cup {None}]  BY <1>0 DEF TypeOK
    <3> QED  BY <2>4, <2>5, <3>1
  <2>2. /\ pc' \in [Refs -> {"idle", "fetched", "listed", "located", "resolved"}]
        /\ snap' \in [Refs -> SUBSET Components]
    BY <1>0 DEF LookupHandler, Goto, Return, TypeOK
  <2>3. \A s \in Refs : /\ pc'[s] \in {"located", "resolved"} => receiver_'[s] # None
                        /\ pc'[s] = "resolved" => handler_'[s] # None
    <3> TAKE s \in Refs
    <3>1. receiver_' = receiver_  BY DEF LookupHandler
    <3>2. CASE s # r
      <4>1. handler_'[s] = handler_[s] /\ pc'[s] = pc[s]
        BY <1>0, <2>5, <3>2 DEF Goto, Return, TypeOK
      <4>2. /\ pc[s] \in {"located", "resolved"} => receiver_[s] # None
            /\ pc[s] = "resolved" => handler_[s] # None
        BY <1>0 DEF TypeOK
      <4> QED  BY <3>1, <4>1, <4>2
    <3>3. CASE s = r
      <4>1. pc'[r] = "resolved" => handler_'[r] = h
        BY <1>0, <2>5 DEF Goto, Return, TypeOK
      <4>2. receiver_[r] # None  BY <1>8
      <4> QED  BY <2>4, <3>1, <3>3, <4>1, <4>2
    <3> QED  BY <3>2, <3>3
  <2> QED
    BY <1>0, <2>1, <2>2, <2>3 DEF LookupHandler, TypeOK, History, compVars, brokerVars
<1>2. UNCHANGED <<brokerVars, compVars>>
  BY DEF LookupHandler
<1>3. \A d \in Components : Held(d)' => Held(d)
  BY <1>0 DEF LookupHandler, Goto, Return, Held, TypeOK, compVars
<1>4. ASSUME NEW s \in Refs, s # r PROVE RefInv(s)'
  <2>1. /\ handler_'[s] = handler_[s] /\ receivers_'[s] = receivers_[s]
        /\ receiver_'[s] = receiver_[s] /\ pc'[s] = pc[s] /\ snap'[s] = snap[s]
    BY <1>0, <1>4 DEF LookupHandler, Goto, Return, TypeOK
  <2> QED  BY <1>0, <1>2, <1>3, <2>1, OtherRef DEF compVars
<1>5. RefInv(r)'
  <2>1. BusyOwned(r)' /\ VersionsGrow(r)'
    BY <1>0 DEF LookupHandler, Goto, Return, RefInv, BusyOwned, VersionsGrow, TypeOK, compVars, brokerVars
  <2>2. SnapIsCurrent(r)'
    BY <1>0 DEF LookupHandler, Goto, Return, RefInv, SnapIsCurrent, VersionsGrow, Holds, Attached, TypeOK, brokerVars
  <2>3. OnlyReceiver(r)'
    BY <1>0 DEF LookupHandler, Goto, Return, RefInv, OnlyReceiver, TypeOK
  <2>4. ResolvedIsCurrent(r)'
    <3> SUFFICES ASSUME pc'[r] = "resolved" PROVE ResolvedIsCurrent(r)'
      BY DEF ResolvedIsCurrent
    <3>1. /\ handler_'[r] = <<receiver_[r], filters[receiver_[r]][Msg[r]]>>
          /\ receiver_' = receiver_ /\ filters' = filters
      BY <1>0 DEF LookupHandler, Return, TypeOK, compVars
    <3> QED  BY <1>9, <3>1 DEF ResolvedIsCurrent
  <2>5. IdleIsCurrent(r)'
    BY <1>0, <1>3 DEF LookupHandler, Goto, Return, RefInv, IdleIsCurrent, SnapIsCurrent, OnlyReceiver, ResolvedIsCurrent, Holds, Attached, TypeOK, compVars, brokerVars
  <2>6. HandlerGoesWithReceiver(r)'
    BY <1>0 DEF LookupHandler, Goto, Return, RefInv, HandlerGoesWithReceiver, OnlyReceiver, ResolvedIsCurrent, TypeOK
  <2> QED  BY <2>1, <2>2, <2>3, <2>4, <2>5, <2>6 DEF RefInv
<1>6. FreedNotHeld'
  BY <1>0, <1>2, <1>3 DEF FreedNotHeld, compVars
<1>7. ListedWhilePublished'
  BY <1>0, <1>2, <1>3 DEF ListedWhilePublished, Unpublishing, brokerVars, compVars
<1> QED  BY <1>1, <1>4, <1>5, <1>6, <1>7 DEF IInv

\* LookupOverride keeps IInv.
LEMMA LookupOverrideStep ==
  ASSUME IInv, History, NEW r \in Refs, LookupOverride(r)
  PROVE  IInv'
<1> USE MonoRefAssumption
<1>0. TypeOK /\ FreedNotHeld /\ ListedWhilePublished /\ RefInv(r) /\ \A s \in Refs : RefInv(s)
  BY DEF IInv
<1>8. receiver_[r] \in Components /\ Msg[r] \in Messages
  BY <1>0 DEF LookupOverride, RefInv, OnlyReceiver
<1>9. /\ Override[receiver_[r]][Msg[r]] \in Executors \cup {None}
      /\ DefaultExecutor[receiver_[r]] \in Executors
  BY <1>8
<1>1. TypeOK'
  BY <1>0, <1>8, <1>9 DEF LookupOverride, Return, TypeOK, History, HandlerIds, compVars, brokerVars
<1>2. UNCHANGED <<brokerVars, compVars>>
  BY DEF LookupOverride
<1>3. \A d \in Components : Held(d)' => Held(d)
  BY <1>0 DEF LookupOverride, Return, Held, TypeOK, compVars
<1>4. ASSUME NEW s \in Refs, s # r PROVE RefInv(s)'
  <2>1. /\ handler_'[s] = handler_[s] /\ receivers_'[s] = receivers_[s]
        /\ receiver_'[s] = receiver_[s] /\ pc'[s] = pc[s] /\ snap'[s] = snap[s]
    BY <1>0, <1>4 DEF LookupOverride, Return, TypeOK
  <2> QED  BY <1>0, <1>2, <1>3, <2>1, OtherRef DEF compVars
<1>5. RefInv(r)'
  <2>1. BusyOwned(r)' /\ VersionsGrow(r)'
    BY <1>0 DEF LookupOverride, Return, RefInv, BusyOwned, VersionsGrow, TypeOK, compVars, brokerVars
  <2>2. SnapIsCurrent(r)'
    BY <1>0 DEF LookupOverride, Return, RefInv, SnapIsCurrent, VersionsGrow, Holds, Attached, TypeOK, brokerVars
  <2>3. OnlyReceiver(r)'
    BY <1>0 DEF LookupOverride, Return, RefInv, OnlyReceiver, TypeOK
  <2>4. ResolvedIsCurrent(r)'
    BY <1>0 DEF LookupOverride, Return, RefInv, ResolvedIsCurrent, OnlyReceiver, Attached, TypeOK, compVars, brokerVars
  <2>5. IdleIsCurrent(r)'
    <3> SUFFICES ASSUME NEW c \in Components, Attached(r)',
                        active_lookups_'[Msg[r]] = {c}, <<c, Msg[r]>> \notin filtering'
                 PROVE  handler_'[r] = <<c, filters'[c][Msg[r]]>> /\ receiver_'[r] = c
      BY DEF IdleIsCurrent
    <3>1. /\ pc[r] = "resolved" /\ Attached(r)
          /\ active_lookups_[Msg[r]] = {c} /\ <<c, Msg[r]>> \notin filtering
      BY DEF LookupOverride, Attached, brokerVars, compVars
    <3>2. receiver_[r] = c
      BY <1>0, <3>1 DEF RefInv, SnapIsCurrent, OnlyReceiver, Holds
    <3>3. handler_[r] = <<c, filters[c][Msg[r]]>>
      BY <1>0, <3>1, <3>2 DEF RefInv, ResolvedIsCurrent
    <3> QED  BY <3>2, <3>3 DEF LookupOverride, compVars
  <2>6. HandlerGoesWithReceiver(r)'
    BY <1>0 DEF LookupOverride, Return, RefInv, HandlerGoesWithReceiver, OnlyReceiver, ResolvedIsCurrent, TypeOK
  <2> QED  BY <2>1, <2>2, <2>3, <2>4, <2>5, <2>6 DEF RefInv
<1>6. FreedNotHeld'
  BY <1>0, <1>2, <1>3 DEF FreedNotHeld, compVars
<1>7. ListedWhilePublished'
  BY <1>0, <1>2, <1>3 DEF ListedWhilePublished, Unpublishing, brokerVars, compVars
<1> QED  BY <1>1, <1>4, <1>5, <1>6, <1>7 DEF IInv

\* Free keeps IInv: the references that go are idle, nobody holds the component.
LEMMA FreeStep ==
  ASSUME IInv, History, NEW c \in Components, Free(c)
  PROVE  IInv'
<1> USE MonoRefAssumption
<1>0. TypeOK /\ FreedNotHeld /\ ListedWhilePublished /\ \A r \in Refs : RefInv(r)
  BY DEF IInv
<1>1. c \notin owned /\ \A r \in Refs : Owner[r] = c => pc[r] = "idle"
  BY <1>0 DEF Free, Held, RefInv, BusyOwned
<1>2. TypeOK'
  BY <1>0, <1>1 DEF Free, DropRefs, TypeOK, History, HandlerIds, brokerVars
<1>3. \A d \in Components : Held(d)' => Held(d)
  BY <1>0 DEF Free, DropRefs, Held, TypeOK
<1>4. ASSUME NEW s \in Refs, Owner[s] # c PROVE RefInv(s)'
  <2>1. /\ handler_'[s] = handler_[s] /\ receivers_'[s] = receivers_[s]
        /\ receiver_'[s] = receiver_[s] /\ pc'[s] = pc[s] /\ snap'[s] = snap[s]
    BY <1>0, <1>4 DEF Free, DropRefs, TypeOK
  <2>2. UNCHANGED <<brokerVars, owned, filters, filtering>>
    BY DEF Free
  <2> QED  BY <1>0, <1>3, <2>1, <2>2, OtherRef
<1>5. ASSUME NEW s \in Refs, Owner[s] = c PROVE RefInv(s)'
  BY <1>0, <1>1, <1>5
  DEF Free, DropRefs, RefInv, BusyOwned, VersionsGrow, SnapIsCurrent, OnlyReceiver,
      ResolvedIsCurrent, IdleIsCurrent, HandlerGoesWithReceiver, Holds, TypeOK
<1>6. FreedNotHeld'
  BY <1>0, <1>3 DEF Free, FreedNotHeld, TypeOK
<1>7. ListedWhilePublished'
  BY <1>0, <1>3 DEF Free, ListedWhilePublished, Unpublishing, TypeOK, brokerVars
<1> QED  BY <1>2, <1>4, <1>5, <1>6, <1>7 DEF IInv
-----------------------------------------------------------------------------
\* IInv holds initially.
LEMMA InitInv == Init => IInv
<1> SUFFICES ASSUME Init PROVE IInv  OBVIOUS
<1> USE MonoRefAssumption DEF Init, BrokerInit
<1>1. TypeOK  BY DEF TypeOK, HandlerIds
<1>2. \A r \in Refs : RefInv(r)
  BY DEF RefInv, BusyOwned, VersionsGrow, SnapIsCurrent, OnlyReceiver, ResolvedIsCurrent,
         IdleIsCurrent, HandlerGoesWithReceiver, Holds
<1>3. FreedNotHeld /\ ListedWhilePublished
  BY DEF FreedNotHeld, ListedWhilePublished
<1> QED  BY <1>1, <1>2, <1>3 DEF IInv

\* IInv is inductive.
LEMMA Inductive == SafeSpec => []IInv
<1>1. IInv /\ [Next]_vars => IInv'
  <2> SUFFICES ASSUME IInv, [Next]_vars PROVE IInv'  OBVIOUS
  <2>1. ASSUME History, NEW r \in Refs, Lookup(r) PROVE IInv'
    BY <2>1, FetchStep, LockReceiversStep, LockReceiverStep, LookupHandlerStep, LookupOverrideStep
    DEF Lookup
  <2>2. ASSUME History, NEW c \in Components, NEW m \in Messages, PublishStep(c, m) PROVE IInv'
    BY <2>2, PublishAssociateStep, PublishHandlerStep, PublishOverrideStep, FilterReplaceStep,
       FilterInvalidateStep DEF PublishStep
  <2>3. ASSUME History, NEW c \in Components,
               Published(c) \/ Unpublish(c) \/ DropOwner(c) \/ Destructor(c)
        PROVE  IInv'
    BY <2>3, PublishedStep, UnpublishStep, DropOwnerStep, DestructorUnpublishStep,
       NestedUnpublishStep, FreeStep DEF Destructor
  <2>4. CASE UNCHANGED vars
    <3>1. TypeOK'  BY <2>4 DEF vars, brokerVars, compVars, refVars, IInv, TypeOK
    <3>2. \A c \in Components : Held(c)' => Held(c)
      BY <2>4 DEF vars, refVars, compVars, Held
    <3>3. \A r \in Refs : RefInv(r)'
      BY <2>4, <3>2, OtherRef DEF vars, brokerVars, compVars, refVars, IInv
    <3>4. FreedNotHeld' /\ ListedWhilePublished'
      BY <2>4, <3>2 DEF vars, brokerVars, compVars, IInv, FreedNotHeld, ListedWhilePublished, Unpublishing
    <3> QED  BY <3>1, <3>3, <3>4 DEF IInv
  <2>5. ASSUME History, NEW m \in Messages, Disassociate(m) PROVE IInv'
    BY <2>5, DisassociateStep
  <2> QED  BY <2>1, <2>2, <2>3, <2>4, <2>5 DEF Next, Step
<1> QED  BY <1>1, InitInv, PTL DEF SafeSpec

\* The fields have their types, and a lookup never dereferences a receiver it
\* could not lock.
THEOREM TypeCorrect == SafeSpec => []TypeOK
<1>1. IInv => TypeOK  BY DEF IInv
<1> QED  BY <1>1, Inductive, PTL

\* The cached path to a handler is what the broker and the receiver say, for
\* every wiring of components and whatever publishes, filters and unpublishes
\* while lookups are under way.
THEOREM CacheIsCurrentHolds == SafeSpec => []CacheIsCurrent
<1>1. IInv => CacheIsCurrent
  BY DEF IInv, RefInv, IdleIsCurrent, CacheIsCurrent, Hit, Attached
<1> QED  BY <1>1, Inductive, PTL

\* The raw handler pointer of a hit is kept alive by the receiver beside it.
THEOREM HandlerKeptAliveHolds == SafeSpec => []HandlerKeptAlive
<1>1. IInv => HandlerKeptAlive
  <2> SUFFICES ASSUME IInv, NEW r \in Refs, Hit(r), receiver_[r] # None
               PROVE  handler_[r][1] = receiver_[r] /\ life[receiver_[r]] # "freed"
    BY DEF HandlerKeptAlive
  <2>1. handler_[r][1] = receiver_[r]
    BY DEF IInv, RefInv, HandlerGoesWithReceiver, Hit
  <2>2. receiver_[r] \in Components /\ Held(receiver_[r])
    BY DEF IInv, TypeOK, Held
  <2> QED  BY <2>1, <2>2 DEF IInv, FreedNotHeld
<1> QED  BY <1>1, Inductive, PTL

\* The broker's lists have every component somebody holds that is associated, and
\* none whose disassociation they have seen, through all the copies that are made of
\* them.
THEOREM ListedWhilePublishedHolds == SafeSpec => []ListedWhilePublished
<1>1. IInv => ListedWhilePublished  BY DEF IInv
<1> QED  BY <1>1, Inductive, PTL

-----------------------------------------------------------------------------
\* FailsOnlyOnReplacedList: what is known besides of a lookup in steady, whose message
\* has had one published receiver since it began.

\* Who is on a list has begun to publish the message, and who is published has done so.
PublishInv ==
    /\ \A m \in Messages : \A c \in active_lookups_[m] : m \in Provides[c] /\ stage[c][m] # "none"
    /\ \A c \in Components : life[c] = "published" => \A m \in Provides[c] : stage[c][m] = "done"

\* The receiver of r is c, and whoever has read the list r points to has found c in it
\* and nobody else: no list with this version can have another content, although the
\* broker may have replaced it since.
SteadyOn(r, c) ==
    /\ pc[r] # "idle" /\ c \in owned /\ life[c] = "published" /\ active_lookups_[Msg[r]] = {c}
    /\ \A s \in Refs : Pins(s, r) => snap[s] = {c}

SteadyInv == \A r \in steady : \E c \in Components : SteadyOn(r, c)

\* A list gains or loses receivers in a step, not both.
LEMMA ListsComparable ==
  ASSUME TypeOK, Step, NEW m \in Messages
  PROVE  active_lookups_'[m] \subseteq active_lookups_[m]
         \/ active_lookups_[m] \subseteq active_lookups_'[m]
<1>1. ASSUME NEW r \in Refs, Lookup(r) PROVE UNCHANGED active_lookups_
  BY <1>1 DEF Lookup, Fetch, LockReceivers, LockReceiver, LookupHandler, LookupOverride, brokerVars
<1>2. ASSUME NEW c \in Components, NEW n \in Messages, PublishStep(c, n)
      PROVE  active_lookups_[m] \subseteq active_lookups_'[m]
  <2>1. CASE PublishAssociate(c, n)
    BY <2>1 DEF PublishAssociate, associate, Replace
  <2>2. CASE FilterInvalidate(c, n)
    BY <2>2 DEF FilterInvalidate, invalidate, Replace
  <2>3. CASE PublishHandler(c, n) \/ PublishOverride(c, n) \/ FilterReplace(c, n)
    BY <2>3 DEF PublishHandler, PublishOverride, FilterReplace, brokerVars
  <2> QED  BY <1>2, <2>1, <2>2, <2>3 DEF PublishStep
<1>3. ASSUME NEW c \in Components, Unpublish(c) \/ DestructorUnpublish(c) \/ NestedUnpublish(c)
      PROVE  active_lookups_'[m] \subseteq active_lookups_[m]
  BY <1>3 DEF Unpublish, DestructorUnpublish, disassociate_everything,
              NestedUnpublish, disassociate_nested, Replace
<1>5. ASSUME NEW n \in Messages, Disassociate(n)
      PROVE  active_lookups_'[m] \subseteq active_lookups_[m]
  BY <1>5 DEF Disassociate, disassociate, Replace
<1>4. ASSUME NEW c \in Components, Published(c) \/ DropOwner(c) \/ Free(c)
      PROVE  UNCHANGED active_lookups_
  BY <1>4 DEF Published, DropOwner, Free, brokerVars
<1> QED  BY <1>1, <1>2, <1>3, <1>4, <1>5 DEF Step, Destructor

\* PublishInv is inductive.
LEMMA PublishNext == TypeOK /\ PublishInv /\ [Next]_vars => PublishInv'
<1> SUFFICES ASSUME TypeOK, PublishInv, [Next]_vars PROVE PublishInv'  OBVIOUS
<1> USE MonoRefAssumption
<1>1. ASSUME NEW r \in Refs, Lookup(r) PROVE PublishInv'
  BY <1>1 DEF Lookup, Fetch, LockReceivers, LockReceiver, LookupHandler, LookupOverride,
              brokerVars, compVars, PublishInv
<1>2. ASSUME NEW c \in Components, NEW n \in Messages, PublishStep(c, n) PROVE PublishInv'
  <2>1. CASE PublishAssociate(c, n)
    BY <2>1 DEF PublishAssociate, associate, Replace, PublishInv, TypeOK
  <2>2. CASE FilterInvalidate(c, n)
    BY <2>2 DEF FilterInvalidate, invalidate, Replace, PublishInv, TypeOK
  <2>3. CASE PublishHandler(c, n)
    BY <2>3 DEF PublishHandler, brokerVars, PublishInv, TypeOK
  <2>4. CASE PublishOverride(c, n)
    BY <2>4 DEF PublishOverride, brokerVars, PublishInv, TypeOK
  <2>5. CASE FilterReplace(c, n)
    BY <2>5 DEF FilterReplace, brokerVars, PublishInv
  <2> QED  BY <1>2, <2>1, <2>2, <2>3, <2>4, <2>5 DEF PublishStep
<1>3. ASSUME NEW c \in Components, Unpublish(c) \/ DestructorUnpublish(c) PROVE PublishInv'
  BY <1>3 DEF Unpublish, DestructorUnpublish, disassociate_everything, compVars, PublishInv
<1>6. ASSUME UNCHANGED stage, \A m \in Messages : active_lookups_'[m] \subseteq active_lookups_[m],
             \A d \in Components : life'[d] = "published" => life[d] = "published"
      PROVE  PublishInv'
  BY <1>6 DEF PublishInv
<1>7. ASSUME NEW c \in Components, NestedUnpublish(c) PROVE PublishInv'
  <2>1. UNCHANGED stage /\ \A m \in Messages : active_lookups_'[m] \subseteq active_lookups_[m]
    BY <1>7 DEF NestedUnpublish, disassociate_nested, Replace
  <2>2. \A d \in Components : life'[d] = "published" => life[d] = "published"
    BY <1>7 DEF NestedUnpublish, TypeOK
  <2> QED  BY <1>6, <2>1, <2>2
<1>8. ASSUME NEW n \in Messages, Disassociate(n) PROVE PublishInv'
  <2>1. UNCHANGED stage /\ \A m \in Messages : active_lookups_'[m] \subseteq active_lookups_[m]
    BY <1>8 DEF Disassociate, disassociate, Replace
  <2>2. \A d \in Components : life'[d] = "published" => life[d] = "published"
    BY <1>8 DEF Disassociate, TypeOK
  <2> QED  BY <1>6, <2>1, <2>2
<1>4. ASSUME NEW c \in Components, Published(c) \/ DropOwner(c) \/ Free(c) PROVE PublishInv'
  <2>1. UNCHANGED <<active_lookups_, stage>>
    BY <1>4 DEF Published, DropOwner, Free, brokerVars
  <2>2. CASE Published(c)
    <3>1. \A m \in Provides[c] : stage[c][m] = "done"  BY <2>2 DEF Published
    <3>2. \A d \in Components : d # c => life'[d] = life[d]
      BY <2>2 DEF Published, TypeOK
    <3> QED  BY <2>1, <3>1, <3>2 DEF PublishInv
  <2>3. CASE DropOwner(c) \/ Free(c)
    <3>1. \A d \in Components : life'[d] = "published" => life[d] = "published"
      BY <2>3 DEF DropOwner, Free, TypeOK
    <3> QED  BY <2>1, <3>1 DEF PublishInv
  <2> QED  BY <1>4, <2>2, <2>3
<1>5. CASE UNCHANGED vars
  BY <1>5 DEF vars, brokerVars, compVars, PublishInv
<1> QED  BY <1>1, <1>2, <1>3, <1>4, <1>5, <1>7, <1>8 DEF Next, Step, Destructor

\* Whoever reads a list r points to finds in it what is known of that list.
LEMMA ReadsTheSame ==
  ASSUME TypeOK, NEW r \in Refs, NEW c \in Components, SteadyOn(r, c),
         NEW s \in Refs, Msg[s] = Msg[r], receivers_[s] = receivers_[r], ~Expired(s)
  PROVE  Receivers(s) = {c}
<1>1. CASE receivers_[s] = version[Msg[s]]  BY <1>1 DEF Receivers, SteadyOn
<1>2. CASE receivers_[s] # version[Msg[s]]
  <2>1. \E q \in Refs : Pins(q, s)  BY <1>2 DEF Expired
  <2>2. PICK q \in Refs : q = (CHOOSE p \in Refs : Pins(p, s)) /\ Pins(q, s)  BY <2>1
  <2>3. Pins(q, r)  BY <2>2 DEF Pins
  <2>4. Receivers(s) = snap[q]  BY <1>2, <2>2 DEF Receivers
  <2> QED  BY <2>3, <2>4 DEF SteadyOn
<1> QED  BY <1>1, <1>2

\* A lookup's step leaves what r's list is known to be, if r does not begin with it.
LEMMA LookupKeepsList ==
  ASSUME IInv, NEW r \in Refs, NEW c \in Components, SteadyOn(r, c),
         NEW q \in Refs, Lookup(q)
  PROVE  \A s \in Refs : Pins(s, r)' => snap'[s] = {c}
<1> USE MonoRefAssumption
<1>1. TypeOK  BY DEF IInv
<1>2. \A s \in Refs : Pins(s, r) => snap[s] = {c}  BY DEF SteadyOn
<1>3. pc[r] # "idle" /\ (Busy(Owner[q]) \/ r = q \/ pc[q] = "idle")  BY DEF SteadyOn, Busy
<1>4. CASE Fetch(q)
  <2>1. q # r  BY <1>3, <1>4 DEF Fetch, Busy
  <2>2. \A s \in Refs : Pins(s, r)' => Pins(s, r) /\ snap'[s] = snap[s]
    BY <1>1, <1>4, <2>1 DEF Fetch, Goto, Pins, Holds, TypeOK
  <2> QED  BY <1>2, <2>2
<1>5. CASE LockReceivers(q)
  <2>1. \A s \in Refs : s # q => (Pins(s, r)' => Pins(s, r) /\ snap'[s] = snap[s])
    BY <1>1, <1>5 DEF LockReceivers, Return, Goto, Pins, Holds, TypeOK
  <2>2. Pins(q, r)' => ~Expired(q) /\ snap'[q] = Receivers(q)
                       /\ Msg[q] = Msg[r] /\ receivers_[q] = receivers_[r]
    BY <1>1, <1>5 DEF LockReceivers, Return, Goto, Pins, Holds, TypeOK
  <2> QED  BY <1>1, <1>2, <2>1, <2>2, ReadsTheSame
<1>6. CASE LockReceiver(q)
  <2>1. \A s \in Refs : Pins(s, r)' => Pins(s, r) /\ snap'[s] = snap[s]
    BY <1>1, <1>6 DEF LockReceiver, TakeReceiver, Return, Goto, Pins, Holds, TypeOK
  <2> QED  BY <1>2, <2>1
<1>7. CASE LookupHandler(q) \/ LookupOverride(q)
  <2>1. \A s \in Refs : Pins(s, r)' => Pins(s, r) /\ snap'[s] = snap[s]
    BY <1>1, <1>7 DEF LookupHandler, LookupOverride, Return, Goto, Pins, Holds, TypeOK
  <2> QED  BY <1>2, <2>1
<1> QED  BY <1>4, <1>5, <1>6, <1>7 DEF Lookup

\* So do the steps of components: the one that is destroyed has no lookup under way.
LEMMA ComponentKeepsList ==
  ASSUME IInv, NEW r \in Refs, NEW c \in Components, SteadyOn(r, c), Step,
         ~ \E q \in Refs : Lookup(q)
  PROVE  (\A s \in Refs : Pins(s, r)' => snap'[s] = {c}) /\ UNCHANGED pc
<1>1. \A s \in Refs : Pins(s, r) => snap[s] = {c}  BY DEF SteadyOn
<1>2. CASE UNCHANGED refVars  BY <1>1, <1>2 DEF refVars, Pins, Holds
<1>3. ASSUME NEW d \in Components, Free(d)
      PROVE  (\A s \in Refs : Pins(s, r)' => snap'[s] = {c}) /\ UNCHANGED pc
  <2>1. d \notin owned  BY <1>3 DEF Free, Held
  <2>2. \A s \in Refs : pc[s] # "idle" => Owner[s] # d  BY <2>1 DEF IInv, RefInv, BusyOwned
  <2>3. UNCHANGED <<pc, snap>> /\ \A s \in Refs : Owner[s] # d => receivers_'[s] = receivers_[s]
    BY <1>3 DEF Free, DropRefs
  <2>4. \A s \in Refs : Pins(s, r)' => Pins(s, r)
    BY <2>2, <2>3 DEF Pins, Holds, SteadyOn
  <2> QED  BY <1>1, <2>3, <2>4
<1>4. UNCHANGED refVars \/ \E d \in Components : Free(d)
  BY DEF Step, PublishStep, Destructor, PublishAssociate, PublishHandler, PublishOverride,
         FilterReplace, FilterInvalidate, Published, Unpublish, DropOwner, DestructorUnpublish,
         NestedUnpublish, Disassociate
<1> QED  BY <1>2, <1>3, <1>4

\* Nobody gets a component back that the application has dropped.
LEMMA OwnedShrinks == Step => owned' \subseteq owned
BY DEF Step, Lookup, Fetch, LockReceivers, LockReceiver, LookupHandler, LookupOverride,
       PublishStep, Destructor, PublishAssociate, PublishHandler, PublishOverride,
       FilterReplace, FilterInvalidate, Published, Unpublish, DropOwner,
       DestructorUnpublish, NestedUnpublish, Disassociate, Free, compVars

\* A lookup begins with broker_.lookup().
LEMMA StartsByFetch ==
  ASSUME TypeOK, Step, NEW r \in Refs, pc[r] = "idle", pc'[r] # "idle"
  PROVE  Fetch(r)
<1>1. ASSUME NEW q \in Refs, Lookup(q), q # r PROVE pc'[r] = pc[r]
  BY <1>1 DEF Lookup, Fetch, LockReceivers, LockReceiver, TakeReceiver, LookupHandler,
              LookupOverride, Return, Goto, TypeOK
<1>2. Lookup(r) \/ (\E q \in Refs : q # r /\ Lookup(q)) \/ UNCHANGED pc
  BY DEF Step, PublishStep, Destructor, PublishAssociate, PublishHandler, PublishOverride,
         FilterReplace, FilterInvalidate, Published, Unpublish, DropOwner,
         DestructorUnpublish, NestedUnpublish, Disassociate, Free, DropRefs, refVars
<1>3. Lookup(r)  BY <1>1, <1>2
<1> QED  BY <1>3 DEF Lookup, LockReceivers, LockReceiver, LookupHandler, LookupOverride

\* SteadyInv is kept by every step: a lookup that was in steady stays with its receiver,
\* and one that begins has read nothing yet; who has read the current list read what
\* it has now.
LEMMA SteadyNext == IInv /\ SteadyInv /\ [Next]_vars => SteadyInv'
<1> SUFFICES ASSUME IInv, SteadyInv, [Next]_vars PROVE SteadyInv'  OBVIOUS
<1> USE MonoRefAssumption
<1>1. CASE UNCHANGED vars
  <2>1. \A r \in Refs, c \in Components : SteadyOn(r, c) => SteadyOn(r, c)'
    BY <1>1 DEF vars, brokerVars, compVars, refVars, SteadyOn, Pins, Holds
  <2>2. UNCHANGED steady /\ steady \subseteq Refs  BY <1>1 DEF vars, IInv, TypeOK
  <2> QED  BY <2>1, <2>2 DEF SteadyInv
<1>2. ASSUME Step, History, NEW r \in steady' PROVE \E c \in Components : SteadyOn(r, c)'
  <2>1. r \in Refs /\ pc'[r] # "idle" /\ (pc[r] = "idle" \/ r \in steady) /\ Served(r)'
    BY <1>2 DEF History
  <2>2. PICK d \in owned' : active_lookups_'[Msg[r]] = {d} /\ life'[d] = "published"
    BY <2>1 DEF Served
  <2>3. d \in Components
    BY <1>2, <2>2, OwnedShrinks DEF IInv, TypeOK
  <2>4. CASE pc[r] = "idle"
    <3>1. Fetch(r)  BY <1>2, <2>1, <2>4, StartsByFetch DEF IInv
    <3>2. receivers_'[r] = version[Msg[r]] /\ UNCHANGED brokerVars
          /\ \A s \in Refs : s # r => pc'[s] = pc[s] /\ snap'[s] = snap[s]
                                       /\ receivers_'[s] = receivers_[s]
      BY <2>1, <3>1 DEF Fetch, lookup, Goto, IInv, TypeOK
    <3>3. pc'[r] = "fetched"  BY <2>1, <3>1 DEF Fetch, Goto, IInv, TypeOK
    <3>4. ASSUME NEW s \in Refs, Pins(s, r)' PROVE snap'[s] = {d}
      <4>1. s # r /\ Holds(s) /\ Msg[s] = Msg[r] /\ receivers_[s] = version[Msg[r]]
        BY <3>2, <3>3, <3>4 DEF Pins, Holds
      <4>2. snap[s] = active_lookups_[Msg[r]]
        BY <4>1 DEF IInv, RefInv, SnapIsCurrent, Attached
      <4> QED  BY <2>2, <3>2, <4>1, <4>2 DEF brokerVars
    <3> QED  BY <2>1, <2>2, <2>3, <3>4 DEF SteadyOn
  <2>5. CASE pc[r] # "idle"
    <3>1. PICK c \in Components : SteadyOn(r, c)  BY <2>1, <2>5 DEF SteadyInv
    <3>2. c = d
      BY <1>2, <2>1, <2>2, <3>1, ListsComparable DEF SteadyOn, IInv
    <3>3. \A s \in Refs : Pins(s, r)' => snap'[s] = {c}
      BY <1>2, <2>1, <3>1, LookupKeepsList, ComponentKeepsList
    <3> QED  BY <2>1, <2>2, <2>3, <3>2, <3>3 DEF SteadyOn
  <2> QED  BY <2>4, <2>5
<1> QED  BY <1>1, <1>2 DEF Next, SteadyInv

\* A lookup of a message with one published receiver from its begin to its end does
\* not meet a list of another size, a receiver it cannot lock or one without a handler,
\* whatever is published, filtered and dropped meanwhile: it fails only when the list was
\* replaced between broker_.lookup() and receivers_.lock().
THEOREM FailsOnlyOnReplacedListHolds == SafeSpec => FailsOnlyOnReplacedList
<1> USE MonoRefAssumption
<1>1. ASSUME IInv, PublishInv, SteadyInv, Next, NEW r \in steady, pc'[r] = "idle", pc[r] # "resolved"
      PROVE  pc[r] = "fetched" /\ receivers_[r] # version[Msg[r]]
  <2>1. TypeOK /\ r \in Refs  BY <1>1 DEF IInv, TypeOK
  <2>2. PICK c \in Components : SteadyOn(r, c)  BY <1>1 DEF SteadyInv
  <2>3. pc[r] # "idle" /\ Held(c)  BY <2>2 DEF SteadyOn, Held
  <2>4. Holds(r) => snap[r] = {c}  BY <2>1, <2>2 DEF SteadyOn, Pins
  <2>5. PICK q \in Refs : Lookup(q)
    BY <1>1, <2>1, <2>2, <2>3, ComponentKeepsList DEF Next
  <2>6. q = r
    BY <1>1, <2>1, <2>3, <2>5 DEF Lookup, Fetch, LockReceivers, LockReceiver, TakeReceiver,
       LookupHandler, LookupOverride, Return, Goto, TypeOK
  <2>7. ~Fetch(r) /\ ~LookupOverride(r)
    BY <1>1, <2>1, <2>3 DEF Fetch, Goto, LookupOverride, TypeOK
  <2>8. ~LockReceiver(r)
    <3> SUFFICES ASSUME LockReceiver(r) PROVE FALSE  OBVIOUS
    <3>1. pc[r] = "listed" /\ snap[r] = {c}  BY <2>4 DEF LockReceiver, Holds
    <3>2. TakeReceiver(r, c)  BY <3>1 DEF LockReceiver
    <3>3. pc' = [pc EXCEPT ![r] = "located"]  BY <2>3, <3>2 DEF TakeReceiver, Goto
    <3> QED  BY <1>1, <2>1, <3>3 DEF TypeOK
  <2>9. ~LookupHandler(r)
    <3> SUFFICES ASSUME LookupHandler(r) PROVE FALSE  OBVIOUS
    <3>1. pc[r] = "located"  BY DEF LookupHandler
    <3>2. receiver_[r] = c  BY <1>1, <2>1, <2>4, <3>1 DEF Holds, IInv, RefInv, OnlyReceiver
    <3>3. stage[c][Msg[r]] = "done"  BY <1>1, <2>1, <2>2 DEF PublishInv, SteadyOn
    <3> QED  BY <1>1, <2>1, <3>1, <3>2, <3>3 DEF LookupHandler, Goto, TypeOK
  <2>10. LockReceivers(r)  BY <2>5, <2>6, <2>7, <2>8, <2>9 DEF Lookup
  <2> QED  BY <1>1, <2>1, <2>10 DEF LockReceivers, Expired, Goto, TypeOK
<1>2. Init => PublishInv /\ SteadyInv
  BY DEF Init, BrokerInit, PublishInv, SteadyInv
<1>3. IInv /\ PublishInv /\ SteadyInv /\ [Next]_vars => PublishInv' /\ SteadyInv'
  BY PublishNext, SteadyNext DEF IInv
<1>4. IInv /\ PublishInv /\ SteadyInv /\ [Next]_vars =>
        [\A r \in steady : pc'[r] = "idle" /\ pc[r] # "resolved" =>
            pc[r] = "fetched" /\ receivers_[r] # version[Msg[r]]]_vars
  BY <1>1
<1> QED  BY <1>2, <1>3, <1>4, Inductive, PTL DEF SafeSpec, FailsOnlyOnReplacedList
=============================================================================

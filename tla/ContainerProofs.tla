-------------------------- MODULE ContainerProofs --------------------------
(***************************************************************************)
(* The lists of the two containers, for every value of the constants.      *)
(* Most calls leave both lists and the use and the id of every channel     *)
(* alone: one lemma per side says that this is enough (PackKept,           *)
(* ReaderKept), and what is left are the calls that define, close and      *)
(* free channels.  Then the types of both containers, of the channels and  *)
(* of the file between them, and what a call that writes for several       *)
(* channels at once leaves in the file.                                    *)
(***************************************************************************)
EXTENDS OticContainers, FiniteSetTheorems, SequenceTheorems, TLAPS

(* The fields of the records, whatever their values. *)
IsPack(p) ==
  /\ p = [state |-> p.state, linked |-> p.linked, next |-> p.next]
  /\ p.linked \subseteq Handles /\ p.next \in 1 .. MaxHandles + 1

IsChan(c) ==
  c = [use |-> c.use, id |-> c.id, state |-> c.state, error |-> c.error, names |-> c.names,
       ts |-> c.ts, rowCounter |-> c.rowCounter, bucket |-> c.bucket]

IsUnp(u) ==
  /\ u = [state |-> u.state, linked |-> u.linked, next |-> u.next, by |-> u.by, at |-> u.at,
          fresh |-> u.fresh, inCall |-> u.inCall, ended |-> u.ended, astray |-> u.astray]
  /\ u.linked \subseteq Readers /\ u.next \in 1 .. MaxReaders + 1

IsReader(c) ==
  c = [use |-> c.use, id |-> c.id, state |-> c.state, entries |-> c.entries, ts |-> c.ts,
       rowCounter |-> c.rowCounter, block |-> c.block, complete |-> c.complete]

(* The two halves of ListsExact, the first one member by member. *)
PackExact ==
  /\ \A h \in Handles : h \in Live <=> h \in pack.linked /\ chan[h].use # "dropped"
  /\ \A g, h \in Live : chan[g].id = chan[h].id => g = h

ReaderExact ==
  /\ unp.linked = LiveReaders
  /\ \A g, h \in LiveReaders : reader[g].id = reader[h].id => g = h

(* The inductive invariants: the handles malloc has not returned yet are unused. *)
PackInv ==
  /\ IsPack(pack) /\ chan = [h \in Handles |-> chan[h]]
  /\ \A h \in Handles : IsChan(chan[h])
  /\ \A h \in Handles : h >= pack.next => chan[h].use = "unused"
  /\ PackExact

ReaderInv ==
  /\ IsUnp(unp) /\ reader = [h \in Readers |-> reader[h]]
  /\ \A h \in Readers : IsReader(reader[h])
  /\ \A h \in Readers : h >= unp.next => reader[h].use = "unused"
  /\ ReaderExact

ListsInv == PackInv /\ ReaderInv

(* The same channel, with other contents; the same list, in another state. *)
SameChan(c, d) == IsChan(d) /\ d.use = c.use /\ d.id = c.id
SameReader(c, d) == IsReader(d) /\ d.use = c.use /\ d.id = c.id
SameList(p, q) == q.linked = p.linked /\ q.next = p.next

-----------------------------------------------------------------------------
(* What every call on the packer's side keeps, and the transformers that   *)
(* keep it.                                                                *)

LEMMA PackKept ==
  ASSUME PackInv, IsPack(pack'), SameList(pack, pack'),
         chan' = [h \in Handles |-> chan'[h]],
         \A h \in Handles : SameChan(chan[h], chan'[h])
  PROVE  PackInv'
<1>1. Live' = Live
  BY DEF Live, SameChan
<1>2. Live \subseteq Handles /\ pack.linked \subseteq Handles
  BY DEF PackInv, IsPack, Live
<1>3. PackExact'
  <2>1. \A g, h \in Live' : chan'[g].id = chan'[h].id => g = h
    <3>1. \A g, h \in Live : chan[g].id = chan[h].id => g = h
      BY DEF PackInv, PackExact
    <3>2. \A h \in Live : chan'[h].id = chan[h].id
      BY <1>2 DEF SameChan
    <3> QED
      BY <1>1, <3>1, <3>2
  <2>2. \A h \in Handles : h \in Live' <=> h \in pack'.linked /\ chan'[h].use # "dropped"
    <3>1. \A h \in Handles : h \in Live <=> h \in pack.linked /\ chan[h].use # "dropped"
      BY DEF PackInv, PackExact
    <3>2. pack'.linked = pack.linked
      BY DEF SameList
    <3>3. \A h \in Handles : chan'[h].use = chan[h].use
      BY DEF SameChan
    <3> QED
      BY <1>1, <3>1, <3>2, <3>3
  <2> QED
    BY <2>1, <2>2 DEF PackExact
<1>4. \A h \in Handles : h >= pack'.next => chan'[h].use = "unused"
  BY DEF PackInv, SameChan, SameList
<1> QED
  BY <1>3, <1>4 DEF PackInv, SameChan

LEMMA FlushedKeeps ==
  ASSUME NEW c, IsChan(c), NEW r
  PROVE  SameChan(c, FlushedChannel(c, r))
  BY DEF IsChan, SameChan, FlushedChannel

LEMMA HeardKeeps ==
  ASSUME IsPack(pack), NEW f
  PROVE  IsPack(HeardOf(f)) /\ SameList(pack, HeardOf(f))
  BY DEF IsPack, SameList, HeardOf

LEMMA EndedKeeps ==
  ASSUME NEW c, IsChan(c)
  PROVE  SameChan(c, Ended(c))
  BY SMT DEF IsChan, SameChan, Ended

LEMMA CountedKeeps ==
  ASSUME NEW c, IsChan(c), NEW b, NEW k
  PROVE  SameChan(c, [c EXCEPT !.bucket = b, !.rowCounter = k])
<1> DEFINE e == [c EXCEPT !.bucket = b]
           d == [e EXCEPT !.rowCounter = k]
<1>1. SameChan(c, e)
  BY DEF IsChan, SameChan
<1>2. \A x : IsChan(x) => SameChan(x, [x EXCEPT !.rowCounter = k])
  BY DEF IsChan, SameChan
<1>3. d = [c EXCEPT !.bucket = b, !.rowCounter = k]
  OBVIOUS
<1> QED
  BY <1>1, <1>2, <1>3 DEF SameChan

LEMMA StampedKeeps ==
  ASSUME NEW c, IsChan(c), NEW t
  PROVE  SameChan(c, Stamped(c, t))
  BY DEF IsChan, SameChan, Stamped

LEMMA WrittenKeeps ==
  ASSUME NEW c, IsChan(c), NEW n, NEW v
  PROVE  SameChan(c, Written(Named(c, n), n, v))
<1> DEFINE m == Named(c, n)
<1>1. SameChan(c, m)
  BY DEF IsChan, SameChan, Named
<1>2. SameChan(m, Written(m, n, v))
  <2>1. IsChan(m)
    BY <1>1 DEF SameChan
  <2> HIDE DEF m
  <2> QED
    BY <2>1, CountedKeeps DEF Written
<1> QED
  BY <1>1, <1>2 DEF SameChan

LEMMA FailedKeeps ==
  ASSUME NEW c, IsChan(c), NEW e, NEW s
  PROVE  SameChan(c, Failed(c, e, s))
<1> DEFINE d == [c EXCEPT !.error = e]
<1>1. SameChan(c, d)
  BY DEF IsChan, SameChan
<1>2. \A x : IsChan(x) => SameChan(x, [x EXCEPT !.state = s])
  BY DEF IsChan, SameChan
<1>3. Failed(c, e, s) = [d EXCEPT !.state = s]
  BY DEF Failed
<1> HIDE DEF d
<1> QED
  BY <1>1, <1>2, <1>3 DEF SameChan

(* A channel is closed: flushed for the last time and out of use. *)
LEMMA ClosedKeeps ==
  ASSUME NEW c, IsChan(c), NEW r
  PROVE  /\ IsChan(ChannelClosed(c, r))
         /\ ChannelClosed(c, r).use = "closed" /\ ChannelClosed(c, r).id = c.id
<1> DEFINE d == FlushedChannel(Ended(c), r)
<1>1. IsChan(d) /\ d.id = c.id
  BY EndedKeeps, FlushedKeeps DEF SameChan
<1>2. ChannelClosed(c, r) = [d EXCEPT !.use = "closed"]
  BY DEF ChannelClosed
<1> HIDE DEF d
<1> QED
  BY <1>1, <1>2 DEF IsChan

(* One channel's contents change, and perhaps the container's state. *)
LEMMA OneKept ==
  ASSUME PackInv, NEW g \in Handles, NEW d, SameChan(chan[g], d),
         chan' = [chan EXCEPT ![g] = d], IsPack(pack'), SameList(pack, pack')
  PROVE  PackInv'
<1>1. chan' = [h \in Handles |-> chan'[h]]
  BY DEF PackInv
<1>2. \A h \in Handles : SameChan(chan[h], chan'[h])
  BY DEF PackInv, SameChan
<1> QED
  BY <1>1, <1>2, PackKept

(* A call at work, whatever it has flushed by now. *)
LEMMA FlushedWork ==
  ASSUME NEW c, NEW w, SameChan(c, w.chan), NEW r
  PROVE  SameChan(c, Flushed(w, r).chan)
  BY FlushedKeeps DEF Flushed, SameChan

LEMMA MaybeFlushedWork ==
  ASSUME NEW c, NEW w, SameChan(c, w.chan), NEW z \in FlushedOrNot(w)
  PROVE  SameChan(c, z.chan)
  BY FlushedWork DEF FlushedOrNot

LEMMA RoomWork ==
  ASSUME NEW c, NEW w, SameChan(c, w.chan), NEW x \in RoomMade(w)
  PROVE  SameChan(c, x.chan)
  BY FlushedWork DEF RoomMade

LEMMA TimedWork ==
  ASSUME NEW c, IsChan(c), NEW t, NEW w \in Timed(c, t)
  PROVE  SameChan(c, w.chan)
<1>1. CASE c.ts = t
  BY <1>1 DEF Timed, Begun, SameChan
<1>2. CASE c.ts # t
  <2> DEFINE b == Begun(Stamped(c, t))
  <2>1. SameChan(c, b.chan)
    BY StampedKeeps DEF Begun
  <2>2. w \in FlushedOrNot(b)
    BY <1>2 DEF Timed
  <2> HIDE DEF b
  <2> QED
    BY <2>1, <2>2, MaybeFlushedWork
<1> QED
  BY <1>1, <1>2

(* The call is over. *)
LEMMA WorkKept ==
  ASSUME PackInv, NEW h \in Handles, NEW w, SameChan(chan[h], w.chan), Leaves(h, w)
  PROVE  PackInv'
  BY HeardKeeps, OneKept DEF Leaves, PackInv

-----------------------------------------------------------------------------
(* The calls of the packer. *)

LEMMA InitPack == PackInit => PackInv
<1> SUFFICES ASSUME PackInit PROVE PackInv
  OBVIOUS
<1>1. IsPack(pack) /\ pack.linked = {}
  BY ContainerAssumption DEF PackInit, IsPack
<1>2. \A h \in Handles : chan[h] = NewChannel(0, "unused")
  BY DEF PackInit
<1>3. \A h \in Handles : IsChan(chan[h]) /\ chan[h].use = "unused"
  BY <1>2 DEF NewChannel, IsChan
<1>4. Live = {}
  BY <1>3 DEF Live
<1>5. chan = [h \in Handles |-> chan[h]]
  BY DEF PackInit
<1> QED
  BY <1>1, <1>3, <1>4, <1>5 DEF PackInv, PackExact

LEMMA InjectKeeps ==
  ASSUME PackInv, NEW h \in Handles, NEW t, NEW n, NEW v, Inject(h, t, n, v)
  PROVE  PackInv'
<1>1. PICK w \in Timed(chan[h], t) :
        \E x \in RoomMade(w) :
          \E z \in FlushedOrNot(On(x, Written(Named(x.chan, n), n, v))) : Leaves(h, z)
  BY Zenon DEF Inject
<1>2. PICK x \in RoomMade(w) :
        \E z \in FlushedOrNot(On(x, Written(Named(x.chan, n), n, v))) : Leaves(h, z)
  BY <1>1
<1>3. SameChan(chan[h], x.chan)
  BY <1>1, <1>2, TimedWork, RoomWork DEF PackInv
<1> DEFINE y == On(x, Written(Named(x.chan, n), n, v))
<1>4. SameChan(chan[h], y.chan)
  BY <1>3, WrittenKeeps DEF On, SameChan
<1>5. PICK z \in FlushedOrNot(y) : Leaves(h, z)
  BY <1>2
<1> HIDE DEF y
<1> QED
  BY <1>4, <1>5, MaybeFlushedWork, WorkKept

LEMMA InjectRefusedKeeps ==
  ASSUME PackInv, NEW h \in Handles, NEW t, NEW state, InjectRefused(h, t, state)
  PROVE  PackInv'
<1>1. IsChan(chan[h])
  BY DEF PackInv
<1>2. CASE Leaves(h, Begun(Failed(chan[h], "REFUSED", state)))
  <2>1. SameChan(chan[h], Begun(Failed(chan[h], "REFUSED", state)).chan)
    BY <1>1, FailedKeeps DEF Begun
  <2> QED
    BY <1>2, <2>1, WorkKept
<1>3. CASE \E w \in Timed(chan[h], t) : \E x \in RoomMade(w) : Leaves(h, On(x, Failed(x.chan, "REFUSED", state)))
  <2>1. PICK w \in Timed(chan[h], t) : \E x \in RoomMade(w) : Leaves(h, On(x, Failed(x.chan, "REFUSED", state)))
    BY <1>3
  <2>2. PICK x \in RoomMade(w) : Leaves(h, On(x, Failed(x.chan, "REFUSED", state)))
    BY <2>1
  <2>3. SameChan(chan[h], x.chan)
    BY <1>1, <2>1, <2>2, TimedWork, RoomWork
  <2>4. SameChan(chan[h], On(x, Failed(x.chan, "REFUSED", state)).chan)
    BY <2>3, FailedKeeps DEF On, SameChan
  <2> QED
    BY <2>2, <2>4, WorkKept
<1>4. CASE \E w \in Timed(chan[h], t) : \E r \in FlushResults : Leaves(h, Flushed(w, r))
  <2>1. PICK w \in Timed(chan[h], t) : \E r \in FlushResults : Leaves(h, Flushed(w, r))
    BY <1>4
  <2>2. PICK r \in FlushResults : Leaves(h, Flushed(w, r))
    BY <2>1
  <2>3. SameChan(chan[h], Flushed(w, r).chan)
    BY <1>1, <2>1, TimedWork, FlushedWork
  <2> QED
    BY <2>2, <2>3, WorkKept
<1> QED
  BY Zenon, <1>2, <1>3, <1>4 DEF InjectRefused

LEMMA FlushKeeps ==
  ASSUME PackInv, NEW h \in Handles, ChannelFlush(h)
  PROVE  PackInv'
<1>1. PICK r \in FlushResults : Leaves(h, Flushed(Begun(chan[h]), r))
  BY DEF ChannelFlush
<1>2. SameChan(chan[h], Begun(chan[h]).chan)
  BY DEF PackInv, SameChan, Begun
<1> QED
  BY <1>1, <1>2, FlushedWork, WorkKept

(* A channel leaves the list when it is closed. *)
LEMMA CloseKeeps ==
  ASSUME PackInv, NEW h \in Handles, ChannelClose(h)
  PROVE  PackInv'
<1>1. PICK r \in FlushResults : /\ chan' = [chan EXCEPT ![h] = ChannelClosed(@, r)]
                                /\ pack' = Unlinked(HeardOf(r # "ok"), h)
  BY DEF ChannelClose
<1>2. h \in Live
  BY DEF ChannelClose
<1>3. IsPack(HeardOf(r # "ok")) /\ SameList(pack, HeardOf(r # "ok"))
  BY HeardKeeps DEF PackInv
<1>4. IsPack(pack') /\ pack'.linked = pack.linked \ {h} /\ pack'.next = pack.next
  BY <1>1, <1>3 DEF IsPack, SameList, Unlinked
<1>5. /\ chan' = [g \in Handles |-> chan'[g]]
      /\ chan'[h] = ChannelClosed(chan[h], r)
      /\ \A g \in Handles \ {h} : chan'[g] = chan[g]
  BY <1>1 DEF PackInv
<1>6. IsChan(chan'[h]) /\ chan'[h].use = "closed"
  BY <1>5, ClosedKeeps DEF PackInv
<1>7. Live' = Live \ {h}
  BY <1>5, <1>6 DEF Live
<1>8. \A g \in Handles : g >= pack'.next => chan'[g].use = "unused"
  BY <1>2, <1>4, <1>5 DEF PackInv, Live
<1>9. PackExact'
  <2>1. \A g, k \in Live' : chan'[g].id = chan'[k].id => g = k
    BY <1>5, <1>7 DEF PackInv, PackExact, Live
  <2>2. \A g \in Handles : g \in Live' <=> g \in pack'.linked /\ chan'[g].use # "dropped"
    BY <1>4, <1>5, <1>7 DEF PackInv, PackExact
  <2> QED
    BY <2>1, <2>2 DEF PackExact
<1>10. \A g \in Handles : IsChan(chan'[g])
  BY <1>5, <1>6 DEF PackInv
<1> QED
  BY <1>4, <1>5, <1>8, <1>9, <1>10 DEF PackInv

(* The new channel is the next handle, and its id is in nobody's use. *)
LEMMA DefineKeeps ==
  ASSUME PackInv, NEW id, DefineChannel(id)
  PROVE  PackInv'
<1> DEFINE n == pack.next
<1>1. /\ n \in Handles /\ ~Occupied(id)
      /\ chan' = [chan EXCEPT ![n] = NewChannel(id, "live")]
      /\ pack' = [pack EXCEPT !.linked = @ \cup {n}, !.next = @ + 1]
  BY DEF DefineChannel
<1>2. n \in 1 .. MaxHandles /\ n + 1 \in 1 .. MaxHandles + 1
  BY <1>1, ContainerAssumption DEF Handles
<1>3. /\ pack' = [state |-> pack.state, linked |-> pack.linked \cup {n}, next |-> n + 1]
      /\ pack.linked \subseteq Handles
  BY <1>1 DEF PackInv, IsPack
<1>4. IsPack(pack') /\ pack'.linked = pack.linked \cup {n} /\ pack'.next = n + 1
  BY <1>1, <1>2, <1>3 DEF IsPack
<1>5. /\ chan' = [g \in Handles |-> chan'[g]]
      /\ chan'[n] = NewChannel(id, "live")
      /\ \A g \in Handles \ {n} : chan'[g] = chan[g]
  BY <1>1 DEF PackInv
<1>6. IsChan(chan'[n]) /\ chan'[n].use = "live" /\ chan'[n].id = id
  BY <1>5 DEF NewChannel, IsChan
<1>7. Live' = Live \cup {n}
  BY <1>1, <1>5, <1>6 DEF Live
<1>8. \A g \in Handles : g >= pack'.next => chan'[g].use = "unused"
  BY <1>2, <1>4, <1>5 DEF PackInv, Handles
<1>9. n \notin Live
  BY <1>1, <1>2 DEF PackInv, Live, Handles
<1>10. PackExact'
  <2>1. \A g \in Live : chan[g].id # id
    BY <1>1 DEF PackInv, PackExact, Occupied, Live
  <2>2. \A g, k \in Live' : chan'[g].id = chan'[k].id => g = k
    BY <1>5, <1>6, <1>7, <1>9, <2>1 DEF PackInv, PackExact, Live
  <2>3. \A g \in Handles : g \in Live' <=> g \in pack'.linked /\ chan'[g].use # "dropped"
    BY <1>4, <1>5, <1>6, <1>7 DEF PackInv, PackExact
  <2> QED
    BY <2>2, <2>3 DEF PackExact
<1>11. \A g \in Handles : IsChan(chan'[g])
  BY <1>5, <1>6 DEF PackInv
<1> QED
  BY <1>4, <1>5, <1>8, <1>10, <1>11 DEF PackInv

(* Calls that touch no channel. *)
LEMMA StateKeeps ==
  ASSUME PackInv, NEW x, pack' = [pack EXCEPT !.state = x], UNCHANGED chan
  PROVE  PackInv'
<1>1. IsPack(pack') /\ SameList(pack, pack')
  BY DEF PackInv, IsPack, SameList
<1>2. chan' = [h \in Handles |-> chan'[h]]
  BY DEF PackInv
<1>3. \A h \in Handles : SameChan(chan[h], chan'[h])
  BY DEF PackInv, SameChan
<1> QED
  BY <1>1, <1>2, <1>3, PackKept

(* A channel that was found is freed, and stays in the list but as its head. *)
LEMMA CloseChannelKeeps ==
  ASSUME PackInv, NEW id, CloseChannel(id)
  PROVE  PackInv'
<1> DEFINE found == {h \in pack.linked : chan[h].id = id}
<1>1. PICK gone \in SUBSET found :
        /\ chan' = [h \in Handles |-> IF h \in found THEN [chan[h] EXCEPT !.use = "dropped"] ELSE chan[h]]
        /\ pack' = [pack EXCEPT !.state = "ON_ERROR", !.linked = @ \ gone]
  <2> DEFINE head == Max(pack.linked)
  <2>1. /\ chan' = [h \in Handles |-> IF h \in found THEN [chan[h] EXCEPT !.use = "dropped"] ELSE chan[h]]
        /\ pack' = [pack EXCEPT !.state = "ON_ERROR",
                      !.linked = IF found = {} THEN @ ELSE @ \ (found \cap {head})]
    BY DEF CloseChannel
  <2>2. CASE found = {}
    <3> WITNESS {} \in SUBSET found
    <3> HIDE DEF found, head
    <3>1. pack.linked \ {} = pack.linked
      OBVIOUS
    <3> QED
      BY <2>1, <2>2, <3>1
  <2>3. CASE found # {}
    <3> WITNESS found \cap {head} \in SUBSET found
    <3> HIDE DEF found, head
    <3> QED
      BY <2>1, <2>3
  <2> QED
    BY Zenon, <2>2, <2>3
<1>2. found \subseteq Handles /\ \A h \in found : h \in pack.linked
  BY DEF PackInv, IsPack
<1> HIDE DEF found
<1>3. IsPack(pack') /\ pack'.linked = pack.linked \ gone /\ pack'.next = pack.next
  BY <1>1 DEF PackInv, IsPack
<1>4. chan' = [h \in Handles |-> chan'[h]]
  BY <1>1
<1>5. \A h \in Handles \ found : chan'[h] = chan[h]
  BY <1>1
<1>6. \A h \in found : IsChan(chan'[h]) /\ chan'[h].use = "dropped"
  <2> SUFFICES ASSUME NEW h \in found PROVE IsChan(chan'[h]) /\ chan'[h].use = "dropped"
    OBVIOUS
  <2>1. chan'[h] = [chan[h] EXCEPT !.use = "dropped"] /\ IsChan(chan[h])
    BY <1>1, <1>2 DEF PackInv
  <2> QED
    BY <2>1 DEF IsChan
<1>7. Live' = Live \ found
  BY <1>2, <1>5, <1>6 DEF Live
<1>8. \A h \in Handles : h >= pack'.next => chan'[h].use = "unused"
  <2>1. \A h \in found : ~(h >= pack.next)
    BY <1>2 DEF PackInv, PackExact, Live
  <2> QED
    BY <1>3, <1>5, <2>1 DEF PackInv
<1>9. PackExact'
  <2>1. \A g, k \in Live' : chan'[g].id = chan'[k].id => g = k
    BY <1>5, <1>7 DEF PackInv, PackExact, Live
  <2>2. \A g \in Handles : g \in Live' <=> g \in pack'.linked /\ chan'[g].use # "dropped"
    BY <1>1, <1>3, <1>5, <1>6, <1>7 DEF PackInv, PackExact
  <2> QED
    BY <2>1, <2>2 DEF PackExact
<1>10. \A h \in Handles : IsChan(chan'[h])
  BY <1>5, <1>6 DEF PackInv
<1> QED
  BY <1>3, <1>4, <1>8, <1>9, <1>10 DEF PackInv

(* Channel by channel: the buckets are emptied, an error may be set. *)
LEMMA PackFlushKeeps ==
  ASSUME PackInv, PackFlush
  PROVE  PackInv'
<1>1. \E x : pack' = [pack EXCEPT !.state = x]
  <2>1. pack' = [pack EXCEPT !.state = "ON_ERROR"] \/ pack' = pack
    BY Zenon DEF PackFlush
  <2>2. pack = [pack EXCEPT !.state = pack.state]
    BY DEF PackInv, IsPack
  <2> QED
    BY <2>1, <2>2
<1>2. IsPack(pack') /\ SameList(pack, pack')
  BY <1>1 DEF PackInv, IsPack, SameList
<1>3. /\ chan' = [h \in Handles |-> chan'[h]]
      /\ \A h \in Handles : \/ chan'[h] = [chan[h] EXCEPT !.bucket = <<>>]
                            \/ chan'[h] = [chan[h] EXCEPT !.error = "FLUSH_FAILED"]
                            \/ chan'[h] = chan[h]
  <2> DEFINE list == NewestFirst(pack.linked)
             flushed(k) == {list[i] : i \in 1 .. k}
  <2>1. \/ chan' = [h \in Handles |-> IF h \in pack.linked THEN [chan[h] EXCEPT !.bucket = <<>>]
                                      ELSE chan[h]]
        \/ \E k \in 0 .. Len(list) - 1 :
             chan' = [h \in Handles |->
                        IF h \in flushed(k) THEN [chan[h] EXCEPT !.bucket = <<>>]
                        ELSE IF h = list[k + 1] THEN [chan[h] EXCEPT !.error = "FLUSH_FAILED"]
                        ELSE chan[h]]
    BY Zenon DEF PackFlush
  <2> HIDE DEF list, flushed
  <2> QED
    BY <2>1
<1>4. \A h \in Handles : SameChan(chan[h], chan'[h])
  <2> SUFFICES ASSUME NEW h \in Handles PROVE SameChan(chan[h], chan'[h])
    OBVIOUS
  <2>1. IsChan(chan[h])
    BY DEF PackInv
  <2> QED
    BY <1>3, <2>1 DEF IsChan, SameChan
<1> QED
  BY <1>2, <1>3, <1>4, PackKept

(* No list and no live channel is left: two calls end so, and the process does. *)
LEMMA EmptyKeeps ==
  ASSUME IsPack(pack'), pack'.linked = {}, chan' = [h \in Handles |-> chan'[h]],
         \A h \in Handles : IsChan(chan'[h]) /\ chan'[h].use # "live",
         \A h \in Handles : h >= pack'.next => chan'[h].use = "unused"
  PROVE  PackInv'
<1>1. Live' = {}
  BY DEF Live
<1> QED
  BY <1>1 DEF PackInv, PackExact

LEMMA PackCloseKeeps ==
  ASSUME PackInv, PackClose
  PROVE  PackInv'
<1>1. PICK r \in [pack.linked -> FlushResults] :
        chan' = [h \in Handles |-> IF h \in pack.linked THEN ChannelClosed(chan[h], r[h]) ELSE chan[h]]
  BY Zenon DEF PackClose
<1>2. pack' = [pack EXCEPT !.state = "CLOSED", !.linked = {}]
  BY Zenon DEF PackClose
<1>3. IsPack(pack') /\ pack'.linked = {} /\ pack'.next = pack.next
  BY <1>2 DEF PackInv, IsPack
<1>4. \A h \in Handles : IsChan(chan'[h]) /\ chan'[h].use # "live"
  <2> SUFFICES ASSUME NEW h \in Handles PROVE IsChan(chan'[h]) /\ chan'[h].use # "live"
    OBVIOUS
  <2>1. CASE h \in pack.linked
    BY <1>1, <2>1, ClosedKeeps DEF PackInv
  <2>2. CASE h \notin pack.linked
    BY <1>1, <2>2 DEF PackInv, PackExact, Live
  <2> QED
    BY <2>1, <2>2
<1>5. \A h \in Handles : h >= pack'.next => chan'[h].use = "unused"
  <2> SUFFICES ASSUME NEW h \in Handles, h >= pack.next PROVE chan'[h].use = "unused"
    BY <1>3
  <2>1. chan[h].use = "unused"
    BY DEF PackInv
  <2>2. h \notin pack.linked
    BY <2>1 DEF PackInv, PackExact, Live
  <2> QED
    BY <1>1, <2>1, <2>2
<1> QED
  BY <1>1, <1>3, <1>4, <1>5, EmptyKeeps

LEMMA GoneKeeps ==
  ASSUME PackInv, PackerGone
  PROVE  PackInv'
<1>1. /\ pack' = [state |-> "CLOSED", linked |-> {}, next |-> MaxHandles + 1]
      /\ chan' = [h \in Handles |-> Forgotten(chan[h])]
  BY DEF PackerGone
<1>2. IsPack(pack') /\ pack'.linked = {} /\ pack'.next = MaxHandles + 1
  BY <1>1, ContainerAssumption DEF IsPack
<1>3. \A h \in Handles : IsChan(Forgotten(chan[h])) /\ Forgotten(chan[h]).use # "live"
  BY DEF Forgotten, NewChannel, IsChan
<1>4. \A h \in Handles : ~(h >= pack'.next)
  BY <1>2, ContainerAssumption DEF Handles
<1> QED
  BY <1>1, <1>2, <1>3, <1>4, EmptyKeeps

LEMMA PackNextKeeps ==
  ASSUME PackInv, PackNext
  PROVE  PackInv'
<1>1. CASE \E h \in Handles, t \in Times, n \in Sensors, v \in Numbers : Inject(h, t, n, v)
  BY <1>1, InjectKeeps
<1>10. CASE \E h \in Handles, t \in Times, state \in {"ON_ERROR", "CLOSED"} : InjectRefused(h, t, state)
  BY <1>10, InjectRefusedKeeps
<1>2. CASE \E h \in Handles : ChannelFlush(h)
  BY <1>2, FlushKeeps
<1>3. CASE \E h \in Handles : ChannelClose(h)
  BY <1>3, CloseKeeps
<1>4. CASE \E id \in Ids : DefineChannel(id)
  BY <1>4, DefineKeeps
<1>5. CASE \E id \in Ids : DefineRefused(id)
  BY <1>5, StateKeeps DEF DefineRefused, Refused
<1>6. CASE \E id \in Ids : CloseChannel(id)
  BY <1>6, CloseChannelKeeps
<1>7. CASE PackFlush
  BY <1>7, PackFlushKeeps
<1>8. CASE ClearErrorFlag
  BY <1>8, StateKeeps DEF ClearErrorFlag
<1>9. CASE PackClose
  BY <1>9, PackCloseKeeps
<1> QED
  BY <1>1, <1>2, <1>3, <1>4, <1>5, <1>6, <1>7, <1>8, <1>9, <1>10 DEF PackNext

-----------------------------------------------------------------------------
(* The calls of the unpacker. *)

LEMMA ReaderKept ==
  ASSUME ReaderInv, IsUnp(unp'), SameList(unp, unp'),
         reader' = [h \in Readers |-> reader'[h]],
         \A h \in Readers : SameReader(reader[h], reader'[h])
  PROVE  ReaderInv'
<1>1. LiveReaders' = LiveReaders
  BY DEF LiveReaders, SameReader
<1>2. ReaderExact'
  <2>1. \A g, h \in LiveReaders : reader[g].id = reader[h].id => g = h
    BY DEF ReaderInv, ReaderExact
  <2>2. \A h \in LiveReaders : reader'[h].id = reader[h].id
    BY DEF SameReader, LiveReaders
  <2>3. \A g, h \in LiveReaders' : reader'[g].id = reader'[h].id => g = h
    BY <1>1, <2>1, <2>2
  <2>4. unp'.linked = LiveReaders'
    BY <1>1 DEF ReaderInv, ReaderExact, SameList
  <2> QED
    BY <2>3, <2>4 DEF ReaderExact
<1>3. \A h \in Readers : h >= unp'.next => reader'[h].use = "unused"
  BY DEF ReaderInv, SameReader, SameList
<1> QED
  BY <1>2, <1>3 DEF ReaderInv, SameReader

(* Calls after which every channel is as it was. *)
LEMMA UnpKept ==
  ASSUME ReaderInv, IsUnp(unp'), SameList(unp, unp'), UNCHANGED reader
  PROVE  ReaderInv'
<1>1. reader' = [h \in Readers |-> reader'[h]]
  BY DEF ReaderInv
<1>2. \A h \in Readers : SameReader(reader[h], reader'[h])
  BY DEF ReaderInv, SameReader
<1> QED
  BY <1>1, <1>2, ReaderKept

(* One channel's contents change. *)
LEMMA OneReader ==
  ASSUME ReaderInv, NEW g \in Readers, NEW d, SameReader(reader[g], d),
         reader' = [reader EXCEPT ![g] = d], IsUnp(unp'), SameList(unp, unp')
  PROVE  ReaderInv'
<1>1. reader' = [h \in Readers |-> reader'[h]]
  BY DEF ReaderInv
<1>2. \A h \in Readers : SameReader(reader[h], reader'[h])
  BY DEF ReaderInv, SameReader
<1> QED
  BY <1>1, <1>2, ReaderKept

(* A field that is not the list is set. *)
LEMMA FieldKept ==
  ASSUME NEW u, IsUnp(u), SameList(unp, u), NEW x
  PROVE  /\ IsUnp([u EXCEPT !.state = x]) /\ SameList(unp, [u EXCEPT !.state = x])
         /\ IsUnp([u EXCEPT !.by = x]) /\ SameList(unp, [u EXCEPT !.by = x])
         /\ IsUnp([u EXCEPT !.at = x]) /\ SameList(unp, [u EXCEPT !.at = x])
         /\ IsUnp([u EXCEPT !.fresh = x]) /\ SameList(unp, [u EXCEPT !.fresh = x])
         /\ IsUnp([u EXCEPT !.inCall = x]) /\ SameList(unp, [u EXCEPT !.inCall = x])
         /\ IsUnp([u EXCEPT !.ended = x]) /\ SameList(unp, [u EXCEPT !.ended = x])
         /\ IsUnp([u EXCEPT !.astray = x]) /\ SameList(unp, [u EXCEPT !.astray = x])
<1>1. IsUnp([u EXCEPT !.state = x]) /\ SameList(unp, [u EXCEPT !.state = x])
  BY DEF IsUnp, SameList
<1>2. IsUnp([u EXCEPT !.by = x]) /\ SameList(unp, [u EXCEPT !.by = x])
  BY DEF IsUnp, SameList
<1>3. IsUnp([u EXCEPT !.at = x]) /\ SameList(unp, [u EXCEPT !.at = x])
  BY DEF IsUnp, SameList
<1>4. IsUnp([u EXCEPT !.fresh = x]) /\ SameList(unp, [u EXCEPT !.fresh = x])
  BY DEF IsUnp, SameList
<1>5. IsUnp([u EXCEPT !.inCall = x]) /\ SameList(unp, [u EXCEPT !.inCall = x])
  BY DEF IsUnp, SameList
<1>6. IsUnp([u EXCEPT !.ended = x]) /\ SameList(unp, [u EXCEPT !.ended = x])
  BY DEF IsUnp, SameList
<1>7. IsUnp([u EXCEPT !.astray = x]) /\ SameList(unp, [u EXCEPT !.astray = x])
  BY DEF IsUnp, SameList
<1> QED
  BY <1>1, <1>2, <1>3, <1>4, <1>5, <1>6, <1>7

(* A channel's block is at hand, left, or the call is over. *)
LEMMA ProgressKept ==
  ASSUME IsUnp(unp), NEW f, NEW c
  PROVE  LET u == [unp EXCEPT !.fresh = f, !.inCall = c]
         IN  IsUnp(u) /\ SameList(unp, u)
<1> DEFINE v == [unp EXCEPT !.fresh = f]
           u == [unp EXCEPT !.fresh = f, !.inCall = c]
<1>1. IsUnp(v) /\ SameList(unp, v)
  BY Zenon, FieldKept DEF SameList
<1>2. u = [v EXCEPT !.inCall = c]
  OBVIOUS
<1> HIDE DEF v
<1>3. IsUnp([v EXCEPT !.inCall = c]) /\ SameList(unp, [v EXCEPT !.inCall = c])
  BY <1>1, FieldKept
<1> QED
  BY <1>2, <1>3

(* The list is as it was after each of the ends of a step. *)
LEMMA StepEnds ==
  ASSUME IsUnp(unp)
  PROVE  /\ IsUnp(AtEnd) /\ SameList(unp, AtEnd)
         /\ IsUnp(Astray) /\ SameList(unp, Astray)
         /\ \A f : IsUnp(Past(f)) /\ SameList(unp, Past(f))
         /\ \A e : IsUnp(Stopped(e)) /\ SameList(unp, Stopped(e))
<1> DEFINE v == [unp EXCEPT !.fresh = FALSE, !.inCall = FALSE]
<1>1. IsUnp(v) /\ SameList(unp, v)
  BY ProgressKept
<1>2. IsUnp([v EXCEPT !.ended = TRUE]) /\ SameList(unp, [v EXCEPT !.ended = TRUE])
  BY <1>1, FieldKept
<1>3. IsUnp([v EXCEPT !.astray = TRUE]) /\ SameList(unp, [v EXCEPT !.astray = TRUE])
  BY <1>1, FieldKept
<1>4. AtEnd = [v EXCEPT !.ended = TRUE] /\ Astray = [v EXCEPT !.astray = TRUE]
  BY DEF AtEnd, Astray
<1>5. \A f : IsUnp(Past(f)) /\ SameList(unp, Past(f))
  BY ProgressKept DEF Past
<1> HIDE DEF v
<1>6. IsUnp(AtEnd) /\ SameList(unp, AtEnd) /\ IsUnp(Astray) /\ SameList(unp, Astray)
  BY <1>2, <1>3, <1>4
<1>7. \A e : \E x : Stopped(e) = [AtEnd EXCEPT !.state = x]
  <2> TAKE e
  <2> WITNESS IF unp.by = "parse" \/ e = "ZSTD" THEN "ON_ERROR" ELSE AtEnd.state
  <2> QED
    BY DEF Stopped
<1>8. \A e : IsUnp(Stopped(e)) /\ SameList(unp, Stopped(e))
  <2> TAKE e
  <2>1. PICK x : Stopped(e) = [AtEnd EXCEPT !.state = x]
    BY <1>7
  <2>2. IsUnp([AtEnd EXCEPT !.state = x]) /\ SameList(unp, [AtEnd EXCEPT !.state = x])
    BY <1>6, FieldKept
  <2> QED
    BY <2>1, <2>2
<1> QED
  BY <1>5, <1>6, <1>8

LEMMA InitReader == UInit => ReaderInv
<1> SUFFICES ASSUME UInit PROVE ReaderInv
  OBVIOUS
<1>1. IsUnp(unp) /\ unp.linked = {}
  BY UnpackAssumption DEF UInit, IsUnp
<1>2. \A h \in Readers : reader[h] = NewReader(0, "unused")
  BY DEF UInit
<1>3. \A h \in Readers : IsReader(reader[h]) /\ reader[h].use = "unused"
  BY <1>2 DEF NewReader, IsReader
<1>4. LiveReaders = {}
  BY <1>3 DEF LiveReaders
<1>5. reader = [h \in Readers |-> reader[h]]
  BY DEF UInit
<1> QED
  BY <1>1, <1>3, <1>4, <1>5 DEF ReaderInv, ReaderExact

LEMMA SelectKeeps ==
  ASSUME ReaderInv, NEW id, SelectChannel(id)
  PROVE  ReaderInv'
<1> DEFINE n == unp.next
<1>1. /\ n \in Readers /\ ~UOccupied(id)
      /\ reader' = [reader EXCEPT ![n] = NewReader(id, "live")]
      /\ unp' = [unp EXCEPT !.linked = @ \cup {n}, !.next = @ + 1]
  BY DEF SelectChannel, Listing
<1>2. n \in 1 .. MaxReaders /\ n + 1 \in 1 .. MaxReaders + 1
  BY <1>1, UnpackAssumption DEF Readers
<1>3. IsUnp(unp') /\ unp'.linked = unp.linked \cup {n} /\ unp'.next = n + 1
  <2>1. IsUnp(unp)
    BY DEF ReaderInv
  <2> QED
    BY <1>1, <1>2, <2>1 DEF IsUnp
<1>4. /\ reader' = [g \in Readers |-> reader'[g]]
      /\ reader'[n] = NewReader(id, "live")
      /\ \A g \in Readers \ {n} : reader'[g] = reader[g]
  BY <1>1 DEF ReaderInv
<1>5. IsReader(reader'[n]) /\ reader'[n].use = "live" /\ reader'[n].id = id
  BY <1>4 DEF NewReader, IsReader
<1>6. LiveReaders' = LiveReaders \cup {n}
  BY <1>1, <1>4, <1>5 DEF LiveReaders
<1>7. n \notin LiveReaders
  BY <1>1, <1>2 DEF ReaderInv, LiveReaders, Readers
<1>8. ReaderExact'
  <2>1. \A g \in LiveReaders : reader[g].id # id
    BY <1>1 DEF ReaderInv, ReaderExact, UOccupied
  <2>2. \A g, k \in LiveReaders' : reader'[g].id = reader'[k].id => g = k
    BY <1>4, <1>5, <1>6, <1>7, <2>1 DEF ReaderInv, ReaderExact, LiveReaders
  <2>3. unp'.linked = LiveReaders'
    BY <1>3, <1>6 DEF ReaderInv, ReaderExact
  <2> QED
    BY <2>2, <2>3 DEF ReaderExact
<1>9. \A g \in Readers : g >= unp'.next => reader'[g].use = "unused"
  BY <1>2, <1>3, <1>4 DEF ReaderInv, Readers
<1>10. \A g \in Readers : IsReader(reader'[g])
  BY <1>4, <1>5 DEF ReaderInv
<1> QED
  BY <1>3, <1>4, <1>8, <1>9, <1>10 DEF ReaderInv

(* Channels leave the list and are freed: one, or all of it. *)
LEMMA FreedKeeps ==
  ASSUME ReaderInv, NEW S \in SUBSET LiveReaders,
         reader' = [h \in Readers |-> IF h \in S THEN Freed(reader[h]) ELSE reader[h]],
         IsUnp(unp'), unp'.linked = unp.linked \ S, unp'.next = unp.next
  PROVE  ReaderInv'
<1>1. S \subseteq Readers
  BY DEF LiveReaders
<1>2. \A h \in S : IsReader(reader'[h]) /\ reader'[h].use = "freed"
  BY <1>1 DEF Freed, NewReader, IsReader
<1>3. \A h \in Readers \ S : reader'[h] = reader[h]
  OBVIOUS
<1>4. LiveReaders' = LiveReaders \ S
  BY <1>1, <1>2, <1>3 DEF LiveReaders
<1>5. ReaderExact'
  <2>1. \A g, k \in LiveReaders' : reader'[g].id = reader'[k].id => g = k
    BY <1>3, <1>4 DEF ReaderInv, ReaderExact, LiveReaders
  <2>2. unp'.linked = LiveReaders'
    BY <1>4 DEF ReaderInv, ReaderExact
  <2> QED
    BY <2>1, <2>2 DEF ReaderExact
<1>6. \A h \in Readers : h >= unp'.next => reader'[h].use = "unused"
  <2>1. \A h \in S : ~(h >= unp.next)
    BY DEF ReaderInv, LiveReaders
  <2> QED
    BY <1>3, <2>1 DEF ReaderInv
<1>7. \A h \in Readers : IsReader(reader'[h])
  BY <1>2, <1>3 DEF ReaderInv
<1> QED
  BY <1>5, <1>6, <1>7 DEF ReaderInv

(* Selecting, closing one reader, closing the container. *)
LEMMA CallsKeep ==
  ASSUME ReaderInv, UnpackCalls
  PROVE  ReaderInv'
<1>1. IsUnp(unp) /\ SameList(unp, unp)
  BY DEF ReaderInv, SameList
<1>2. CASE \E id \in ChannelIds : SelectChannel(id)
  BY <1>2, SelectKeeps
<1>3. CASE \E id \in ChannelIds : SelectRefused(id) \/ CloseUnknown(id)
  <2>1. unp' = [unp EXCEPT !.state = "ON_ERROR"] /\ UNCHANGED reader
    BY <1>3 DEF SelectRefused, CloseUnknown
  <2> QED
    BY <1>1, <2>1, FieldKept, UnpKept
<1>4. CASE \E h \in Readers : DropReader(h)
  <2>1. PICK h \in Readers : DropReader(h)
    BY <1>4
  <2>2. h \in LiveReaders /\ reader' = [reader EXCEPT ![h] = Freed(@)]
    BY <2>1 DEF DropReader
  <2>3. unp' = [unp EXCEPT !.linked = @ \ {h}]
    BY <2>1 DEF DropReader
  <2>4. IsUnp(unp') /\ unp'.linked = unp.linked \ {h} /\ unp'.next = unp.next
    BY <1>1, <2>3 DEF IsUnp
  <2>5. reader' = [g \in Readers |-> IF g \in {h} THEN Freed(reader[g]) ELSE reader[g]]
    BY <2>2 DEF ReaderInv
  <2> QED
    BY <2>2, <2>4, <2>5, FreedKeeps
<1>5. CASE UnpackClose
  <2>1. reader' = [h \in Readers |-> IF h \in unp.linked THEN Freed(reader[h]) ELSE reader[h]]
    BY <1>5 DEF UnpackClose
  <2> DEFINE u == [unp EXCEPT !.state = "CLOSED"]
             v == [u EXCEPT !.ended = TRUE]
  <2>2. unp' = [v EXCEPT !.linked = {}]
    BY <1>5 DEF UnpackClose
  <2>3. IsUnp(u) /\ SameList(unp, u)
    BY <1>1, FieldKept
  <2> HIDE DEF u
  <2>4. IsUnp(v) /\ SameList(unp, v)
    BY <2>3, FieldKept
  <2> HIDE DEF v
  <2>5. IsUnp(unp') /\ unp'.linked = {} /\ unp'.next = unp.next
    BY <2>2, <2>4 DEF IsUnp, SameList
  <2>6. unp.linked \in SUBSET LiveReaders /\ unp.linked \ unp.linked = {}
    BY DEF ReaderInv, ReaderExact
  <2> QED
    BY <2>1, <2>5, <2>6, FreedKeeps
<1> QED
  BY <1>2, <1>3, <1>4, <1>5 DEF UnpackCalls

(* A record is read: of the channel only its contents change. *)
LEMMA AfterKeeps ==
  ASSUME NEW c, IsReader(c), NEW r
  PROVE  SameReader(c, After(c, r))
<1> DEFINE next == [c EXCEPT !.block = Tail(@)]
<1>1. SameReader(c, next)
  <2>1. \A x : SameReader(c, [c EXCEPT !.block = x])
    BY DEF IsReader, SameReader
  <2> QED
    BY <2>1
<1>2. \E x : \/ After(c, r) = [next EXCEPT !.ts = x]
             \/ After(c, r) = [next EXCEPT !.entries = x]
             \/ After(c, r) = [next EXCEPT !.rowCounter = x]
             \/ After(c, r) = [next EXCEPT !.complete = x]
             \/ After(c, r) = [next EXCEPT !.state = x]
  <2>1. CASE r.rec = "TIME"
    BY <2>1 DEF After
  <2>2. CASE r.rec = "NAME"
    BY <2>2 DEF After
  <2>3. CASE r.rec = "ROW"
    BY <2>3 DEF After
  <2>4. CASE r.rec \notin {"TIME", "NAME", "ROW"}
    BY <2>4 DEF After
  <2> QED
    BY Zenon, <2>1, <2>2, <2>3, <2>4
<1> HIDE DEF next
<1> QED
  BY <1>1, <1>2 DEF IsReader, SameReader

LEMMA LineKeeps ==
  ASSUME NEW c, IsReader(c), NEW line
  PROVE  SameReader(c, AfterLine(c, line))
<1>1. SameReader(c, After(c, line[1]))
  BY AfterKeeps
<1>2. SameReader(After(c, line[1]), After(After(c, line[1]), line[2]))
  BY <1>1, AfterKeeps DEF SameReader
<1> QED
  BY <1>1, <1>2 DEF AfterLine, SameReader

LEMMA FrameKeeps ==
  ASSUME ReaderInv, ReadFrame
  PROVE  ReaderInv'
<1>1. IsUnp(unp) /\ SameList(unp, unp)
  BY DEF ReaderInv, SameList
<1>2. CASE ReadDefine
  <2>1. IsUnp(unp') /\ SameList(unp, unp')
    BY <1>1, <1>2, StepEnds DEF ReadDefine
  <2>2. reader' = [h \in Readers |-> IF h \in FoundFor(Head(file).id)
                                     THEN [reader[h] EXCEPT !.state = "OPENED"] ELSE reader[h]]
    BY <1>2 DEF ReadDefine
  <2>3. \A h \in Readers : SameReader(reader[h], [reader[h] EXCEPT !.state = "OPENED"])
    BY DEF ReaderInv, IsReader, SameReader
  <2>4. \A h \in Readers : SameReader(reader[h], reader[h])
    BY DEF ReaderInv, SameReader
  <2>5. \A h \in Readers : SameReader(reader[h], reader'[h])
    BY <2>2, <2>3, <2>4
  <2> QED
    BY <2>1, <2>2, <2>5, ReaderKept
<1>3. CASE ReadBlock
  <2>1. PICK h \in FoundFor(Head(file).id) :
          /\ unp' = [unp EXCEPT !.fresh = FALSE, !.at = h, !.inCall = TRUE]
          /\ reader' = [reader EXCEPT ![h].block = Head(file).block]
    BY <1>3 DEF ReadBlock
  <2>2. h \in Readers
    BY DEF ReaderInv, IsUnp, FoundFor
  <2>3. SameReader(reader[h], [reader[h] EXCEPT !.block = Head(file).block])
    BY <2>2 DEF ReaderInv, IsReader, SameReader
  <2>4. IsUnp(unp') /\ SameList(unp, unp')
    <3> DEFINE v == [unp EXCEPT !.fresh = FALSE, !.inCall = TRUE]
    <3>1. IsUnp(v) /\ SameList(unp, v)
      BY <1>1, ProgressKept
    <3>2. unp' = [v EXCEPT !.at = h]
      BY <2>1
    <3> HIDE DEF v
    <3> QED
      BY <3>1, <3>2, FieldKept
  <2>5. reader' = [reader EXCEPT ![h] = [reader[h] EXCEPT !.block = Head(file).block]]
    BY <2>1
  <2> QED
    BY <2>2, <2>3, <2>4, <2>5, OneReader
<1>4. CASE SkipBlock \/ ReadTorn \/ ReadTornDefine \/ ReadUntagged \/ ReadEnd
  <2>1. /\ UNCHANGED reader
        /\ \/ unp' = AtEnd \/ unp' = Astray
           \/ \E f : unp' = Past(f)
           \/ \E e : unp' = Stopped(e)
    <3>1. CASE SkipBlock
      BY <3>1 DEF SkipBlock
    <3>2. CASE ReadTorn
      BY <3>2 DEF ReadTorn, Misread
    <3>3. CASE ReadUntagged
      BY <3>3 DEF ReadUntagged, Misread
    <3>4. CASE ReadEnd
      BY <3>4 DEF ReadEnd
    <3>5. CASE ReadTornDefine
      BY <3>5 DEF ReadTornDefine, Misread
    <3> QED
      BY <1>4, <3>1, <3>2, <3>3, <3>4, <3>5
  <2> QED
    BY <1>1, <2>1, StepEnds, UnpKept
<1> QED
  BY <1>2, <1>3, <1>4 DEF ReadFrame

LEMMA StepKeeps ==
  ASSUME ReaderInv, ReadStep
  PROVE  ReaderInv'
<1>1. IsUnp(unp) /\ SameList(unp, unp)
  BY DEF ReaderInv, SameList
<1>2. CASE ReadFrame
  BY <1>2, FrameKeeps
<1>3. CASE LeaveBlock
  <2> DEFINE v == [unp EXCEPT !.at = NoReader]
  <2>1. unp' = [v EXCEPT !.inCall = FALSE] /\ UNCHANGED reader
    BY <1>3 DEF LeaveBlock
  <2>2. IsUnp(v) /\ SameList(unp, v)
    BY <1>1, FieldKept
  <2> HIDE DEF v
  <2>3. IsUnp(unp') /\ SameList(unp, unp')
    BY <2>1, <2>2, FieldKept
  <2> QED
    BY <2>1, <2>3, UnpKept
<1>4. CASE ParseRecord
  <2> DEFINE r == Head(Current.block)
  <2>1. \/ reader' = [reader EXCEPT ![unp.at] = After(Current, r)] /\ UNCHANGED unp
        \/ unp' = Astray /\ UNCHANGED reader
    BY <1>4 DEF ParseRecord
  <2>2. unp.at \in Readers
    BY <1>4 DEF ParseRecord, InBlock, LiveReaders
  <2>3. SameReader(reader[unp.at], After(Current, r))
    BY <2>2, AfterKeeps DEF ReaderInv, Current
  <2> HIDE DEF r
  <2> QED
    BY <1>1, <2>1, <2>2, <2>3, OneReader, UnpKept, StepEnds
<1>5. CASE GenerateLine
  <2> DEFINE line == Line(Current)
  <2>1. \/ /\ reader' = [reader EXCEPT ![unp.at] = AfterLine(Current, line)]
           /\ unp' = [unp EXCEPT !.inCall = FALSE, !.ended = Last(line).rec = "EOF"]
        \/ unp' = Astray /\ UNCHANGED reader
    BY <1>5 DEF GenerateLine
  <2>2. unp.at \in Readers
    BY <1>5 DEF GenerateLine, InBlock, LiveReaders
  <2>3. SameReader(reader[unp.at], AfterLine(Current, line))
    BY <2>2, LineKeeps DEF ReaderInv, Current
  <2> HIDE DEF line
  <2>4. CASE unp' = Astray /\ UNCHANGED reader
    BY <1>1, <2>4, StepEnds, UnpKept
  <2>5. CASE /\ reader' = [reader EXCEPT ![unp.at] = AfterLine(Current, line)]
             /\ unp' = [unp EXCEPT !.inCall = FALSE, !.ended = Last(line).rec = "EOF"]
    <3> DEFINE v == [unp EXCEPT !.inCall = FALSE]
    <3>1. unp' = [v EXCEPT !.ended = Last(line).rec = "EOF"]
      BY <2>5
    <3>2. IsUnp(v) /\ SameList(unp, v)
      BY <1>1, FieldKept
    <3> HIDE DEF v
    <3>3. IsUnp(unp') /\ SameList(unp, unp')
      BY <3>1, <3>2, FieldKept
    <3> QED
      BY <2>2, <2>3, <2>5, <3>3, OneReader
  <2> QED
    BY <2>1, <2>4, <2>5
<1> QED
  BY <1>2, <1>3, <1>4, <1>5 DEF ReadStep

LEMMA OpenKeeps ==
  ASSUME ReaderInv, NEW by, NEW header, UnpackInit(by, header)
  PROVE  ReaderInv'
<1> DEFINE u == [unp EXCEPT !.by = by]
           v == [u EXCEPT !.ended = header # "good"]
           x == IF header = "good" THEN "OPENED" ELSE "ON_ERROR"
<1>1. unp' = [v EXCEPT !.state = x] /\ UNCHANGED reader
  BY DEF UnpackInit
<1>2. IsUnp(u) /\ SameList(unp, u)
  BY Zenon, FieldKept DEF ReaderInv, SameList
<1> HIDE DEF u
<1>3. IsUnp(v) /\ SameList(unp, v)
  BY <1>2, FieldKept
<1> HIDE DEF v, x
<1>4. IsUnp(unp') /\ SameList(unp, unp')
  BY <1>1, <1>3, FieldKept
<1> QED
  BY <1>1, <1>4, UnpKept

-----------------------------------------------------------------------------
(* Both containers. *)

LEMMA ListsInductive ==
  ASSUME ListsInv, [CNext]_cvars
  PROVE  ListsInv'
<1>1. PackInv /\ UNCHANGED <<pack, chan>> => PackInv'
  <2> SUFFICES ASSUME PackInv, UNCHANGED <<pack, chan>> PROVE PackInv'
    OBVIOUS
  <2>1. IsPack(pack') /\ SameList(pack, pack') /\ chan' = [h \in Handles |-> chan'[h]]
    BY DEF PackInv, SameList
  <2>2. \A h \in Handles : SameChan(chan[h], chan'[h])
    BY DEF PackInv, SameChan
  <2> QED
    BY <2>1, <2>2, PackKept
<1>2. ReaderInv /\ UNCHANGED <<unp, reader>> => ReaderInv'
  <2> SUFFICES ASSUME ReaderInv, UNCHANGED <<unp, reader>> PROVE ReaderInv'
    OBVIOUS
  <2>1. IsUnp(unp') /\ SameList(unp, unp')
    BY DEF ReaderInv, SameList
  <2> QED
    BY <2>1, UnpKept
<1>3. CASE PackCall
  BY <1>2, <1>3, PackNextKeeps DEF PackCall, ListsInv
<1>4. CASE Open
  BY <1>4, GoneKeeps, OpenKeeps DEF Open, ListsInv
<1>5. CASE ReadFile
  BY <1>1, <1>5, StepKeeps DEF ReadFile, ListsInv
<1>6. CASE UnpackCall
  BY <1>1, <1>6, CallsKeep DEF UnpackCall, ListsInv
<1>7. CASE UNCHANGED cvars
  BY <1>1, <1>2, <1>7 DEF cvars, ListsInv
<1> QED
  BY <1>3, <1>4, <1>5, <1>6, <1>7 DEF CNext

(* Both lists satisfy the invariant in every reachable state. *)
LEMMA ListsAlways == CSpec => []ListsInv
<1>1. CInit => ListsInv
  BY InitPack, InitReader DEF CInit, ListsInv
<1>2. ListsInv /\ [CNext]_cvars => ListsInv'
  BY ListsInductive
<1> QED
  BY <1>1, <1>2, PTL DEF CSpec

LEMMA ExactList == PackInv => {h \in pack.linked : chan[h].use # "dropped"} = Live
<1> SUFFICES ASSUME PackInv PROVE {h \in pack.linked : chan[h].use # "dropped"} = Live
  OBVIOUS
<1>1. \A h : h \in Live <=> h \in pack.linked /\ chan[h].use # "dropped"
  BY DEF PackInv, PackExact, IsPack, Live
<1> QED
  BY <1>1

(***************************************************************************)
(* Each list of pack.c and unpack.c holds exactly the live channels, and   *)
(* no two with the same id, however many channels are defined, closed,     *)
(* refused and freed, and in whichever order.                              *)
(***************************************************************************)
THEOREM ListsStayExact == CSpec => []ListsExact
<1>1. ListsInv => ListsExact
  BY ExactList DEF ListsInv, PackInv, PackExact, ReaderInv, ReaderExact, ListsExact
<1> QED
  BY <1>1, ListsAlways, PTL

-----------------------------------------------------------------------------
(* The order of the list. *)

(***************************************************************************)
(* NewestFirst lists a finite set of handles, each of them once.           *)
(***************************************************************************)
LEMMA NewestFirstLists ==
  ASSUME NEW S, S \subseteq Handles
  PROVE  LET list == NewestFirst(S)
         IN  /\ list \in Seq(S) /\ Len(list) = Cardinality(S) /\ IsFiniteSet(S)
             /\ \A h \in S : \E i \in 1 .. Len(list) : list[i] = h
             /\ \A i, j \in 1 .. Len(list) : list[i] = list[j] => i = j
<1> DEFINE n == Cardinality(S)
           place == [h \in S |-> Place(S, h)]
           list == NewestFirst(S)
<1>1. IsFiniteSet(S) /\ n \in Nat /\ S \subseteq Nat
  <2>1. IsFiniteSet(Handles)
    BY ContainerAssumption, FS_Interval DEF Handles
  <2>2. S \in SUBSET Handles
    OBVIOUS
  <2>3. IsFiniteSet(S)
    BY <2>1, <2>2, FS_Subset
  <2> QED
    BY <2>2, <2>3, FS_CardinalityType DEF Handles
<1>2. \A h \in S : place[h] \in 1 .. n
  <2> SUFFICES ASSUME NEW h \in S PROVE place[h] \in 1 .. n
    OBVIOUS
  <2> DEFINE T == {g \in S : g >= h}
  <2>1. T \in SUBSET S /\ h \in T
    BY <1>1
  <2>2. IsFiniteSet(T) /\ Cardinality(T) <= n /\ Cardinality(T) \in Nat
    BY <1>1, <2>1, FS_Subset, FS_CardinalityType
  <2>3. Cardinality(T) # 0
    BY <2>1, <2>2, FS_EmptySet
  <2>4. place[h] = Cardinality(T)
    BY DEF Place
  <2> HIDE DEF T, n, place
  <2> QED
    BY <1>1, <2>2, <2>3, <2>4
<1>3. \A g, h \in S : place[g] = place[h] => g = h
  <2>1. \A g, h \in S : g < h => place[g] # place[h]
    <3> SUFFICES ASSUME NEW g \in S, NEW h \in S, g < h PROVE place[g] # place[h]
      OBVIOUS
    <3> DEFINE T == {k \in S : k >= g}
               U == {k \in S : k >= h}
    <3>1. U \in SUBSET T /\ g \in T /\ g \notin U /\ T \in SUBSET S
      <4>1. g \in Nat /\ h \in Nat /\ g >= g /\ ~(g >= h)
        BY <1>1
      <4>2. \A k \in S : k >= h => k >= g
        BY <1>1, <4>1
      <4> QED
        BY <4>1, <4>2
    <3>2. IsFiniteSet(T)
      BY <1>1, <3>1, FS_Subset
    <3>3. Cardinality(U) # Cardinality(T)
      BY <3>1, <3>2, FS_Subset
    <3> QED
      BY <3>3 DEF Place
  <2> QED
    BY <1>1, <2>1
<1>4. \A i \in 1 .. n : \E h \in S : place[h] = i
  <2>1. place \in Injection(S, 1 .. n)
    BY <1>2, <1>3 DEF Injection, IsInjective
  <2>2. IsFiniteSet(1 .. n) /\ Cardinality(1 .. n) = n
    BY <1>1, FS_Interval
  <2>3. place \in Surjection(S, 1 .. n)
    BY <1>1, <2>1, <2>2, FS_Injection
  <2> QED
    BY <2>3 DEF Surjection
<1>5. /\ list = [i \in 1 .. n |-> CHOOSE h \in S : place[h] = i]
      /\ \A i \in 1 .. n : list[i] \in S /\ place[list[i]] = i
  <2>1. list = [i \in 1 .. n |-> CHOOSE h \in S : place[h] = i]
    BY DEF NewestFirst
  <2> HIDE DEF list, n, place
  <2> QED
    BY <1>4, <2>1
<1> HIDE DEF list, n, place
<1>6. list \in Seq(S) /\ Len(list) = n
  BY <1>1, <1>5
<1>7. \A h \in S : \E i \in 1 .. n : list[i] = h
  <2> SUFFICES ASSUME NEW h \in S PROVE \E i \in 1 .. n : list[i] = h
    OBVIOUS
  <2>1. place[h] \in 1 .. n /\ list[place[h]] \in S /\ place[list[place[h]]] = place[h]
    BY <1>2, <1>5
  <2> QED
    BY <1>3, <2>1
<1> QED
  BY <1>1, <1>5, <1>6, <1>7 DEF list, n

-----------------------------------------------------------------------------
(* The types of the packing side. *)

(* A channel in use has an id of its own, never the file's. *)
PackTyped ==
  /\ pack \in Pack /\ chan \in [Handles -> PackChan] /\ sent \in [ChannelIds -> Seq(Row)]
  /\ file \in Seq(Frame)
  /\ \A h \in Handles : chan[h].use # "unused" => chan[h].id \in ChannelIds

LEMMA RecordFacts ==
  /\ \A t \in Times : TimeRecord(t) \in Record
  /\ \A n \in Sensors : NameRecord(n) \in Record
  /\ \A i \in Nat, v \in Numbers : RowRecord(i, v) \in Record
  /\ \A n \in Nat : EofRecord(n) \in Record
  BY DEF TimeRecord, NameRecord, RowRecord, EofRecord, Record

LEMMA FrameFacts ==
  /\ \A id \in ChannelIds, m \in {"DEFINE"} \cup Broken : MetaFrame(m, id) \in Frame
  /\ \A id \in ChannelIds, b \in Seq(Record) : DataFrame(id, b) \in Frame
  /\ Broken = {"TORN", "TORN_DEFINE", "PAYLOAD", "TORN_PAYLOAD"} /\ Untagged \subseteq Broken
  BY DEF MetaFrame, DataFrame, Frame, Broken, Untagged

LEMMA ChanFields ==
  ASSUME NEW c \in PackChan
  PROVE  /\ c.names \in Seq(Sensors) /\ c.ts \in Times \cup {NoTime} /\ c.rowCounter \in Nat
         /\ c.bucket \in Seq(Record) /\ c.id \in Ids
  BY DEF PackChan

LEMMA FreshTyped ==
  ASSUME NEW id \in Ids, NEW use \in {"unused", "live"}
  PROVE  NewChannel(id, use) \in PackChan
<1>1. <<>> \in Seq(Sensors) /\ <<>> \in Seq(Record)
  OBVIOUS
<1> QED
  BY <1>1 DEF NewChannel, PackChan, States

(* The place of a known name. *)
LEMMA IndexFound ==
  ASSUME NEW c \in PackChan, NEW n, Contains(c.names, n)
  PROVE  /\ IndexOf(c, n) \in Nat /\ IndexOf(c, n) < Len(c.names)
         /\ c.names[IndexOf(c, n) + 1] = n
<1> DEFINE l == Len(c.names)
<1>1. l \in Nat /\ c.names \in Seq(Sensors)
  BY ChanFields
<1>2. PICK j \in 1 .. l : c.names[j] = n
  BY DEF Contains
<1> HIDE DEF l
<1>3. j - 1 \in 0 .. l - 1 /\ (j - 1) + 1 = j
  BY <1>1, <1>2
<1>4. \E i \in 0 .. l - 1 : c.names[i + 1] = n
  BY <1>2, <1>3
<1>5. IndexOf(c, n) \in 0 .. l - 1 /\ c.names[IndexOf(c, n) + 1] = n
  BY <1>4 DEF IndexOf, l
<1>6. \A i \in 0 .. l - 1 : i \in Nat /\ i < l
  BY <1>1
<1> QED
  BY <1>5, <1>6 DEF l

(* A channel with the time record of another clock in its bucket. *)
Restamped(c, t) == [c EXCEPT !.ts = t, !.bucket = Append(c.bucket, TimeRecord(t))]

LEMMA StampedTyped ==
  ASSUME NEW c \in PackChan, NEW t \in Times
  PROVE  /\ Stamped(c, t) \in PackChan /\ Stamped(c, t).ts = t
         /\ c.ts = t => Stamped(c, t) = c
         /\ c.ts # t => Stamped(c, t) = Restamped(c, t)
<1>1. CASE c.ts = t
  BY <1>1 DEF Stamped
<1>2. CASE c.ts # t
  <2> DEFINE b == Append(c.bucket, TimeRecord(t))
  <2>1. b \in Seq(Record)
    BY ChanFields, RecordFacts
  <2>2. Stamped(c, t) = [c EXCEPT !.ts = t, !.bucket = b]
    BY <1>2 DEF Stamped
  <2> HIDE DEF b
  <2>3. [c EXCEPT !.ts = t, !.bucket = b] \in PackChan /\ [c EXCEPT !.ts = t, !.bucket = b].ts = t
    BY <2>1 DEF PackChan
  <2> QED
    BY <1>2, <2>2, <2>3 DEF b, Restamped
<1> QED
  BY <1>1, <1>2

LEMMA NamedTyped ==
  ASSUME NEW c \in PackChan, NEW n \in Sensors
  PROVE  /\ Named(c, n) \in PackChan /\ Contains(Named(c, n).names, n) /\ Named(c, n).ts = c.ts
         /\ Contains(c.names, n) => Named(c, n) = c
         /\ ~Contains(c.names, n) =>
              Named(c, n) = [c EXCEPT !.names = Append(c.names, n),
                                      !.bucket = Append(c.bucket, NameRecord(n))]
<1>1. CASE Contains(c.names, n)
  BY <1>1 DEF Named
<1>2. CASE ~Contains(c.names, n)
  <2> DEFINE b == Append(c.bucket, NameRecord(n))
             s == Append(c.names, n)
             d == [c EXCEPT !.names = s, !.bucket = b]
  <2>1. b \in Seq(Record) /\ s \in Seq(Sensors)
    BY ChanFields, RecordFacts
  <2>2. Contains(s, n)
    <3> DEFINE l == Len(c.names)
    <3>1. l \in Nat /\ Len(s) = l + 1 /\ s[l + 1] = n
      BY ChanFields
    <3> HIDE DEF l, s
    <3>2. l + 1 \in 1 .. Len(s)
      BY <3>1
    <3> QED
      BY <3>1, <3>2 DEF Contains
  <2>3. Named(c, n) = d
    BY <1>2 DEF Named
  <2> HIDE DEF b, s
  <2>4. d \in PackChan /\ d.names = s /\ d.ts = c.ts
    BY <2>1 DEF PackChan
  <2> HIDE DEF d
  <2> QED
    BY <1>2, <2>2, <2>3, <2>4 DEF d, b, s
<1> QED
  BY <1>1, <1>2

LEMMA WrittenTyped ==
  ASSUME NEW c \in PackChan, NEW n, Contains(c.names, n), NEW v \in Numbers
  PROVE  /\ Written(c, n, v) \in PackChan
         /\ Written(c, n, v) = [c EXCEPT !.bucket = Append(c.bucket, RowRecord(IndexOf(c, n), v)),
                                         !.rowCounter = c.rowCounter + 1]
<1> DEFINE b == Append(c.bucket, RowRecord(IndexOf(c, n), v))
           k == c.rowCounter + 1
<1>1. b \in Seq(Record) /\ k \in Nat
  BY ChanFields, RecordFacts, IndexFound
<1>2. Written(c, n, v) = [c EXCEPT !.bucket = b, !.rowCounter = k]
  BY DEF Written
<1> HIDE DEF b, k
<1>3. [c EXCEPT !.bucket = b, !.rowCounter = k] \in PackChan
  BY <1>1 DEF PackChan
<1> QED
  BY <1>2, <1>3 DEF b, k

LEMMA EndedTyped ==
  ASSUME NEW c \in PackChan
  PROVE  /\ Ended(c) \in PackChan /\ Ended(c).id = c.id
         /\ Ended(c).bucket = Append(c.bucket, EofRecord(c.rowCounter))
<1> DEFINE b == Append(c.bucket, EofRecord(c.rowCounter))
<1>1. b \in Seq(Record)
  BY ChanFields, RecordFacts
<1>2. Ended(c) = [c EXCEPT !.bucket = b]
  BY DEF Ended
<1> HIDE DEF b
<1> QED
  BY <1>1, <1>2 DEF PackChan, b

LEMMA FlushedTyped ==
  ASSUME NEW c \in PackChan, c.id \in ChannelIds, NEW r \in FlushResults
  PROVE  /\ FlushedChannel(c, r) \in PackChan /\ FlushedFrames(c, r) \in Seq(Frame)
         /\ FlushedChannel(c, r).use = c.use /\ FlushedChannel(c, r).id = c.id
         /\ r = "ok" => FlushedChannel(c, r).error = c.error
         /\ r = "ok" => FlushedFrames(c, r) = <<DataFrame(c.id, c.bucket)>>
         /\ r = "data" => FlushedFrames(c, r) = <<MetaFrame("TORN", c.id)>>
         /\ r = "meta" => FlushedFrames(c, r) = <<>>
         /\ r \in {"ok", "meta", "data"}
<1>1. r \in {"ok", "meta", "data"}
  BY ContainerAssumption
<1>2. /\ FlushedChannel(c, r) \in PackChan
      /\ FlushedChannel(c, r).use = c.use /\ FlushedChannel(c, r).id = c.id
      /\ r = "ok" => FlushedChannel(c, r).error = c.error
  <2>1. <<>> \in Seq(Record)
    OBVIOUS
  <2>2. CASE r = "ok"
    BY <2>1, <2>2 DEF FlushedChannel, PackChan
  <2>3. CASE r # "ok"
    BY <2>3 DEF FlushedChannel, PackChan, States
  <2> QED
    BY <2>2, <2>3
<1>3. DataFrame(c.id, c.bucket) \in Frame /\ MetaFrame("TORN", c.id) \in Frame
  BY ChanFields, FrameFacts
<1> QED
  BY <1>1, <1>2, <1>3 DEF FlushedFrames

(* A closed channel is typed, and keeps its id. *)
LEMMA ChannelClosedTyped ==
  ASSUME NEW c \in PackChan, c.id \in ChannelIds, NEW r \in FlushResults
  PROVE  /\ ChannelClosed(c, r) \in PackChan /\ ChannelClosed(c, r).use = "closed"
         /\ ChannelClosed(c, r).id = c.id
<1> DEFINE d == FlushedChannel(Ended(c), r)
<1>1. d \in PackChan /\ d.id = c.id
  BY EndedTyped, FlushedTyped
<1>2. ChannelClosed(c, r) = [d EXCEPT !.use = "closed"]
  BY DEF ChannelClosed
<1> HIDE DEF d
<1> QED
  BY <1>1, <1>2 DEF PackChan

LEMMA OneTyped ==
  ASSUME PackTyped, NEW g \in Handles, NEW d \in PackChan, d.use # "unused" => d.id \in ChannelIds,
         chan' = [chan EXCEPT ![g] = d]
  PROVE  /\ chan' \in [Handles -> PackChan]
         /\ \A h \in Handles : chan'[h].use # "unused" => chan'[h].id \in ChannelIds
  BY DEF PackTyped

LEMMA HeardTyped ==
  ASSUME pack \in Pack, NEW f, NEW h
  PROVE  /\ HeardOf(f) \in Pack /\ HeardOf(f).linked = pack.linked
         /\ f => HeardOf(f).state = "ON_ERROR"
         /\ Unlinked(HeardOf(f), h) \in Pack
         /\ Unlinked(HeardOf(f), h).linked = pack.linked \ {h}
         /\ Unlinked(HeardOf(f), h).state = HeardOf(f).state
<1>1. /\ HeardOf(f) \in Pack /\ HeardOf(f).linked = pack.linked
      /\ f => HeardOf(f).state = "ON_ERROR"
  BY DEF HeardOf, Pack, States
<1> QED
  BY <1>1 DEF Unlinked, Pack

-----------------------------------------------------------------------------
(* A call at work. *)

(* The same channel, and no newly failed flush. *)
Grown(c, d) ==
  d \in PackChan /\ d.use = c.use /\ d.id = c.id /\ (d.error = "FLUSH_FAILED" => c.error = "FLUSH_FAILED")

(***************************************************************************)
(* What holds of a call at work on the channel c, through all its flushes: *)
(* the frames are of this channel, and of no flush that failed unless that *)
(* is remembered.                                                          *)
(***************************************************************************)
WorkTyped(c, w) ==
  /\ w.chan \in PackChan /\ w.chan.use = c.use /\ w.chan.id = c.id /\ w.out \in Seq(Frame)
  /\ \A i \in 1 .. Len(w.out) : w.out[i].id = c.id /\ w.out[i].meta \in {"DATA", "TORN"}
  /\ w.failed \/ (Grown(c, w.chan) /\ \A i \in 1 .. Len(w.out) : w.out[i].meta = "DATA")

LEMMA WorkBegins ==
  ASSUME NEW c \in PackChan
  PROVE  WorkTyped(c, Begun(c))
<1>1. <<>> \in Seq(Frame) /\ \A i \in 1 .. Len(<<>>) : FALSE
  OBVIOUS
<1> QED
  BY <1>1 DEF WorkTyped, Begun, Grown

LEMMA WorkGoesOn ==
  ASSUME NEW c, NEW w, WorkTyped(c, w), NEW d, Grown(w.chan, d)
  PROVE  WorkTyped(c, On(w, d))
<1>1. On(w, d).chan = d /\ On(w, d).out = w.out /\ On(w, d).failed = w.failed
  BY DEF On
<1> QED
  BY Zenon, <1>1 DEF WorkTyped, Grown

LEMMA WorkFlushed ==
  ASSUME NEW c, NEW w, WorkTyped(c, w), c.id \in ChannelIds, NEW r \in FlushResults
  PROVE  WorkTyped(c, Flushed(w, r))
<1> DEFINE d == FlushedChannel(w.chan, r)
           x == FlushedFrames(w.chan, r)
           z == Flushed(w, r)
<1>1. z.chan = d /\ z.out = w.out \o x /\ z.failed = (w.failed \/ r # "ok")
  BY DEF Flushed
<1>2. /\ d \in PackChan /\ d.use = c.use /\ d.id = c.id /\ x \in Seq(Frame)
      /\ r = "ok" => d.error = w.chan.error
  BY FlushedTyped DEF WorkTyped
<1>3. /\ \A i \in 1 .. Len(x) : x[i].id = c.id /\ x[i].meta \in {"DATA", "TORN"}
      /\ r = "ok" => \A i \in 1 .. Len(x) : x[i].meta = "DATA"
  <2>1. \/ x = <<>> \/ x = <<DataFrame(c.id, w.chan.bucket)>> \/ x = <<MetaFrame("TORN", c.id)>>
    BY FlushedTyped DEF WorkTyped
  <2>2. r = "ok" => x = <<DataFrame(c.id, w.chan.bucket)>>
    BY FlushedTyped DEF WorkTyped
  <2> HIDE DEF x
  <2> QED
    BY <2>1, <2>2 DEF DataFrame, MetaFrame
<1> HIDE DEF d, x, z
<1>4. /\ z.out \in Seq(Frame)
      /\ \A i \in 1 .. Len(z.out) : \/ \E j \in 1 .. Len(w.out) : z.out[i] = w.out[j]
                                    \/ \E j \in 1 .. Len(x) : z.out[i] = x[j]
  <2> DEFINE a == w.out
             b == x
  <2>1. a \in Seq(Frame) /\ b \in Seq(Frame) /\ z.out = a \o b
    BY <1>1, <1>2 DEF WorkTyped
  <2> HIDE DEF a, b
  <2>2. /\ a \o b \in Seq(Frame)
        /\ \A i \in 1 .. Len(a \o b) : \/ \E j \in 1 .. Len(a) : (a \o b)[i] = a[j]
                                       \/ \E j \in 1 .. Len(b) : (a \o b)[i] = b[j]
    BY <2>1
  <2> QED
    BY Zenon, <2>1, <2>2 DEF a, b
<1>5. \A i \in 1 .. Len(z.out) : z.out[i].id = c.id /\ z.out[i].meta \in {"DATA", "TORN"}
  BY <1>3, <1>4 DEF WorkTyped
<1>6. z.failed \/ (Grown(c, z.chan) /\ \A i \in 1 .. Len(z.out) : z.out[i].meta = "DATA")
  <2> SUFFICES ASSUME ~z.failed PROVE Grown(c, d) /\ \A i \in 1 .. Len(z.out) : z.out[i].meta = "DATA"
    BY <1>1
  <2>1. r = "ok" /\ Grown(c, w.chan) /\ \A i \in 1 .. Len(w.out) : w.out[i].meta = "DATA"
    BY <1>1 DEF WorkTyped
  <2>2. Grown(c, d)
    BY <1>2, <2>1 DEF Grown
  <2>3. \A i \in 1 .. Len(x) : x[i].meta = "DATA"
    BY <1>3, <2>1
  <2>4. \A i \in 1 .. Len(z.out) : z.out[i].meta = "DATA"
    <3> SUFFICES ASSUME NEW i \in 1 .. Len(z.out) PROVE z.out[i].meta = "DATA"
      OBVIOUS
    <3> QED
      BY Zenon, <1>4, <2>1, <2>3
  <2> QED
    BY <2>2, <2>4
<1> QED
  BY <1>1, <1>2, <1>4, <1>5, <1>6 DEF WorkTyped, z

LEMMA WorkMaybeFlushed ==
  ASSUME NEW c, NEW w, WorkTyped(c, w), c.id \in ChannelIds, NEW z \in FlushedOrNot(w)
  PROVE  WorkTyped(c, z)
  BY WorkFlushed DEF FlushedOrNot

LEMMA WorkRoom ==
  ASSUME NEW c, NEW w, WorkTyped(c, w), c.id \in ChannelIds, NEW x \in RoomMade(w)
  PROVE  WorkTyped(c, x)
  BY WorkFlushed, ContainerAssumption DEF RoomMade

LEMMA StampedGrows ==
  ASSUME NEW c \in PackChan, NEW t \in Times
  PROVE  Grown(c, Stamped(c, t))
<1>1. Stamped(c, t) \in PackChan
  BY StampedTyped
<1>2. c.ts # t => /\ Restamped(c, t).use = c.use /\ Restamped(c, t).id = c.id
                  /\ Restamped(c, t).error = c.error
  BY DEF Restamped, PackChan
<1> QED
  BY Zenon, <1>1, <1>2, StampedTyped DEF Grown

LEMMA WorkTimed ==
  ASSUME NEW c \in PackChan, c.id \in ChannelIds, NEW t \in Times, NEW w \in Timed(c, t)
  PROVE  WorkTyped(c, w)
<1>1. CASE c.ts = t
  BY <1>1, WorkBegins DEF Timed
<1>2. CASE c.ts # t
  <2> DEFINE s == Stamped(c, t)
  <2>1. Grown(c, s)
    BY StampedGrows
  <2>2. w \in FlushedOrNot(Begun(s))
    BY <1>2 DEF Timed
  <2> HIDE DEF s
  <2>3. WorkTyped(c, On(Begun(c), s))
    <3>1. Begun(c).chan = c
      BY DEF Begun
    <3> QED
      BY <2>1, <3>1, WorkBegins, WorkGoesOn
  <2>4. On(Begun(c), s) = Begun(s)
    BY DEF On, Begun
  <2> QED
    BY <2>2, <2>3, <2>4, WorkMaybeFlushed
<1> QED
  BY <1>1, <1>2

(* The records of a row behind its time. *)
LEMMA RowTyped ==
  ASSUME NEW c \in PackChan, NEW n \in Sensors, NEW v \in Numbers
  PROVE  Grown(c, Written(Named(c, n), n, v))
<1> DEFINE m == Named(c, n)
           d == Written(m, n, v)
<1>1. m \in PackChan /\ Contains(m.names, n)
  BY NamedTyped
<1>2. m.use = c.use /\ m.id = c.id /\ m.error = c.error
  BY DEF PackChan, Named
<1> HIDE DEF m
<1>3. /\ d \in PackChan
      /\ d = [m EXCEPT !.bucket = Append(m.bucket, RowRecord(IndexOf(m, n), v)),
                       !.rowCounter = m.rowCounter + 1]
  BY <1>1, WrittenTyped
<1>4. d.use = m.use /\ d.id = m.id /\ d.error = m.error
  BY <1>1, <1>3 DEF PackChan
<1> QED
  BY <1>2, <1>3, <1>4 DEF Grown, m

(* A refused channel is not one whose flush has failed. *)
LEMMA FailedTyped ==
  ASSUME NEW c \in PackChan, NEW state \in {"ON_ERROR", "CLOSED"}
  PROVE  Grown(c, Failed(c, "REFUSED", state))
  BY DEF Failed, Grown, PackChan, States

(* The three calls of a channel that work this way. *)
Working(h) ==
  \/ \E t \in Times, n \in Sensors, v \in Numbers : Inject(h, t, n, v)
  \/ \E t \in Times, state \in {"ON_ERROR", "CLOSED"} : InjectRefused(h, t, state)
  \/ ChannelFlush(h)

LEMMA WorkOf ==
  ASSUME PackTyped, NEW h \in Handles, Working(h)
  PROVE  h \in Live /\ \E w : WorkTyped(chan[h], w) /\ Leaves(h, w)
<1> DEFINE c == chan[h]
<1>1. h \in Live
  BY DEF Working, Inject, InjectRefused, ChannelFlush
<1>2. c \in PackChan /\ c.id \in ChannelIds
  BY <1>1 DEF Live, PackTyped
<1>3. ASSUME NEW t \in Times, NEW n \in Sensors, NEW v \in Numbers, Inject(h, t, n, v)
      PROVE  \E w : WorkTyped(c, w) /\ Leaves(h, w)
  <2>1. PICK w \in Timed(c, t) :
          \E x \in RoomMade(w) :
            \E z \in FlushedOrNot(On(x, Written(Named(x.chan, n), n, v))) : Leaves(h, z)
    BY Zenon, <1>3 DEF Inject
  <2>2. PICK x \in RoomMade(w) :
          \E z \in FlushedOrNot(On(x, Written(Named(x.chan, n), n, v))) : Leaves(h, z)
    BY <2>1
  <2> DEFINE y == On(x, Written(Named(x.chan, n), n, v))
  <2>3. PICK z \in FlushedOrNot(y) : Leaves(h, z)
    BY <2>2
  <2> HIDE DEF c
  <2>4. WorkTyped(c, x)
    BY <1>2, <2>1, <2>2, WorkTimed, WorkRoom
  <2>5. WorkTyped(c, y)
    <3>1. x.chan \in PackChan
      BY <2>4 DEF WorkTyped
    <3> QED
      BY <2>4, <3>1, RowTyped, WorkGoesOn
  <2> HIDE DEF y
  <2> QED
    BY <1>2, <2>3, <2>5, WorkMaybeFlushed
<1>4. ASSUME NEW t \in Times, NEW state \in {"ON_ERROR", "CLOSED"}, InjectRefused(h, t, state)
      PROVE  \E w : WorkTyped(c, w) /\ Leaves(h, w)
  <2>1. CASE Leaves(h, Begun(Failed(c, "REFUSED", state)))
    <3> DEFINE d == Failed(c, "REFUSED", state)
    <3>1. Grown(c, d)
      BY <1>2, FailedTyped
    <3>2. Begun(c).chan = c /\ On(Begun(c), d) = Begun(d)
      BY DEF Begun, On
    <3> HIDE DEF c, d
    <3>3. WorkTyped(c, Begun(d))
      BY <1>2, <3>1, <3>2, WorkBegins, WorkGoesOn
    <3> QED
      BY <2>1, <3>3 DEF c, d
  <2>2. CASE \E w \in Timed(c, t) : \E x \in RoomMade(w) : Leaves(h, On(x, Failed(x.chan, "REFUSED", state)))
    <3>1. PICK w \in Timed(c, t) : \E x \in RoomMade(w) : Leaves(h, On(x, Failed(x.chan, "REFUSED", state)))
      BY <2>2
    <3>2. PICK x \in RoomMade(w) : Leaves(h, On(x, Failed(x.chan, "REFUSED", state)))
      BY <3>1
    <3> HIDE DEF c
    <3>3. WorkTyped(c, x) /\ x.chan \in PackChan
      BY <1>2, <3>1, <3>2, WorkTimed, WorkRoom DEF WorkTyped
    <3>4. WorkTyped(c, On(x, Failed(x.chan, "REFUSED", state)))
      BY <3>3, FailedTyped, WorkGoesOn
    <3> QED
      BY <3>2, <3>4
  <2>3. CASE \E w \in Timed(c, t) : \E r \in FlushResults : Leaves(h, Flushed(w, r))
    <3>1. PICK w \in Timed(c, t) : \E r \in FlushResults : Leaves(h, Flushed(w, r))
      BY <2>3
    <3>2. PICK r \in FlushResults : Leaves(h, Flushed(w, r))
      BY <3>1
    <3> HIDE DEF c
    <3>3. WorkTyped(c, Flushed(w, r))
      BY <1>2, <3>1, WorkTimed, WorkFlushed
    <3> QED
      BY <3>2, <3>3
  <2> QED
    BY Zenon, <1>4, <2>1, <2>2, <2>3 DEF InjectRefused
<1>5. ASSUME ChannelFlush(h)
      PROVE  \E w : WorkTyped(c, w) /\ Leaves(h, w)
  <2>1. PICK r \in FlushResults : Leaves(h, Flushed(Begun(c), r))
    BY <1>5 DEF ChannelFlush
  <2> HIDE DEF c
  <2>2. WorkTyped(c, Flushed(Begun(c), r))
    BY <1>2, WorkBegins, WorkFlushed
  <2> QED
    BY <2>1, <2>2
<1> QED
  BY <1>1, <1>3, <1>4, <1>5 DEF Working

(* The call over, all but the history is typed. *)
LEMMA WorkLeft ==
  ASSUME PackTyped, NEW h \in Live, NEW w, WorkTyped(chan[h], w), Leaves(h, w)
  PROVE  /\ pack' \in Pack /\ chan' \in [Handles -> PackChan] /\ file' \in Seq(Frame)
         /\ \A g \in Handles : chan'[g].use # "unused" => chan'[g].id \in ChannelIds
<1>1. h \in Handles /\ chan[h].id \in ChannelIds
  BY DEF Live, PackTyped
<1>2. w.chan \in PackChan /\ w.chan.id \in ChannelIds /\ w.out \in Seq(Frame)
  BY <1>1 DEF WorkTyped
<1>3. chan' = [chan EXCEPT ![h] = w.chan] /\ file' = file \o w.out /\ pack' = HeardOf(w.failed)
  BY DEF Leaves
<1>4. pack' \in Pack
  BY <1>3, HeardTyped DEF PackTyped
<1>5. file' \in Seq(Frame)
  BY <1>2, <1>3 DEF PackTyped
<1> QED
  BY <1>1, <1>2, <1>3, <1>4, <1>5, OneTyped

(* Every row that is accepted is one of the caller's. *)
LEMMA WorkingTyped ==
  ASSUME PackTyped, NEW h \in Handles, Working(h)
  PROVE  PackTyped'
<1>1. PICK w : WorkTyped(chan[h], w) /\ Leaves(h, w)
  BY WorkOf
<1>2. h \in Live /\ chan[h].id \in ChannelIds
  BY WorkOf DEF Live, PackTyped
<1>3. sent' \in [ChannelIds -> Seq(Row)]
  <2>1. CASE sent' = sent
    BY <2>1 DEF PackTyped
  <2>2. ASSUME NEW t \in Times, NEW n \in Sensors, NEW v \in Numbers, Inject(h, t, n, v)
        PROVE  sent' \in [ChannelIds -> Seq(Row)]
    <3> DEFINE row == [time |-> t, sensor |-> n, value |-> v]
    <3>1. row \in Row /\ sent' = [sent EXCEPT ![chan[h].id] = Append(sent[chan[h].id], row)]
      BY <2>2 DEF Inject, Row
    <3> HIDE DEF row
    <3>2. sent[chan[h].id] \in Seq(Row)
      BY <1>2 DEF PackTyped
    <3>3. Append(sent[chan[h].id], row) \in Seq(Row)
      BY <3>1, <3>2
    <3> QED
      BY <3>1, <3>3 DEF PackTyped
  <2> QED
    BY <2>1, <2>2 DEF Working, InjectRefused, ChannelFlush
<1> QED
  BY <1>1, <1>2, <1>3, WorkLeft DEF PackTyped

(* One channel's close: its last frame, if any, and the channel. *)
LEMMA CloseTyped ==
  ASSUME PackTyped, NEW h \in Handles, ChannelClose(h)
  PROVE  PackTyped'
<1>1. PICK r \in FlushResults : /\ chan' = [chan EXCEPT ![h] = ChannelClosed(chan[h], r)]
                                /\ file' = file \o FlushedFrames(Ended(chan[h]), r)
                                /\ pack' = Unlinked(HeardOf(r # "ok"), h)
  BY DEF ChannelClose
<1>2. chan[h] \in PackChan /\ chan[h].id \in ChannelIds
  BY DEF ChannelClose, Live, PackTyped
<1>3. ChannelClosed(chan[h], r) \in PackChan /\ ChannelClosed(chan[h], r).id \in ChannelIds
  BY <1>2, ChannelClosedTyped
<1>4. FlushedFrames(Ended(chan[h]), r) \in Seq(Frame)
  <2>1. Ended(chan[h]) \in PackChan /\ Ended(chan[h]).id \in ChannelIds
    BY <1>2, EndedTyped
  <2> QED
    BY <2>1, FlushedTyped
<1>5. file' \in Seq(Frame) /\ sent' = sent
  BY <1>1, <1>4 DEF PackTyped, ChannelClose
<1>6. pack' \in Pack
  BY <1>1, HeardTyped DEF PackTyped
<1> QED
  BY <1>1, <1>3, <1>5, <1>6, OneTyped DEF PackTyped

(* A frame no reader gets past. *)
Good(f) == f.meta \in {"DATA", "DEFINE"}
Fouling(x) == \A i \in 1 .. Len(x) : ~Good(x[i])

(***************************************************************************)
(* otic_pack_flush leaves frames no reader gets past, or none; if it       *)
(* leaves none, no bucket was emptied.                                     *)
(***************************************************************************)
Drained(c, d) == d.use = c.use /\ d.id = c.id /\ d.names = c.names /\ d.ts = c.ts /\ d.rowCounter = c.rowCounter

LEMMA PackFlushFrames ==
  ASSUME PackTyped, PackFlush
  PROVE  /\ chan' \in [Handles -> PackChan] /\ pack' \in Pack
         /\ \E x \in Seq(Frame) :
              /\ file' = file \o x /\ Fouling(x)
              /\ \A h \in Handles :
                   /\ Drained(chan[h], chan'[h])
                   /\ x = <<>> => chan'[h].bucket = chan[h].bucket
<1> DEFINE list == NewestFirst(pack.linked)
           n == Len(list)
           payload(k) == [i \in 1 .. k |-> MetaFrame("PAYLOAD", chan[list[i]].id)]
           flushed(k) == {list[i] : i \in 1 .. k}
           emptied == [h \in Handles |-> IF h \in pack.linked THEN [chan[h] EXCEPT !.bucket = <<>>]
                                         ELSE chan[h]]
           stopped(k) == [h \in Handles |->
                            IF h \in flushed(k) THEN [chan[h] EXCEPT !.bucket = <<>>]
                            ELSE IF h = list[k + 1] THEN [chan[h] EXCEPT !.error = "FLUSH_FAILED"]
                            ELSE chan[h]]
           torn(k, r) == IF r = "data" THEN <<MetaFrame("TORN_PAYLOAD", chan[list[k + 1]].id)>> ELSE <<>>
<1>1. pack.linked \subseteq Live /\ pack.linked \subseteq Handles
  BY Zenon DEF PackFlush, Walkable, Live
<1>2. /\ list \in Seq(pack.linked) /\ n \in Nat
      /\ \A h \in pack.linked : \E i \in 1 .. n : list[i] = h
  BY <1>1, NewestFirstLists
<1>3. \A i \in 1 .. n : \A m \in Untagged :
        MetaFrame(m, chan[list[i]].id) \in Frame /\ ~Good(MetaFrame(m, chan[list[i]].id))
  <2>1. \A i \in 1 .. n : list[i] \in Live
    BY <1>1, <1>2
  <2>2. \A h \in Live : chan[h].id \in ChannelIds
    BY DEF PackTyped, Live
  <2> QED
    BY <2>1, <2>2, FrameFacts DEF Good, MetaFrame, Untagged
<1>4. \/ file' = file \o payload(n) /\ chan' = emptied /\ pack' = pack
      \/ \E k \in 0 .. n - 1, r \in FlushResults \ {"ok"} :
           /\ file' = file \o payload(k) \o torn(k, r)
           /\ chan' = stopped(k) /\ pack' = [pack EXCEPT !.state = "ON_ERROR"]
  BY Zenon DEF PackFlush
<1>5. "PAYLOAD" \in Untagged /\ "TORN_PAYLOAD" \in Untagged
  BY DEF Untagged
<1> HIDE DEF list, n
<1>6. \A k \in 0 .. n : payload(k) \in Seq(Frame) /\ Len(payload(k)) = k /\ Fouling(payload(k))
  <2> SUFFICES ASSUME NEW k \in 0 .. n
               PROVE  payload(k) \in Seq(Frame) /\ Len(payload(k)) = k /\ Fouling(payload(k))
    OBVIOUS
  <2>1. \A i \in 1 .. k : i \in 1 .. n
    BY <1>2
  <2>2. k \in Nat /\ \A i \in 1 .. k : payload(k)[i] \in Frame /\ ~Good(payload(k)[i])
    BY <1>3, <1>5, <2>1, <1>2
  <2>3. payload(k) \in [1 .. k -> Frame]
    BY <2>2
  <2> HIDE DEF payload
  <2>4. payload(k) \in Seq(Frame) /\ Len(payload(k)) = k
    BY <2>2, <2>3
  <2> QED
    BY <2>2, <2>4 DEF Fouling
<1>7. \A h \in Handles : chan[h] \in PackChan
  BY DEF PackTyped
<1>8. \A c \in PackChan : LET d == [c EXCEPT !.bucket = <<>>] IN d \in PackChan /\ Drained(c, d)
  <2>1. <<>> \in Seq(Record)
    OBVIOUS
  <2> QED
    BY <2>1 DEF PackChan, Drained
<1>9. \A c \in PackChan : LET d == [c EXCEPT !.error = "FLUSH_FAILED"]
                          IN  d \in PackChan /\ Drained(c, d) /\ d.bucket = c.bucket
  BY DEF PackChan, Drained
<1>10. \A c \in PackChan : Drained(c, c)
  BY DEF Drained
<1>11. CASE file' = file \o payload(n) /\ chan' = emptied /\ pack' = pack
  <2>1. \A h \in Handles : chan'[h] \in PackChan /\ Drained(chan[h], chan'[h])
    BY <1>7, <1>8, <1>10, <1>11
  <2>2. n = 0 => pack.linked = {}
    BY <1>2
  <2>3. n = 0 => \A h \in Handles : chan'[h].bucket = chan[h].bucket
    BY <1>11, <2>2
  <2>4. payload(n) \in Seq(Frame) /\ Fouling(payload(n)) /\ (payload(n) = <<>> => n = 0)
    <3>1. n \in 0 .. n
      BY <1>2
    <3> HIDE DEF payload
    <3> QED
      BY <1>6, <3>1
  <2>5. chan' \in [Handles -> PackChan]
    BY <1>11, <2>1
  <2>6. pack' \in Pack
    BY <1>11 DEF PackTyped
  <2> HIDE DEF payload, emptied
  <2> QED
    BY <1>11, <2>1, <2>3, <2>4, <2>5, <2>6
<1>12. CASE \E k \in 0 .. n - 1, r \in FlushResults \ {"ok"} :
           /\ file' = file \o payload(k) \o torn(k, r)
           /\ chan' = stopped(k) /\ pack' = [pack EXCEPT !.state = "ON_ERROR"]
  <2>1. PICK k \in 0 .. n - 1, r \in FlushResults \ {"ok"} :
           /\ file' = file \o payload(k) \o torn(k, r)
           /\ chan' = stopped(k) /\ pack' = [pack EXCEPT !.state = "ON_ERROR"]
    BY <1>12
  <2>2. k \in Nat /\ k \in 0 .. n /\ k + 1 \in 1 .. n
    BY <1>2
  <2>3. torn(k, r) \in Seq(Frame) /\ Fouling(torn(k, r))
    BY <1>3, <1>5, <2>2 DEF Fouling
  <2> DEFINE p == payload(k)
             q == torn(k, r)
  <2>4. p \in Seq(Frame) /\ Len(p) = k /\ Fouling(p)
    BY <1>6, <2>2
  <2>5. \A h \in Handles : chan'[h] \in PackChan /\ Drained(chan[h], chan'[h])
    BY <1>7, <1>8, <1>9, <1>10, <2>1
  <2>6. k = 0 => \A h \in Handles : chan'[h].bucket = chan[h].bucket
    <3>1. k = 0 => flushed(k) = {}
      BY <2>2
    <3> HIDE DEF flushed
    <3> QED
      BY <1>7, <1>9, <2>1, <3>1
  <2>7. chan' \in [Handles -> PackChan]
    BY <2>1, <2>5
  <2>8. pack' \in Pack
    BY <2>1 DEF PackTyped, Pack, States
  <2> HIDE DEF payload, torn, stopped, p, q
  <2>9. file \in Seq(Frame) /\ file' = file \o p \o q
    BY <2>1 DEF PackTyped, p, q
  <2>10. p \o q \in Seq(Frame) /\ file' = file \o (p \o q) /\ (p \o q = <<>> => k = 0)
    <3>1. q \in Seq(Frame)
      BY <2>3 DEF q
    <3>2. p \o q \in Seq(Frame) /\ Len(p \o q) = Len(p) + Len(q)
      BY <2>4, <3>1, ConcatProperties
    <3>3. file' = file \o (p \o q)
      <4>1. file \in Seq(Frame) /\ p \in Seq(Frame) /\ q \in Seq(Frame)
        BY <2>4, <2>9, <3>1
      <4>2. (file \o p) \o q = file \o (p \o q)
        BY <4>1, ConcatAssociative
      <4> QED
        BY Zenon, <2>9, <4>2
    <3>4. p \o q = <<>> => k = 0
      BY <2>2, <2>4, <3>1, <3>2
    <3> QED
      BY <3>2, <3>3, <3>4
  <2>11. Fouling(p \o q)
    BY <2>3, <2>4 DEF Fouling, q
  <2> QED
    BY <2>5, <2>6, <2>7, <2>8, <2>10, <2>11
<1> QED
  BY Zenon, <1>4, <1>11, <1>12

(***************************************************************************)
(* otic_pack_close leaves at most one frame of each channel in the list,   *)
(* the last of its blocks, and every channel in the list closed.           *)
(***************************************************************************)
LEMMA PackCloseFrames ==
  ASSUME PackTyped, PackClose
  PROVE  /\ pack.linked \subseteq Live
         /\ pack' \in Pack /\ chan' \in [Handles -> PackChan]
         /\ \A h \in Handles : /\ chan'[h].id = chan[h].id
                               /\ h \in pack.linked => chan'[h].use = "closed"
                               /\ h \notin pack.linked => chan'[h] = chan[h]
         /\ \E x \in Seq(Frame), list \in Seq(pack.linked) :
              /\ file' = file \o x /\ Len(list) = Len(x)
              /\ \A i, j \in 1 .. Len(x) : list[i] = list[j] => i = j
              /\ \A i \in 1 .. Len(x) :
                   \/ x[i] = DataFrame(chan[list[i]].id, Ended(chan[list[i]]).bucket)
                   \/ x[i] = MetaFrame("TORN", chan[list[i]].id)
<1>1. PICK r \in [pack.linked -> FlushResults] :
        LET frames(h) == FlushedFrames(Ended(chan[h]), r[h])
            list == NewestFirst({h \in pack.linked : frames(h) # <<>>})
        IN  /\ file' = file \o [i \in DOMAIN list |-> frames(list[i])[1]]
            /\ chan' = [h \in Handles |-> IF h \in pack.linked THEN ChannelClosed(chan[h], r[h])
                                          ELSE chan[h]]
  BY Zenon DEF PackClose
<1> DEFINE frames(h) == FlushedFrames(Ended(chan[h]), r[h])
           S == {h \in pack.linked : frames(h) # <<>>}
           list == NewestFirst(S)
           x == [i \in DOMAIN list |-> frames(list[i])[1]]
<1>2. /\ pack.linked \subseteq Live /\ pack.linked \subseteq Handles
      /\ pack' = [pack EXCEPT !.state = "CLOSED", !.linked = {}]
  BY Zenon DEF PackClose, Walkable, Live
<1>3. \A h \in pack.linked : chan[h] \in PackChan /\ chan[h].id \in ChannelIds /\ r[h] \in FlushResults
  BY <1>2 DEF PackTyped, Live
<1>4. /\ list \in Seq(S) /\ Len(list) \in Nat
      /\ \A i, j \in 1 .. Len(list) : list[i] = list[j] => i = j
  <2>1. S \subseteq Handles
    BY <1>2
  <2> HIDE DEF S
  <2>2. list \in Seq(S) /\ \A i, j \in 1 .. Len(list) : list[i] = list[j] => i = j
    BY <2>1, NewestFirstLists
  <2> QED
    BY <2>2
<1>5. \A h \in S : /\ frames(h)[1] \in Frame
                   /\ \/ frames(h)[1] = DataFrame(chan[h].id, Ended(chan[h]).bucket)
                      \/ frames(h)[1] = MetaFrame("TORN", chan[h].id)
  <2> SUFFICES ASSUME NEW h \in S
               PROVE  /\ frames(h)[1] \in Frame
                      /\ \/ frames(h)[1] = DataFrame(chan[h].id, Ended(chan[h]).bucket)
                         \/ frames(h)[1] = MetaFrame("TORN", chan[h].id)
    OBVIOUS
  <2> DEFINE e == Ended(chan[h])
  <2>1. e \in PackChan /\ e.id = chan[h].id /\ e.id \in ChannelIds /\ r[h] \in FlushResults
    BY <1>3, EndedTyped
  <2>2. /\ frames(h) # <<>> /\ e.bucket \in Seq(Record)
        /\ frames(h) = FlushedFrames(e, r[h])
    BY <2>1, ChanFields
  <2> HIDE DEF e, frames
  <2>3. \/ frames(h) = <<DataFrame(e.id, e.bucket)>>
        \/ frames(h) = <<MetaFrame("TORN", e.id)>>
    BY <2>1, <2>2, FlushedTyped
  <2>4. DataFrame(e.id, e.bucket) \in Frame /\ MetaFrame("TORN", e.id) \in Frame
    BY <2>1, <2>2, FrameFacts
  <2> QED
    BY <2>1, <2>3, <2>4 DEF e
<1>6. file' = file \o x
  BY Zenon, <1>1
<1>7. \A h \in Handles : /\ chan'[h].id = chan[h].id /\ chan'[h] \in PackChan
                         /\ h \in pack.linked => chan'[h].use = "closed"
                         /\ h \notin pack.linked => chan'[h] = chan[h]
  <2> SUFFICES ASSUME NEW h \in Handles
               PROVE  /\ chan'[h].id = chan[h].id /\ chan'[h] \in PackChan
                      /\ h \in pack.linked => chan'[h].use = "closed"
                      /\ h \notin pack.linked => chan'[h] = chan[h]
    OBVIOUS
  <2>1. chan'[h] = IF h \in pack.linked THEN ChannelClosed(chan[h], r[h]) ELSE chan[h]
    BY Zenon, <1>1
  <2>2. CASE h \in pack.linked
    BY <1>3, <2>1, <2>2, ChannelClosedTyped
  <2>3. CASE h \notin pack.linked
    BY <2>1, <2>3 DEF PackTyped
  <2> QED
    BY <2>2, <2>3
<1>8. chan' \in [Handles -> PackChan]
  <2>1. chan' = [h \in Handles |-> IF h \in pack.linked THEN ChannelClosed(chan[h], r[h]) ELSE chan[h]]
    BY Zenon, <1>1
  <2> QED
    BY <1>7, <2>1
<1>9. pack' \in Pack
  BY <1>2 DEF PackTyped, Pack, States
<1> HIDE DEF frames, S, list
<1>10. /\ x \in Seq(Frame) /\ Len(x) = Len(list)
       /\ \A i \in 1 .. Len(x) : x[i] = frames(list[i])[1] /\ list[i] \in S
  <2>1. DOMAIN list = 1 .. Len(list) /\ \A i \in 1 .. Len(list) : list[i] \in S
    BY <1>4
  <2>2. x \in [1 .. Len(list) -> Frame]
    BY <1>5, <2>1
  <2>3. \A i \in 1 .. Len(list) : x[i] = frames(list[i])[1]
    BY <2>1
  <2> HIDE DEF x
  <2>4. x \in Seq(Frame) /\ Len(x) = Len(list)
    BY <1>4, <2>2
  <2> QED
    BY <2>1, <2>3, <2>4
<1> HIDE DEF x
<1>11. list \in Seq(pack.linked)
  <2>1. S \subseteq pack.linked
    BY DEF S
  <2> QED
    BY <1>4, <2>1
<1>12. \A i \in 1 .. Len(x) :
         \/ x[i] = DataFrame(chan[list[i]].id, Ended(chan[list[i]]).bucket)
         \/ x[i] = MetaFrame("TORN", chan[list[i]].id)
  BY <1>5, <1>10
<1>13. /\ file' = file \o x /\ Len(list) = Len(x)
       /\ \A i, j \in 1 .. Len(x) : list[i] = list[j] => i = j
       /\ \A i \in 1 .. Len(x) :
            \/ x[i] = DataFrame(chan[list[i]].id, Ended(chan[list[i]]).bucket)
            \/ x[i] = MetaFrame("TORN", chan[list[i]].id)
  BY <1>4, <1>6, <1>10, <1>12
<1>14. x \in Seq(Frame)
  BY <1>10
<1> QED
  BY <1>2, <1>7, <1>8, <1>9, <1>11, <1>13, <1>14

LEMMA DefineTyped ==
  ASSUME PackInv, PackTyped, NEW id \in Ids, DefineChannel(id)
  PROVE  PackTyped'
<1> DEFINE n == pack.next
<1>1. /\ n \in Handles /\ id \in ChannelIds
      /\ chan' = [chan EXCEPT ![n] = NewChannel(id, "live")]
      /\ pack' = [pack EXCEPT !.linked = @ \cup {n}, !.next = @ + 1]
      /\ sent' = sent /\ file' \in {file, Append(file, MetaFrame("DEFINE", id))}
  BY DEF DefineChannel, ChannelIds
<1>2. NewChannel(id, "live") \in PackChan /\ NewChannel(id, "live").id = id
  BY FreshTyped DEF NewChannel
<1>3. pack' \in Pack
  <2>1. n \in 1 .. MaxHandles /\ n + 1 \in 1 .. MaxHandles + 1
    BY <1>1, ContainerAssumption DEF Handles
  <2>2. pack.linked \cup {n} \in SUBSET Handles
    BY <1>1 DEF PackTyped, Pack
  <2>3. /\ pack' = [state |-> pack.state, linked |-> pack.linked \cup {n}, next |-> n + 1]
        /\ pack.state \in States
    BY <1>1 DEF PackTyped, Pack
  <2> HIDE DEF n
  <2> QED
    BY <2>1, <2>2, <2>3 DEF Pack
<1>4. file' \in Seq(Frame)
  <2> DEFINE f == MetaFrame("DEFINE", id)
  <2>1. f \in Frame /\ file' \in {file, Append(file, f)}
    BY <1>1, FrameFacts
  <2>2. file \in Seq(Frame)
    BY DEF PackTyped
  <2> HIDE DEF f
  <2>3. Append(file, f) \in Seq(Frame)
    BY <2>1, <2>2
  <2> QED
    BY <2>1, <2>2, <2>3
<1> QED
  BY <1>1, <1>2, <1>3, <1>4, OneTyped DEF PackTyped

LEMMA CloseChannelTyped ==
  ASSUME PackTyped, NEW id, CloseChannel(id)
  PROVE  PackTyped'
<1> DEFINE found == {h \in pack.linked : chan[h].id = id}
           head == Max(pack.linked)
<1>1. /\ chan' = [h \in Handles |-> IF h \in found THEN [chan[h] EXCEPT !.use = "dropped"] ELSE chan[h]]
      /\ pack' = [pack EXCEPT !.state = "ON_ERROR",
                    !.linked = IF found = {} THEN @ ELSE @ \ (found \cap {head})]
      /\ UNCHANGED <<sent, file>> /\ pack.linked \subseteq Live
  BY DEF CloseChannel, Walkable
<1>2. /\ found \subseteq Live /\ Live \subseteq Handles
  BY <1>1 DEF Live
<1>3. \A c \in PackChan : [c EXCEPT !.use = "dropped"] \in PackChan
  BY DEF PackChan
<1>4. \A h \in Handles : chan'[h] \in PackChan /\ chan'[h].id = chan[h].id
  BY <1>1, <1>3 DEF PackTyped, PackChan
<1>5. \A h \in Handles : chan'[h].use # "unused" => chan[h].use # "unused"
  <2>1. \A h \in Live : chan[h].use # "unused"
    BY DEF Live
  <2> HIDE DEF found
  <2> QED
    BY <1>1, <1>2, <2>1
<1>6. pack' \in Pack
  <2> DEFINE l == IF found = {} THEN pack.linked ELSE pack.linked \ (found \cap {head})
  <2>1. l \in SUBSET Handles /\ pack' = [pack EXCEPT !.state = "ON_ERROR", !.linked = l]
    BY <1>1 DEF PackTyped, Pack
  <2> HIDE DEF l
  <2> QED
    BY <2>1 DEF PackTyped, Pack, States
<1>7. chan' \in [Handles -> PackChan]
  BY <1>1, <1>4
<1> HIDE DEF found, head
<1> QED
  BY <1>1, <1>4, <1>5, <1>6, <1>7 DEF PackTyped

(* The packer's calls, by what they do to the file. *)
LEMMA PackCalls ==
  PackNext => \/ \E h \in Handles : Working(h) \/ ChannelClose(h)
              \/ \E id \in Ids : DefineChannel(id) \/ CloseChannel(id)
              \/ \E id \in Ids : DefineRefused(id)
              \/ PackFlush \/ ClearErrorFlag \/ PackClose
  BY Zenon DEF PackNext, Working

LEMMA PackStepTyped ==
  ASSUME PackInv, PackTyped, PackNext
  PROVE  PackTyped'
<1>1. \/ \E h \in Handles : Working(h) \/ ChannelClose(h)
      \/ \E id \in Ids : DefineChannel(id) \/ CloseChannel(id)
      \/ \E id \in Ids : DefineRefused(id)
      \/ PackFlush \/ ClearErrorFlag \/ PackClose
  BY PackCalls
<1>3. CASE (\E id \in Ids : DefineRefused(id)) \/ ClearErrorFlag
  <2>1. PICK x \in States : pack' = [pack EXCEPT !.state = x] /\ UNCHANGED <<chan, sent, file>>
    BY <1>3 DEF DefineRefused, Refused, ClearErrorFlag, States
  <2> QED
    BY <2>1 DEF PackTyped, Pack
<1>4. CASE PackFlush
  <2>1. /\ chan' \in [Handles -> PackChan] /\ pack' \in Pack
    BY <1>4, PackFlushFrames
  <2>2. PICK x \in Seq(Frame) : /\ file' = file \o x
                                /\ \A h \in Handles : Drained(chan[h], chan'[h])
    BY <1>4, PackFlushFrames
  <2>3. file' \in Seq(Frame) /\ sent' = sent
    <3>1. sent' = sent
      BY Zenon, <1>4 DEF PackFlush
    <3> QED
      BY <2>2, <3>1 DEF PackTyped
  <2> QED
    BY <2>1, <2>2, <2>3 DEF PackTyped, Drained
<1>5. CASE PackClose
  <2>1. /\ chan' \in [Handles -> PackChan] /\ pack' \in Pack /\ pack.linked \subseteq Live
        /\ \A h \in Handles : /\ chan'[h].id = chan[h].id
                              /\ h \notin pack.linked => chan'[h] = chan[h]
    BY <1>5, PackCloseFrames
  <2>2. PICK x \in Seq(Frame) : file' = file \o x
    BY <1>5, PackCloseFrames
  <2>3. file' \in Seq(Frame)
    BY <2>2 DEF PackTyped
  <2>5. sent' = sent
    BY Zenon, <1>5 DEF PackClose
  <2>4. \A h \in Handles : chan'[h].use # "unused" => chan[h].id \in ChannelIds
    BY <2>1 DEF PackTyped, Live
  <2> QED
    BY <2>1, <2>3, <2>4, <2>5 DEF PackTyped
<1> QED
  BY <1>1, <1>3, <1>4, <1>5, WorkingTyped, CloseTyped, DefineTyped, CloseChannelTyped

LEMMA InitPackTyped == PackInit => PackTyped
<1> SUFFICES ASSUME PackInit PROVE PackTyped
  OBVIOUS
<1>1. pack \in Pack
  BY ContainerAssumption DEF PackInit, Pack, States, Handles
<1>2. /\ chan \in [Handles -> PackChan]
      /\ \A h \in Handles : chan[h].use = "unused"
  <2>1. NewChannel(0, "unused") \in PackChan
    BY FreshTyped, FileAssumption
  <2> QED
    BY <2>1 DEF PackInit, NewChannel
<1>3. sent \in [ChannelIds -> Seq(Row)] /\ file \in Seq(Frame)
  BY DEF PackInit
<1> QED
  BY <1>1, <1>2, <1>3 DEF PackTyped

-----------------------------------------------------------------------------
(* What the container hears of a failing write. *)

(* No frame is left broken, and no channel's flush newly failed, or the container is not OPENED. *)
Unbroken == \A i \in DOMAIN file' \ DOMAIN file : file'[i].meta \notin Broken \ {"PAYLOAD"}
Quiet == Unbroken /\ \A h \in Handles : FlushFailed(chan'[h]) => FlushFailed(chan[h])
Heard == Quiet \/ pack'.state # "OPENED"

LEMMA FramesUnbroken ==
  ASSUME NEW x \in Seq(Frame), file \in Seq(Frame), file' = file \o x,
         \A i \in 1 .. Len(x) : x[i].meta \in {"DATA", "DEFINE", "PAYLOAD"}
  PROVE  Unbroken
<1> DEFINE f == file
<1>1. \A i \in 1 .. Len(f \o x) \ 1 .. Len(f) : \E j \in 1 .. Len(x) : (f \o x)[i] = x[j]
  <2> SUFFICES ASSUME NEW i \in 1 .. Len(f \o x), i \notin 1 .. Len(f)
               PROVE  \E j \in 1 .. Len(x) : (f \o x)[i] = x[j]
    OBVIOUS
  <2>1. i - Len(f) \in 1 .. Len(x) /\ (f \o x)[i] = x[i - Len(f)]
    OBVIOUS
  <2> QED
    BY <2>1
<1>2. DOMAIN file' = 1 .. Len(f \o x) /\ DOMAIN file = 1 .. Len(f)
  OBVIOUS
<1> QED
  BY <1>1, <1>2, FrameFacts DEF Unbroken

LEMMA WorkingHeard ==
  ASSUME PackTyped, NEW h \in Handles, Working(h)
  PROVE  Heard
<1>1. PICK w : WorkTyped(chan[h], w) /\ Leaves(h, w)
  BY WorkOf
<1>2. chan' = [chan EXCEPT ![h] = w.chan] /\ file' = file \o w.out /\ pack' = HeardOf(w.failed)
  BY <1>1 DEF Leaves
<1>3. CASE w.failed
  <2>1. HeardOf(w.failed).state = "ON_ERROR"
    BY <1>3, HeardTyped DEF PackTyped
  <2> QED
    BY <1>2, <2>1 DEF Heard
<1>4. CASE ~w.failed
  <2>1. /\ w.out \in Seq(Frame) /\ \A i \in 1 .. Len(w.out) : w.out[i].meta = "DATA"
        /\ w.chan.error = "FLUSH_FAILED" => chan[h].error = "FLUSH_FAILED"
    BY <1>1, <1>4 DEF WorkTyped, Grown
  <2>2. Unbroken
    BY <1>2, <2>1, FramesUnbroken DEF PackTyped
  <2>3. \A g \in Handles : FlushFailed(chan'[g]) => FlushFailed(chan[g])
    BY <1>2, <2>1 DEF PackTyped, FlushFailed
  <2> QED
    BY <2>2, <2>3 DEF Heard, Quiet
<1> QED
  BY <1>3, <1>4

LEMMA CloseHeard ==
  ASSUME PackTyped, NEW h \in Handles, ChannelClose(h)
  PROVE  Heard
<1>1. PICK r \in FlushResults : /\ chan' = [chan EXCEPT ![h] = ChannelClosed(chan[h], r)]
                                /\ file' = file \o FlushedFrames(Ended(chan[h]), r)
                                /\ pack' = Unlinked(HeardOf(r # "ok"), h)
  BY DEF ChannelClose
<1>2. CASE r # "ok"
  <2>1. Unlinked(HeardOf(r # "ok"), h).state = "ON_ERROR"
    BY <1>2, HeardTyped DEF PackTyped
  <2> QED
    BY <1>1, <2>1 DEF Heard
<1>3. CASE r = "ok"
  <2> DEFINE e == Ended(chan[h])
             x == FlushedFrames(e, r)
             d == FlushedChannel(e, r)
  <2>1. chan[h] \in PackChan /\ chan[h].id \in ChannelIds
    BY DEF ChannelClose, Live, PackTyped
  <2>2. e \in PackChan /\ e.id \in ChannelIds /\ e.error = chan[h].error
    <3>1. e.error = chan[h].error
      BY <2>1 DEF Ended, PackChan
    <3> QED
      BY <2>1, <3>1, EndedTyped
  <2> HIDE DEF e
  <2>3. x \in Seq(Frame) /\ x = <<DataFrame(e.id, e.bucket)>> /\ d \in PackChan /\ d.error = e.error
    BY <1>3, <2>2, FlushedTyped
  <2>4. \A i \in 1 .. Len(x) : x[i].meta \in {"DATA", "DEFINE", "PAYLOAD"}
    BY <2>3 DEF DataFrame
  <2>5. Unbroken
    <3> HIDE DEF x
    <3> QED
      BY <1>1, <2>3, <2>4, FramesUnbroken DEF PackTyped, e, x
  <2>6. ChannelClosed(chan[h], r).error = chan[h].error
    <3>1. ChannelClosed(chan[h], r) = [d EXCEPT !.use = "closed"]
      BY DEF ChannelClosed, e
    <3> HIDE DEF d
    <3> QED
      BY <2>2, <2>3, <3>1 DEF PackChan
  <2>7. \A g \in Handles : FlushFailed(chan'[g]) => FlushFailed(chan[g])
    BY <1>1, <2>6 DEF PackTyped, FlushFailed
  <2> QED
    BY <2>5, <2>7 DEF Heard, Quiet
<1> QED
  BY <1>2, <1>3

LEMMA PackFlushHeard ==
  ASSUME PackTyped, PackFlush
  PROVE  Heard
<1> DEFINE list == NewestFirst(pack.linked)
           x == [i \in 1 .. Len(list) |-> MetaFrame("PAYLOAD", chan[list[i]].id)]
<1>1. \/ pack' = [pack EXCEPT !.state = "ON_ERROR"]
      \/ /\ file' = file \o x
         /\ chan' = [h \in Handles |-> IF h \in pack.linked THEN [chan[h] EXCEPT !.bucket = <<>>]
                                       ELSE chan[h]]
  BY Zenon DEF PackFlush
<1>2. CASE pack' = [pack EXCEPT !.state = "ON_ERROR"]
  BY <1>2 DEF Heard, PackTyped, Pack
<1>3. CASE /\ file' = file \o x
           /\ chan' = [h \in Handles |-> IF h \in pack.linked THEN [chan[h] EXCEPT !.bucket = <<>>]
                                         ELSE chan[h]]
  <2>1. pack.linked \subseteq Live /\ pack.linked \subseteq Handles
    BY Zenon DEF PackFlush, Walkable, Live
  <2>2. list \in Seq(pack.linked) /\ Len(list) \in Nat
    BY <2>1, NewestFirstLists
  <2> HIDE DEF list
  <2>3. \A i \in 1 .. Len(list) : chan[list[i]].id \in ChannelIds
    <3>1. \A i \in 1 .. Len(list) : list[i] \in pack.linked
      BY <2>2
    <3>2. \A g \in pack.linked : chan[g].id \in ChannelIds
      BY <2>1 DEF PackTyped, Live
    <3> QED
      BY <3>1, <3>2
  <2>4. x \in [1 .. Len(list) -> Frame] /\ \A i \in 1 .. Len(list) : x[i].meta = "PAYLOAD"
    BY <2>3, FrameFacts DEF MetaFrame
  <2> HIDE DEF x
  <2>5. x \in Seq(Frame) /\ Len(x) = Len(list)
    BY <2>2, <2>4
  <2>6. Unbroken
    BY <1>3, <2>4, <2>5, FramesUnbroken DEF PackTyped
  <2>7. \A c \in PackChan : FlushFailed([c EXCEPT !.bucket = <<>>]) => FlushFailed(c)
    BY DEF PackChan, FlushFailed
  <2>8. \A g \in Handles : FlushFailed(chan'[g]) => FlushFailed(chan[g])
    BY <1>3, <2>7 DEF PackTyped
  <2> QED
    BY <2>6, <2>8 DEF Heard, Quiet
<1> QED
  BY <1>1, <1>2, <1>3

LEMMA PackNextHeard ==
  ASSUME PackTyped, PackNext
  PROVE  Heard
<1>1. ASSUME NEW id \in Ids, DefineChannel(id)
      PROVE  Heard
  <2> DEFINE f == MetaFrame("DEFINE", id)
             c == NewChannel(id, "live")
  <2>1. /\ id \in ChannelIds /\ pack.next \in Handles /\ chan' = [chan EXCEPT ![pack.next] = c]
        /\ file' \in {file, Append(file, f)}
    BY <1>1 DEF DefineChannel, ChannelIds
  <2>2. f \in Frame /\ f.meta = "DEFINE" /\ ~FlushFailed(c)
    BY <2>1, FrameFacts DEF MetaFrame, NewChannel, FlushFailed
  <2> HIDE DEF f, c
  <2>3. Unbroken
    <3>1. CASE file' = file
      BY <3>1 DEF Unbroken
    <3>2. CASE file' = Append(file, f)
      <4>1. file' = file \o <<f>> /\ <<f>> \in Seq(Frame)
        BY <2>2, <3>2 DEF PackTyped
      <4>2. \A i \in 1 .. Len(<<f>>) : <<f>>[i].meta \in {"DATA", "DEFINE", "PAYLOAD"}
        BY <2>2
      <4> QED
        BY <4>1, <4>2, FramesUnbroken DEF PackTyped
    <3> QED
      BY <2>1, <3>1, <3>2
  <2>4. \A g \in Handles : FlushFailed(chan'[g]) => FlushFailed(chan[g])
    BY <2>1, <2>2 DEF PackTyped
  <2> QED
    BY <2>3, <2>4 DEF Heard, Quiet
<1>2. ASSUME NEW id \in Ids, DefineRefused(id) \/ CloseChannel(id)
      PROVE  Heard
  <2>1. pack'.state = "ON_ERROR"
    BY <1>2 DEF DefineRefused, CloseChannel, Refused, PackTyped, Pack
  <2> QED
    BY <2>1 DEF Heard
<1>3. CASE ClearErrorFlag
  BY <1>3 DEF ClearErrorFlag, Heard, Quiet, Unbroken
<1>4. CASE PackClose
  <2>1. pack'.state = "CLOSED"
    BY Zenon, <1>4 DEF PackClose, PackTyped, Pack
  <2> QED
    BY <2>1 DEF Heard
<1> QED
  BY <1>1, <1>2, <1>3, <1>4, PackCalls, WorkingHeard, CloseHeard, PackFlushHeard

-----------------------------------------------------------------------------
(* The types of the reading side. *)

ReadTyped ==
  /\ unp \in Unp /\ reader \in [Readers -> ReadChan] /\ got \in [ChannelIds -> Seq(Delivery)]
  /\ \A h \in Readers : /\ reader[h].use = "live" => reader[h].id \in ChannelIds
                        /\ reader[h].use = "unused" => ~reader[h].complete

LEMMA ReadFields ==
  ASSUME NEW c \in ReadChan
  PROVE  /\ c.entries \in Seq(Sensors) /\ c.ts \in Times \cup {NoTime} /\ c.rowCounter \in Nat
         /\ c.block \in Seq(Record) /\ c.id \in Ids /\ c.complete \in BOOLEAN
  BY DEF ReadChan

LEMMA UnpMoves ==
  ASSUME unp \in Unp
  PROVE  /\ \A f : Past(f) \in Unp /\ Past(f).ended = unp.ended /\ Past(f).astray = unp.astray
                   /\ Past(f).at = unp.at /\ Past(f).linked = unp.linked
                   /\ Past(f).by = unp.by /\ ~Past(f).fresh
         /\ AtEnd \in Unp /\ AtEnd.ended /\ AtEnd.linked = unp.linked /\ AtEnd.astray = unp.astray
         /\ Astray \in Unp /\ Astray.astray /\ Astray.linked = unp.linked
         /\ \A e : Stopped(e) \in Unp /\ Stopped(e).ended /\ Stopped(e).linked = unp.linked
                   /\ Stopped(e).astray = unp.astray
<1>1. /\ AtEnd \in Unp /\ AtEnd.ended /\ AtEnd.linked = unp.linked /\ AtEnd.astray = unp.astray
  BY DEF AtEnd, Unp
<1>2. Astray \in Unp /\ Astray.astray /\ Astray.linked = unp.linked
  BY DEF Astray, Unp
<1>3. \A e : Stopped(e) \in Unp /\ Stopped(e).ended /\ Stopped(e).linked = unp.linked
                   /\ Stopped(e).astray = unp.astray
  BY <1>1 DEF Stopped, Unp, UStates
<1>4. ASSUME NEW f
      PROVE  /\ Past(f) \in Unp /\ Past(f).ended = unp.ended /\ Past(f).astray = unp.astray
             /\ Past(f).at = unp.at /\ Past(f).linked = unp.linked
             /\ Past(f).by = unp.by /\ ~Past(f).fresh
  <2> DEFINE b == (unp.by = "generate" /\ f.meta # "DEFINE")
  <2>1. b \in BOOLEAN /\ Past(f) = [unp EXCEPT !.fresh = FALSE, !.inCall = b]
    BY DEF Past
  <2> HIDE DEF b
  <2> QED
    BY Zenon, <2>1 DEF Unp
<1> QED
  BY <1>1, <1>2, <1>3, <1>4

(* A record read: what the block keeps, and what becomes known. *)
LEMMA AfterTyped ==
  ASSUME NEW c \in ReadChan, c.block # <<>>, NEW r \in Record
  PROVE  /\ After(c, r) \in ReadChan /\ After(c, r).use = c.use /\ After(c, r).id = c.id
         /\ After(c, r).block = Tail(c.block)
         /\ After(c, r).ts = IF r.rec = "TIME" THEN r.time ELSE c.ts
         /\ After(c, r).entries = IF r.rec = "NAME" THEN Append(c.entries, r.sensor) ELSE c.entries
         /\ After(c, r).rowCounter = IF r.rec = "ROW" THEN c.rowCounter + 1 ELSE c.rowCounter
         /\ After(c, r).complete = IF r.rec = "EOF" /\ r.count = c.rowCounter THEN TRUE ELSE c.complete
<1> DEFINE b == Tail(c.block)
           n == [c EXCEPT !.block = b]
<1>1. b \in Seq(Record)
  BY ReadFields
<1> HIDE DEF b
<1>2. /\ n \in ReadChan /\ n.use = c.use /\ n.id = c.id /\ n.block = b /\ n.ts = c.ts
      /\ n.entries = c.entries /\ n.rowCounter = c.rowCounter /\ n.complete = c.complete
  BY <1>1 DEF ReadChan
<1>3. /\ r.rec \in {"TIME", "NAME", "ROW", "EOF"}
      /\ r.rec = "TIME" => r.time \in Times
      /\ r.rec = "NAME" => r.sensor \in Sensors
      /\ r.rec = "EOF" => r.count \in Nat
  BY DEF Record
<1>4. After(c, r) = CASE r.rec = "TIME" -> [n EXCEPT !.ts = r.time]
                      [] r.rec = "NAME" -> [n EXCEPT !.entries = Append(n.entries, r.sensor)]
                      [] r.rec = "ROW" -> [n EXCEPT !.rowCounter = n.rowCounter + 1]
                      [] OTHER -> IF r.count = c.rowCounter THEN [n EXCEPT !.complete = TRUE]
                                  ELSE [n EXCEPT !.state = "ON_ERROR"]
  BY DEF After, b
<1> HIDE DEF n
<1>5. CASE r.rec = "TIME"
  <2>1. r.time \in Times /\ After(c, r) = [n EXCEPT !.ts = r.time]
    BY Zenon, <1>3, <1>4, <1>5
  <2>2. [n EXCEPT !.ts = r.time] \in ReadChan
    BY <1>2, <2>1 DEF ReadChan
  <2> QED
    BY <1>2, <1>5, <2>1, <2>2 DEF ReadChan, b
<1>6. CASE r.rec = "NAME"
  <2> DEFINE e == Append(n.entries, r.sensor)
  <2>1. e \in Seq(Sensors)
    BY <1>2, <1>3, <1>6, ReadFields
  <2>2. After(c, r) = [n EXCEPT !.entries = e] /\ e = Append(c.entries, r.sensor)
    BY <1>2, <1>4, <1>6
  <2> HIDE DEF e
  <2>3. [n EXCEPT !.entries = e] \in ReadChan
    BY <1>2, <2>1 DEF ReadChan
  <2> QED
    BY <1>2, <1>6, <2>2, <2>3 DEF ReadChan, b
<1>7. CASE r.rec = "ROW"
  <2> DEFINE k == n.rowCounter + 1
  <2>1. k \in Nat /\ k = c.rowCounter + 1
    BY <1>2, ReadFields
  <2>2. After(c, r) = [n EXCEPT !.rowCounter = k]
    BY <1>4, <1>7
  <2> HIDE DEF k
  <2>3. [n EXCEPT !.rowCounter = k] \in ReadChan
    BY <1>2, <2>1 DEF ReadChan
  <2> QED
    BY <1>2, <1>7, <2>1, <2>2, <2>3 DEF ReadChan, b
<1>8. CASE r.rec = "EOF" /\ r.count = c.rowCounter
  <2>1. After(c, r) = [n EXCEPT !.complete = TRUE]
    BY <1>4, <1>8
  <2>2. [n EXCEPT !.complete = TRUE] \in ReadChan
    BY <1>2 DEF ReadChan
  <2> QED
    BY <1>2, <1>8, <2>1, <2>2 DEF ReadChan, b
<1>9. CASE r.rec = "EOF" /\ r.count # c.rowCounter
  <2>1. After(c, r) = [n EXCEPT !.state = "ON_ERROR"]
    BY <1>4, <1>9
  <2>2. [n EXCEPT !.state = "ON_ERROR"] \in ReadChan
    BY <1>2 DEF ReadChan
  <2> QED
    BY <1>2, <1>9, <2>1, <2>2 DEF ReadChan, b
<1> QED
  BY <1>3, <1>5, <1>6, <1>7, <1>8, <1>9

LEMMA DeliveredTyped ==
  ASSUME NEW c \in ReadChan, NEW r \in Record, Defined(c, r)
  PROVE  /\ Delivered(c, r) \in Seq(Delivery)
         /\ r.rec # "ROW" => Delivered(c, r) = <<>>
         /\ r.rec = "ROW" =>
              /\ Delivered(c, r) = <<[time |-> c.ts, sensor |-> c.entries[r.index + 1], value |-> r.value]>>
              /\ [time |-> c.ts, sensor |-> c.entries[r.index + 1], value |-> r.value] \in Delivery
<1>1. CASE r.rec # "ROW"
  BY <1>1 DEF Delivered
<1>2. CASE r.rec = "ROW"
  <2> DEFINE i == r.index
             l == Len(c.entries)
             d == [time |-> c.ts, sensor |-> c.entries[i + 1], value |-> r.value]
  <2>1. i \in Nat /\ r.value \in Numbers
    BY <1>2 DEF Record
  <2>2. l \in Nat /\ c.entries \in Seq(Sensors) /\ i < l
    BY <1>2, ReadFields DEF Defined
  <2>3. c.entries[i + 1] \in Sensors
    <3> HIDE DEF i, l
    <3>1. i + 1 \in 1 .. l
      BY <2>1, <2>2
    <3> QED
      BY <2>2, <3>1 DEF l
  <2>4. d \in Delivery
    BY <2>1, <2>3, ReadFields DEF Delivery
  <2>5. Delivered(c, r) = <<d>>
    BY <1>2 DEF Delivered
  <2> HIDE DEF d
  <2> QED
    BY <1>2, <2>4, <2>5 DEF d
<1> QED
  BY <1>1, <1>2

(* A line is a record or two. *)
LEMMA LineRecords ==
  ASSUME NEW c \in ReadChan, c.block # <<>>
  PROVE  /\ Head(c.block) \in Record
         /\ \/ Line(c) = <<Head(c.block)>>
            \/ /\ Head(c.block).rec = "ROW" /\ Head(c.block).value \in Small
               /\ Len(Line(c)) = 2 /\ Len(c.block) > 1
               /\ Line(c)[1] = Head(c.block) /\ Line(c)[2] \in Record
<1>1. c.block \in Seq(Record) /\ Head(c.block) \in Record
  BY ReadFields
<1> DEFINE b == c.block
           l == Len(b)
<1>2. CASE Head(b).rec = "ROW" /\ Head(b).value \in Small /\ l > 1
  <2>1. b \in Seq(Record) /\ l \in Nat /\ b[1] = Head(b) /\ Line(c) = SubSeq(b, 1, 2)
    BY <1>1, <1>2 DEF Line
  <2> HIDE DEF b
  <2>2. /\ \A i \in 1 .. 2 : b[i] \in Record
    BY <1>2, <2>1
  <2>3. /\ Len(SubSeq(b, 1, 2)) = 2 /\ SubSeq(b, 1, 2)[1] = b[1] /\ SubSeq(b, 1, 2)[2] = b[2]
    BY <1>2, <2>1
  <2>4. b[2] \in Record
    BY <2>2
  <2> HIDE DEF l
  <2> QED
    BY <1>1, <1>2, <2>1, <2>3, <2>4 DEF b, l
<1>3. CASE ~(Head(b).rec = "ROW" /\ Head(b).value \in Small /\ l > 1)
  BY <1>1, <1>3 DEF Line
<1> QED
  BY <1>2, <1>3

LEMMA FrontFrame ==
  ASSUME file \in Seq(Frame), file # <<>>
  PROVE  /\ Head(file) \in Frame /\ Tail(file) \in Seq(Frame)
         /\ Head(file).meta = "DATA" => Head(file).id \in ChannelIds /\ Head(file).block \in Seq(Record)
<1>1. Head(file) \in Frame /\ Tail(file) \in Seq(Frame)
  OBVIOUS
<1> QED
  BY <1>1, FrameFacts DEF Frame

LEMMA FrameStepTyped ==
  ASSUME ReadTyped, file \in Seq(Frame), ReadFrame
  PROVE  ReadTyped' /\ file' \in Seq(Frame)
<1>1. CASE ReadDefine
  <2>1. /\ unp' = Past(Head(file)) /\ got' = got /\ file' = Tail(file) /\ file # <<>>
        /\ reader' = [h \in Readers |-> IF h \in FoundFor(Head(file).id)
                                        THEN [reader[h] EXCEPT !.state = "OPENED"] ELSE reader[h]]
    BY <1>1 DEF ReadDefine, AtFrame
  <2>2. \A c \in ReadChan : LET d == [c EXCEPT !.state = "OPENED"]
                            IN  /\ d \in ReadChan /\ d.use = c.use /\ d.id = c.id
                                /\ d.complete = c.complete
    BY DEF ReadChan
  <2>3. \A h \in Readers : /\ reader'[h] \in ReadChan /\ reader'[h].use = reader[h].use
                           /\ reader'[h].id = reader[h].id /\ reader'[h].complete = reader[h].complete
    BY <2>1, <2>2 DEF ReadTyped
  <2>4. reader' \in [Readers -> ReadChan]
    BY <2>1, <2>3
  <2> QED
    BY <2>1, <2>3, <2>4, UnpMoves, FrontFrame DEF ReadTyped
<1>2. CASE ReadBlock
  <2>1. PICK h \in FoundFor(Head(file).id) :
          /\ unp' = [unp EXCEPT !.fresh = FALSE, !.at = h, !.inCall = TRUE]
          /\ reader' = [reader EXCEPT ![h].block = Head(file).block]
    BY <1>2 DEF ReadBlock
  <2>2. /\ file # <<>> /\ Head(file).meta = "DATA" /\ file' = Tail(file) /\ got' = got
    BY <1>2 DEF ReadBlock, AtFrame
  <2>3. h \in Readers /\ reader[h] \in ReadChan
    BY DEF FoundFor, ReadTyped, Unp
  <2> DEFINE b == Head(file).block
             d == [reader[h] EXCEPT !.block = b]
  <2>4. b \in Seq(Record) /\ reader' = [reader EXCEPT ![h] = d]
    BY <2>1, <2>2, FrontFrame
  <2> HIDE DEF b
  <2>5. d \in ReadChan /\ d.use = reader[h].use /\ d.id = reader[h].id
        /\ d.complete = reader[h].complete
    BY <2>3, <2>4 DEF ReadChan
  <2>6. unp' \in Unp
    BY <2>1, <2>3 DEF ReadTyped, Unp
  <2> HIDE DEF d
  <2> QED
    BY <2>2, <2>3, <2>4, <2>5, <2>6, FrontFrame DEF ReadTyped
<1>3. CASE SkipBlock \/ ReadTorn \/ ReadTornDefine \/ ReadUntagged
  <2>1. /\ file # <<>> /\ file' = Tail(file) /\ UNCHANGED <<reader, got>>
    BY <1>3 DEF SkipBlock, ReadTorn, ReadTornDefine, ReadUntagged, AtFrame
  <2>2. \/ \E f : unp' = Past(f)
        \/ \E e : unp' = Stopped(e)
        \/ unp' \in {AtEnd, Astray}
    BY <1>3 DEF SkipBlock, ReadTorn, ReadTornDefine, ReadUntagged, Misread
  <2>3. unp' \in Unp
    BY <2>2, UnpMoves DEF ReadTyped
  <2> QED
    BY <2>1, <2>3, FrontFrame DEF ReadTyped
<1>4. CASE ReadEnd
  BY <1>4, UnpMoves DEF ReadEnd, ReadTyped
<1> QED
  BY <1>1, <1>2, <1>3, <1>4 DEF ReadFrame

(* Records that a reader has taken, and what it hands over for them. *)
LEMMA TakenTyped ==
  ASSUME ReadTyped, NEW h \in LiveReaders, NEW c \in ReadChan, c.use = "live", c.id = reader[h].id,
         NEW rows \in Seq(Delivery),
         reader' = [reader EXCEPT ![h] = c], got' = [got EXCEPT ![reader[h].id] = @ \o rows],
         unp' \in Unp
  PROVE  ReadTyped'
<1>1. h \in Readers /\ reader[h].id \in ChannelIds
  BY DEF LiveReaders, ReadTyped
<1>2. got[reader[h].id] \o rows \in Seq(Delivery)
  BY <1>1 DEF ReadTyped
<1> QED
  BY <1>1, <1>2 DEF ReadTyped

LEMMA RecordStepTyped ==
  ASSUME ReadTyped, ParseRecord \/ GenerateLine \/ LeaveBlock
  PROVE  ReadTyped' /\ file' = file
<1>1. CASE LeaveBlock
  <2>1. unp' = [unp EXCEPT !.at = NoReader, !.inCall = FALSE]
    BY <1>1 DEF LeaveBlock
  <2>2. unp' \in Unp
    BY <2>1 DEF Unp, ReadTyped
  <2> QED
    BY <1>1, <2>2 DEF LeaveBlock, ReadTyped
<1>2. CASE unp' = Astray /\ UNCHANGED <<reader, got, file>>
  BY <1>2, UnpMoves DEF ReadTyped
<1> DEFINE h == unp.at
           c == reader[h]
           r == Head(c.block)
           line == Line(c)
<1>3. ASSUME ParseRecord \/ GenerateLine
      PROVE  h \in LiveReaders /\ c \in ReadChan /\ c.block # <<>> /\ Current = c /\ r \in Record
             /\ c.use = "live"
  BY Zenon, <1>3, LineRecords DEF ParseRecord, GenerateLine, InBlock, Current, LiveReaders, ReadTyped
<1>4. CASE ParseRecord /\ unp' # Astray
  <2>1. /\ Defined(c, r) /\ reader' = [reader EXCEPT ![h] = After(c, r)]
        /\ got' = [got EXCEPT ![c.id] = @ \o Delivered(c, r)]
        /\ unp' = unp /\ file' = file
    BY Zenon, <1>3, <1>4 DEF ParseRecord
  <2>2. After(c, r) \in ReadChan /\ After(c, r).use = "live" /\ After(c, r).id = c.id
    BY <1>3, <1>4, AfterTyped
  <2>3. Delivered(c, r) \in Seq(Delivery)
    BY Zenon, <1>3, <1>4, <2>1, DeliveredTyped
  <2>4. unp' \in Unp
    BY Zenon, <2>1 DEF ReadTyped
  <2> HIDE DEF h, r
  <2> QED
    BY <1>3, <1>4, <2>1, <2>2, <2>3, <2>4, TakenTyped
<1>5. CASE GenerateLine /\ unp' # Astray
  <2>1. /\ \A i \in DOMAIN line : Defined(c, line[i])
        /\ reader' = [reader EXCEPT ![h] = AfterLine(c, line)]
        /\ got' = [got EXCEPT ![c.id] = @ \o DeliveredLine(c, line)]
        /\ unp' = [unp EXCEPT !.inCall = FALSE, !.ended = Last(line).rec = "EOF"]
        /\ file' = file
    <3>1. line = Line(Current)
      BY <1>3, <1>5
    <3> HIDE DEF line
    <3>2. ~(Lost(line) \/ \E i \in DOMAIN line : ~Defined(Current, line[i]))
      BY Zenon, <1>5, <3>1 DEF GenerateLine
    <3>3. /\ reader' = [reader EXCEPT ![h] = AfterLine(Current, line)]
          /\ got' = [got EXCEPT ![Current.id] = @ \o DeliveredLine(Current, line)]
          /\ unp' = [unp EXCEPT !.inCall = FALSE, !.ended = Last(line).rec = "EOF"]
          /\ file' = file
      BY Zenon, <1>5, <3>1, <3>2 DEF GenerateLine
    <3> QED
      BY Zenon, <1>3, <1>5, <3>2, <3>3
  <2>2. unp' \in Unp
    <3> DEFINE b == (Last(line).rec = "EOF")
    <3>1. b \in BOOLEAN /\ unp' = [unp EXCEPT !.inCall = FALSE, !.ended = b]
      BY <2>1
    <3> HIDE DEF b
    <3> QED
      BY <3>1 DEF Unp, ReadTyped
  <2>3. \/ line = <<r>>
        \/ /\ Len(line) = 2 /\ Len(c.block) > 1 /\ line[1] = r /\ line[2] \in Record
           /\ DOMAIN line = 1 .. 2
    <3>1. c.block \in Seq(Record)
      BY <1>3, <1>5, ReadFields
    <3> QED
      BY <1>3, <1>5, <3>1, LineRecords DEF Line
  <2> HIDE DEF line
  <2>4. CASE line = <<r>>
    <3>1. Defined(c, r) /\ AfterLine(c, line) = After(c, r) /\ DeliveredLine(c, line) = Delivered(c, r)
      BY <2>1, <2>4 DEF AfterLine, DeliveredLine
    <3>2. After(c, r) \in ReadChan /\ After(c, r).use = "live" /\ After(c, r).id = c.id
      BY <1>3, <1>5, AfterTyped
    <3>3. Delivered(c, r) \in Seq(Delivery)
      BY <1>3, <1>5, <3>1, DeliveredTyped
    <3> HIDE DEF h, r
    <3> QED
      BY <1>3, <1>5, <2>1, <2>2, <3>1, <3>2, <3>3, TakenTyped
  <2>5. CASE /\ Len(line) = 2 /\ Len(c.block) > 1 /\ line[1] = r /\ line[2] \in Record
             /\ DOMAIN line = 1 .. 2
    <3> DEFINE s == line[2]
               d == After(c, r)
    <3>1. Defined(c, r) /\ Defined(c, s) /\ r \in Record /\ s \in Record
      BY <1>3, <1>5, <2>1, <2>5
    <3>2. AfterLine(c, line) = After(d, s) /\ DeliveredLine(c, line) = Delivered(c, r) \o Delivered(c, s)
      BY <2>5 DEF AfterLine, DeliveredLine
    <3>3. d \in ReadChan /\ d.use = "live" /\ d.id = c.id /\ d.block # <<>>
      <4> DEFINE b == c.block
      <4>1. b \in Seq(Record) /\ Len(b) > 1
        BY <1>3, <1>5, <2>5, ReadFields
      <4> HIDE DEF b
      <4>2. Len(b) - 1 > 0 /\ b # <<>>
        BY <4>1
      <4>3. Tail(b) # <<>>
        BY <4>1, <4>2, HeadTailProperties, EmptySeq
      <4> QED
        BY <1>3, <1>5, <4>3, AfterTyped DEF b
    <3> HIDE DEF s, d
    <3>4. After(d, s) \in ReadChan /\ After(d, s).use = "live" /\ After(d, s).id = c.id
      BY <3>1, <3>3, AfterTyped
    <3>5. Delivered(c, r) \in Seq(Delivery) /\ Delivered(c, s) \in Seq(Delivery)
      BY <1>3, <1>5, <3>1, DeliveredTyped
    <3>6. Delivered(c, r) \o Delivered(c, s) \in Seq(Delivery)
      BY <3>5
    <3> HIDE DEF h, r
    <3> QED
      BY Zenon, <1>3, <1>5, <2>1, <2>2, <3>2, <3>4, <3>6, TakenTyped
  <2> QED
    BY <2>3, <2>4, <2>5
<1>6. (ParseRecord \/ GenerateLine) /\ unp' = Astray => UNCHANGED <<reader, got, file>> \/ unp' # Astray
  <2>1. Astray.astray
    BY DEF Astray, Unp, ReadTyped
  <2>2. ASSUME ParseRecord, unp' = Astray PROVE UNCHANGED <<reader, got, file>>
    <3>1. ~unp.astray
      BY <2>2 DEF ParseRecord, InBlock
    <3>2. unp' # unp
      BY Zenon, <2>1, <2>2, <3>1
    <3> QED
      BY Zenon, <2>2, <3>2 DEF ParseRecord
  <2>3. ASSUME GenerateLine, unp' = Astray PROVE UNCHANGED <<reader, got, file>>
    <3>1. ~unp.astray
      BY <2>3 DEF GenerateLine, InBlock
    <3> DEFINE z == [unp EXCEPT !.inCall = FALSE, !.ended = Last(Line(Current)).rec = "EOF"]
    <3>2. z.astray = unp.astray
      BY DEF Unp, ReadTyped
    <3>3. unp' # z
      BY Zenon, <2>1, <2>3, <3>1, <3>2
    <3> QED
      BY Zenon, <2>3, <3>3 DEF GenerateLine
  <2> QED
    BY <2>2, <2>3
<1> QED
  BY <1>1, <1>2, <1>4, <1>5, <1>6

LEMMA CallsTyped ==
  ASSUME ReadTyped, ReaderInv, UnpackCalls
  PROVE  ReadTyped' /\ file' = file
<1>1. CASE \E id \in ChannelIds : SelectChannel(id)
  <2>1. PICK id \in ChannelIds : SelectChannel(id)
    BY <1>1
  <2> DEFINE h == unp.next
             n == unp.next + 1
             l == unp.linked \cup {h}
             c == NewReader(id, "live")
  <2>2. /\ h \in Readers /\ reader' = [reader EXCEPT ![h] = c] /\ got' = got /\ file' = file
        /\ unp' = [unp EXCEPT !.linked = l, !.next = n]
    BY <2>1 DEF SelectChannel, Listing
  <2>3. n \in 1 .. MaxReaders + 1 /\ l \in SUBSET Readers
    BY <2>2, UnpackAssumption DEF ReadTyped, Unp, Readers
  <2>4. c \in ReadChan /\ c.use = "live" /\ c.id = id
    <3>1. <<>> \in Seq(Sensors) /\ <<>> \in Seq(Record) /\ id \in Ids
      BY DEF ChannelIds
    <3> QED
      BY <3>1 DEF ReadChan, NewReader
  <2> HIDE DEF h, n, l, c
  <2>5. unp' \in Unp
    BY <2>2, <2>3 DEF ReadTyped, Unp
  <2>6. /\ reader' \in [Readers -> ReadChan]
        /\ \A g \in Readers : reader'[g] = IF g = h THEN c ELSE reader[g]
    BY <2>2, <2>4 DEF ReadTyped
  <2> QED
    BY <2>2, <2>4, <2>5, <2>6 DEF ReadTyped
<1>2. CASE \E id \in ChannelIds : SelectRefused(id) \/ CloseUnknown(id)
  <2>1. unp' = [unp EXCEPT !.state = "ON_ERROR"] /\ UNCHANGED <<reader, got, file>>
    BY <1>2 DEF SelectRefused, CloseUnknown
  <2>2. unp' \in Unp
    BY <2>1 DEF ReadTyped, Unp, UStates
  <2> QED
    BY <2>1, <2>2 DEF ReadTyped
<1>3. ASSUME NEW c \in ReadChan
      PROVE  Freed(c) \in ReadChan /\ Freed(c).use = "freed" /\ Freed(c).complete = c.complete
  <2>1. <<>> \in Seq(Sensors) /\ <<>> \in Seq(Record)
    OBVIOUS
  <2> QED
    BY <2>1 DEF ReadChan, Freed, NewReader
<1>4. CASE \E h \in Readers : DropReader(h)
  <2>1. PICK h \in Readers : DropReader(h)
    BY <1>4
  <2> DEFINE l == unp.linked \ {h}
             c == Freed(reader[h])
  <2>2. /\ reader' = [reader EXCEPT ![h] = c] /\ got' = got /\ file' = file
        /\ unp' = [unp EXCEPT !.linked = l]
    BY <2>1 DEF DropReader
  <2>3. c \in ReadChan /\ c.use = "freed" /\ l \in SUBSET Readers
    BY <1>3 DEF ReadTyped, Unp
  <2> HIDE DEF l, c
  <2>4. unp' \in Unp
    BY <2>2, <2>3 DEF ReadTyped, Unp
  <2> QED
    BY <2>2, <2>3, <2>4 DEF ReadTyped
<1>5. CASE UnpackClose
  <2>1. /\ got' = got /\ file' = file
        /\ reader' = [h \in Readers |-> IF h \in unp.linked THEN Freed(reader[h]) ELSE reader[h]]
        /\ unp' = [unp EXCEPT !.state = "CLOSED", !.linked = {}, !.ended = TRUE]
    BY <1>5 DEF UnpackClose
  <2>2. unp' \in Unp
    BY <2>1 DEF ReadTyped, Unp, UStates
  <2>3. \A h \in Readers : reader'[h] = IF h \in unp.linked THEN Freed(reader[h]) ELSE reader[h]
    BY <2>1
  <2>4. \A h \in Readers : /\ reader'[h] \in ReadChan
                           /\ reader'[h] = reader[h] \/ reader'[h].use = "freed"
    BY <1>3, <2>3 DEF ReadTyped
  <2>5. reader' \in [Readers -> ReadChan]
    BY <2>1, <2>4
  <2> QED
    BY <2>1, <2>2, <2>4, <2>5 DEF ReadTyped
<1> QED
  BY <1>1, <1>2, <1>4, <1>5 DEF UnpackCalls

LEMMA InitReadTyped == UInit => ReadTyped
<1> SUFFICES ASSUME UInit PROVE ReadTyped
  OBVIOUS
<1>1. <<>> \in Seq(Sensors) /\ <<>> \in Seq(Record) /\ <<>> \in Seq(Delivery)
  OBVIOUS
<1>2. NewReader(0, "unused") \in ReadChan
  BY <1>1, FileAssumption DEF ReadChan, NewReader
<1>3. unp \in Unp
  BY UnpackAssumption DEF UInit, Unp, UStates
<1>4. reader \in [Readers -> ReadChan] /\ got \in [ChannelIds -> Seq(Delivery)]
  BY <1>1, <1>2 DEF UInit
<1>5. \A h \in Readers : reader[h].use = "unused" /\ ~reader[h].complete
  BY DEF UInit, NewReader
<1> QED
  BY <1>3, <1>4, <1>5 DEF ReadTyped

(* otic_unpack_init, in a process that knows of the packer's channels what was closed. *)
LEMMA OpenTyped ==
  ASSUME PackTyped, ReadTyped, Open
  PROVE  PackTyped' /\ ReadTyped'
<1>1. PICK by \in {"parse", "generate"}, header \in Headers : UnpackInit(by, header)
  BY DEF Open
<1>2. unp' \in Unp /\ UNCHANGED <<reader, got, file>>
  <2> DEFINE e == (header # "good")
             s == (IF header = "good" THEN "OPENED" ELSE "ON_ERROR")
  <2>1. e \in BOOLEAN /\ s \in UStates /\ unp' = [unp EXCEPT !.by = by, !.ended = e, !.state = s]
    BY <1>1 DEF UnpackInit, UStates
  <2> HIDE DEF e, s
  <2> QED
    BY Zenon, <1>1, <2>1 DEF UnpackInit, ReadTyped, Unp
<1>3. /\ chan' = [h \in Handles |-> Forgotten(chan[h])] /\ sent' = sent
      /\ pack' = [state |-> "CLOSED", linked |-> {}, next |-> MaxHandles + 1]
  BY DEF Open, PackerGone
<1>4. pack' \in Pack
  BY <1>3, ContainerAssumption DEF Pack, States, Handles
<1>5. \A c \in PackChan : Forgotten(c) \in PackChan
  <2>1. <<>> \in Seq(Sensors) /\ <<>> \in Seq(Record)
    OBVIOUS
  <2>2. \A id \in Ids : \A u \in {"unused", "closed"} : NewChannel(id, u) \in PackChan
    BY <2>1 DEF NewChannel, PackChan, States
  <2>3. ASSUME NEW c \in PackChan, c.use = "closed" PROVE Forgotten(c) \in PackChan
    <3> DEFINE n == NewChannel(c.id, "closed")
               e == IF FlushFailed(c) THEN c.error ELSE n.error
    <3>1. n \in PackChan /\ e \in {"NONE", "REFUSED", "FLUSH_FAILED"}
      BY <2>2 DEF PackChan
    <3>2. Forgotten(c) = [n EXCEPT !.error = e]
      BY <2>3 DEF Forgotten
    <3> HIDE DEF n, e
    <3> QED
      BY <3>1, <3>2 DEF PackChan
  <2>4. ASSUME NEW c \in PackChan, c.use # "closed" PROVE Forgotten(c) \in PackChan
    BY <2>2, <2>4, FileAssumption DEF Forgotten
  <2> QED
    BY <2>3, <2>4
<1>6. \A h \in Handles : chan'[h].use # "unused" => chan[h].use = "closed" /\ chan'[h].id = chan[h].id
  BY <1>3 DEF Forgotten, NewChannel
<1>7. /\ chan' \in [Handles -> PackChan]
      /\ \A h \in Handles : chan'[h].use # "unused" => chan'[h].id \in ChannelIds
  BY <1>3, <1>5, <1>6 DEF PackTyped
<1> QED
  BY <1>2, <1>3, <1>4, <1>7 DEF PackTyped, ReadTyped

(* The invariant: the lists are exact and everything has its type. *)
ContainersTyped == ListsInv /\ PackTyped /\ ReadTyped /\ phase \in {"write", "read"}

LEMMA TypedInductive == ContainersTyped /\ [CNext]_cvars => ContainersTyped'
<1> SUFFICES ASSUME ContainersTyped, [CNext]_cvars PROVE ContainersTyped'
  OBVIOUS
<1>1. ListsInv'
  BY ListsInductive DEF ContainersTyped
<1>2. CASE PackCall
  <2>1. PackTyped' /\ UNCHANGED <<unp, reader, got, phase>>
    BY <1>2, PackStepTyped DEF PackCall, ContainersTyped, ListsInv
  <2> QED
    BY <1>1, <2>1 DEF ContainersTyped, ReadTyped
<1>3. CASE Open
  BY <1>1, <1>3, OpenTyped DEF ContainersTyped, Open, PackerGone
<1>4. CASE ReadFile
  <2>1. UNCHANGED <<pack, chan, sent, phase>>
    BY <1>4 DEF ReadFile
  <2>2. ReadTyped' /\ file' \in Seq(Frame)
    BY <1>4, FrameStepTyped, RecordStepTyped DEF ReadFile, ReadStep, ContainersTyped, PackTyped
  <2> QED
    BY <1>1, <2>1, <2>2 DEF ContainersTyped, PackTyped
<1>5. CASE UnpackCall
  <2>1. UNCHANGED <<pack, chan, sent, phase>>
    BY <1>5 DEF UnpackCall
  <2>2. ReadTyped' /\ file' = file
    BY <1>5, CallsTyped DEF UnpackCall, ContainersTyped, ListsInv
  <2> QED
    BY <1>1, <2>1, <2>2 DEF ContainersTyped, PackTyped
<1>6. CASE UNCHANGED cvars
  BY <1>1, <1>6 DEF cvars, ContainersTyped, PackTyped, ReadTyped
<1> QED
  BY <1>2, <1>3, <1>4, <1>5, <1>6 DEF CNext

LEMMA TypedAlways == CSpec => []ContainersTyped
<1>1. CInit => ContainersTyped
  BY InitPack, InitReader, InitPackTyped, InitReadTyped DEF CInit, ContainersTyped, ListsInv
<1>2. ContainersTyped /\ [CNext]_cvars => ContainersTyped'
  BY TypedInductive
<1> QED
  BY <1>1, <1>2, PTL DEF CSpec

(***************************************************************************)
(* A write that fails is heard of: no call on a channel or on its          *)
(* container, in whichever order, leaves a broken frame in the file or a   *)
(* channel's flush newly failed behind a container that is OPENED, also    *)
(* where the code does not look at the flush's result (pack.c, lines       *)
(* 354-369 and 409).                                                       *)
(***************************************************************************)
THEOREM FailuresAreHeard == CSpec => FailureHeard
<1>1. ContainersTyped /\ [CNext]_cvars => Heard \/ (phase = "read" /\ UNCHANGED chan) \/ UNCHANGED cvars
  <2> SUFFICES ASSUME ContainersTyped, [CNext]_cvars
               PROVE  Heard \/ (phase = "read" /\ UNCHANGED chan) \/ UNCHANGED cvars
    OBVIOUS
  <2>1. CASE PackCall
    BY <2>1, PackNextHeard DEF PackCall, ContainersTyped
  <2>2. CASE Open
    BY <2>2 DEF Open, PackerGone, Heard
  <2>3. CASE ReadFile \/ UnpackCall
    BY <2>3 DEF ReadFile, UnpackCall
  <2> QED
    BY <2>1, <2>2, <2>3 DEF CNext
<1>2. ContainersTyped /\ [CNext]_cvars
        => [BrokenWrite \/ (\E h \in Handles : ~FlushFailed(chan[h]) /\ FlushFailed(chan[h])')
              => pack.state' # "OPENED"]_cvars
  BY <1>1 DEF Heard, Quiet, Unbroken, BrokenWrite, FlushFailed
<1> QED
  BY <1>2, TypedAlways, PTL DEF CSpec, FailureHeard

(***************************************************************************)
(* Both containers, the channels on both sides, the file and the histories *)
(* keep their shapes through every call and every outcome of a write,      *)
(* however many channels, rows and blocks there are.                       *)
(***************************************************************************)
THEOREM ContainersTypeCorrect == CSpec => []ContainersTypeOK
<1>1. ContainersTyped => ContainersTypeOK
  BY DEF ContainersTyped, PackTyped, ReadTyped, ContainersTypeOK
<1> QED
  BY <1>1, TypedAlways, PTL

=============================================================================

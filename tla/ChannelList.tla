----------------------------- MODULE ChannelList -----------------------------
(***************************************************************************)
(* The singly linked list of otic_pack_t, src/core/pack.c, link by link:   *)
(* channels are put in at the head, and every loop goes from the head over *)
(* the links (previous), looking for an id or for the channel to unlink.   *)
(* PackContainer has the set of linked channels in its place, and takes    *)
(* the list for that set, newest first; linked is what it says of it.      *)
(*                                                                         *)
(* A step is one turn of a loop.  What the calls do besides (flushes,      *)
(* frames, errors) leaves the list alone.                                  *)
(***************************************************************************)
EXTENDS Integers, FiniteSetsExt

CONSTANTS
  ChannelIds,    \* the ids a caller defines and closes, besides 0
  MaxHandles     \* bound: channels allocated

ASSUME ListAssumption == ChannelIds \subseteq 1 .. 255 /\ MaxHandles \in Nat

VARIABLES
  head,    \* channels
  node,    \* the channels by handle, as far as the list is concerned
  next,    \* the handle malloc returns next
  state,   \* the container's
  walk,    \* the call under way and where its loop has got to
  linked   \* history: PackContainer's set

lvars == <<head, node, next, state, walk, linked>>

Null == 0
Handles == 1 .. MaxHandles
Links == Handles \cup {Null}

Node == [use : {"unused", "live", "freed"}, id : ChannelIds \cup {0}, previous : Links]

(* at and before are the loop's pointers; key is the id or the channel it looks for; rest is the
   channel otic_pack_close goes on with. *)
Walk == [call : {"none", "define", "close", "close_id", "close_all"}, key : ChannelIds \cup Links,
         at : Links, before : Links, rest : Links]

Newest(S) == IF S = {} THEN Null ELSE Max(S)

Idle == [call |-> "none", key |-> Null, at |-> Null, before |-> Null, rest |-> Null]

ListInit ==
  /\ head = Null /\ next = 1 /\ state = "OPENED" /\ walk = Idle /\ linked = {}
  /\ node = [h \in Handles |-> [use |-> "unused", id |-> 0, previous |-> Null]]

(* A walk is defined while no freed channel is in the list, which closeChannel may leave there. *)
Begins(call, key, rest) ==
  /\ walk = Idle /\ \A h \in linked : node[h].use = "live"
  /\ walk' = [call |-> call, key |-> key, at |-> head, before |-> head, rest |-> rest]
  /\ UNCHANGED <<head, node, next, state, linked>>

At(call) == walk.call = call /\ walk.at # Null

GoesOn_Slip == walk' = [walk EXCEPT !.at = node[walk.at].previous]    \* before stays

GoesOn == walk' = [walk EXCEPT !.before = walk.at, !.at = node[walk.at].previous]

-----------------------------------------------------------------------------
(* otic_pack_defineChannel *)

DefineBegins_Slip(id) ==    \* 0 is not refused
  state = "OPENED" /\ next \in Handles /\ Begins("define", id, Null)

DefineBegins(id) ==
  state = "OPENED" /\ id # 0 /\ next \in Handles /\ Begins("define", id, Null)

DefineRefused(id) ==
  /\ walk = Idle /\ (state # "OPENED" \/ id = 0)
  /\ state' = "ON_ERROR"
  /\ UNCHANGED <<head, node, next, walk, linked>>

DefineLooks ==
  /\ At("define")
  /\ IF node[walk.at].id = walk.key THEN walk' = Idle /\ state' = "ON_ERROR"
     ELSE GoesOn /\ UNCHANGED state
  /\ UNCHANGED <<head, node, next, linked>>

PutIn_Slip(id) ==       \* the head is moved first
  /\ head' = next
  /\ node' = [node EXCEPT ![next] = [use |-> "live", id |-> id, previous |-> head']]

PutIn(id) ==
  /\ node' = [node EXCEPT ![next] = [use |-> "live", id |-> id, previous |-> head]]
  /\ head' = next

DefineEnds ==
  /\ walk.call = "define" /\ walk.at = Null
  /\ PutIn(walk.key)
  /\ linked' = linked \cup {next} /\ next' = next + 1 /\ walk' = Idle
  /\ UNCHANGED state

-----------------------------------------------------------------------------
(* otic_pack_channel_close and otic_pack_close *)

CloseBegins(h) == node[h].use = "live" /\ Begins("close", h, Null)

CloseAllBegins == head # Null /\ Begins("close_all", head, node[head].previous)

Freed(n, h) == [n EXCEPT ![h].use = "freed"]

Unlink_Slip ==         \* every channel is taken for the head
  head' = node[walk.at].previous /\ node' = Freed(node, walk.at)

Unlink ==
  IF walk.at = head THEN head' = node[walk.at].previous /\ node' = Freed(node, walk.at)
  ELSE /\ node' = Freed([node EXCEPT ![walk.before].previous = node[walk.at].previous], walk.at)
       /\ UNCHANGED head

(* Off the end of the list, 0 is returned. *)
CloseLooks ==
  /\ walk.call \in {"close", "close_all"} /\ walk.at # walk.key
  /\ IF walk.at = Null
     THEN walk' = Idle /\ state' = IF walk.call = "close_all" THEN "ON_ERROR" ELSE state
     ELSE GoesOn /\ UNCHANGED state
  /\ UNCHANGED <<head, node, next, linked>>

CloseUnlinks ==
  /\ At("close") \/ At("close_all")
  /\ walk.at = walk.key
  /\ Unlink
  /\ linked' = linked \ {walk.key}
  /\ IF walk.rest = Null THEN walk' = Idle
     ELSE walk' = [walk EXCEPT !.key = walk.rest, !.at = head', !.before = head',
                               !.rest = node[walk.rest].previous]
  /\ state' = IF walk.call = "close_all" /\ walk.rest = Null THEN "CLOSED" ELSE state
  /\ UNCHANGED next

-----------------------------------------------------------------------------
(* otic_pack_closeChannel *)

CloseIdBegins(id) == Begins("close_id", id, Null)

(***************************************************************************)
(* before is set to the channel itself ahead of the comparison: unlinking  *)
(* one that is not the head gives it the link it has, and it is freed and  *)
(* stays.  The loop goes on over the link of what it freed.                *)
(***************************************************************************)
CloseIdLooks ==
  /\ At("close_id")
  /\ IF node[walk.at].id = walk.key
     THEN /\ head' = IF walk.at = head THEN node[walk.at].previous ELSE head
          /\ node' = Freed(node, walk.at)
          /\ linked' = linked \ ({walk.at} \cap {Newest(linked)})
     ELSE UNCHANGED <<head, node, linked>>
  /\ GoesOn
  /\ UNCHANGED <<next, state>>

CloseIdEnds ==
  /\ walk.call = "close_id" /\ walk.at = Null
  /\ state' = "ON_ERROR" /\ walk' = Idle
  /\ UNCHANGED <<head, node, next, linked>>

ClearErrorFlag ==
  /\ walk = Idle /\ state' = "OPENED"
  /\ UNCHANGED <<head, node, next, walk, linked>>

-----------------------------------------------------------------------------
Turn ==
  \/ DefineLooks \/ DefineEnds
  \/ CloseLooks \/ CloseUnlinks
  \/ CloseIdLooks \/ CloseIdEnds

ListNext ==
  \/ \E id \in ChannelIds \cup {0} : DefineBegins(id) \/ DefineRefused(id)
  \/ \E h \in Handles : CloseBegins(h)
  \/ \E id \in ChannelIds : CloseIdBegins(id)
  \/ CloseAllBegins \/ ClearErrorFlag
  \/ Turn

(* A loop that has been entered is run. *)
ListSpec == ListInit /\ [][ListNext]_lvars /\ WF_lvars(Turn)

-----------------------------------------------------------------------------
(* The type invariant: what the variables hold, and that a channel has an id a caller may use. *)
ListTypeOK ==
  /\ head \in Links /\ node \in [Handles -> Node] /\ next \in 1 .. MaxHandles + 1
  /\ state \in {"OPENED", "ON_ERROR", "CLOSED"} /\ walk \in Walk /\ linked \subseteq Handles
  /\ \A h \in Handles : node[h].use # "unused" => node[h].id \in ChannelIds

(***************************************************************************)
(* Whatever calls there were, the links lead from the head through exactly *)
(* the channels of PackContainer's set, newest first: unlinking takes out  *)
(* the one channel and loses none behind it, for a head, a middle or a     *)
(* last one, and closeChannel leaves all but a head in the list            *)
(* (pack.c:844-860, 971-991).                                              *)
(***************************************************************************)
ListAsLinked ==
  /\ head = Newest(linked)
  /\ \A h \in linked : node[h].previous = Newest({g \in linked : g < h})

(***************************************************************************)
(* otic_pack_channel_close finds the channel it is given: its loop never   *)
(* runs off the end, so that its 0 (pack.c:861) is not returned and        *)
(* otic_pack_close never takes its way out at :1075.                       *)
(***************************************************************************)
CloseFinds == walk.call \in {"close", "close_all"} => walk.at # Null

(* No list ever leads round in a circle: every call that goes over it ends. *)
CallsEnd == []<>(walk = Idle)

=============================================================================

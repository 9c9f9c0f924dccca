-------------------------- MODULE Dashboard_proofs --------------------------
(***************************************************************************)
(* Proofs about the live view: the type invariant, that no dead socket     *)
(* stays registered, that no frame comes twice over one socket, and that   *)
(* no connected page misses a frame of the buffer, for any number of       *)
(* pages, messages and faults, and any length of the buffer and the list.  *)
(***************************************************************************)
EXTENDS Dashboard, TLAPS

\* A frame before all that the feed has still to broadcast.
Started(f) == f < feed.next /\ \A g \in ToSet(scheduled) : f < g

Increasing(s) == \A i, j \in DOMAIN s : i < j => s[i] < s[j]

FeedInOrder ==
    /\ feed.next <= published + 1
    /\ Increasing(scheduled)
    /\ \A g \in ToSet(scheduled) : g < feed.next
    /\ Increasing(recent)
    /\ \A f \in ToSet(recent) : Started(f)

\* A page has opened one socket, and one more for every fault.
Waits(b) == page[b].status \in {"connecting", "reconnecting"}
Counted == \A b \in Browsers : page[b].sockets <= IF Waits(b) THEN faults ELSE faults + 1

\* A socket that is not yet opened has left no trace.
Opened(c) == c[2] <= page[c[1]].sockets
Got(c, f) == [socket |-> c[2], frame |-> f] \in ToSet(page[c[1]].items)
Traces ==
    /\ \A c \in Sockets : (\E f \in Frames : Got(c, f)) => Opened(c)
    /\ \A c \in clients : Opened(c)
    /\ \A c \in Sockets : socket[c].replay # <<>> => Opened(c)
    /\ \A f \in Frames : \A c \in sending[f].todo \cup sending[f].dead : Opened(c)

\* A frame is at most at one place on its way to a socket: in the replay, in a
\* broadcast, or on the page.
OneWay(c) ==
    /\ Increasing(socket[c].replay)
    /\ \A f \in ToSet(socket[c].replay) : Started(f) /\ c \notin sending[f].todo /\ ~Got(c, f)
    /\ \A f \in Frames : c \in sending[f].todo => Started(f) /\ ~Got(c, f)
    /\ c \in clients => \A f \in Frames : Got(c, f) => Started(f)

\* What is up is registered, and no broadcast is about to unregister it.
Registered(c) == socket[c].up => c \in clients /\ \A f \in Frames : c \notin sending[f].dead

Sound == \A c \in Sockets : OneWay(c) /\ Registered(c)

IInv ==
    /\ TypeOK /\ FeedInOrder /\ Counted /\ Traces /\ Sound
    /\ OncePerSocket /\ NothingMissed /\ NoDeadSocket

----------------------------------------------------------------------------
(* Sequences. *)

LEMMA AppendFacts ==
    ASSUME NEW S, NEW s \in Seq(S), NEW e \in S
    PROVE  /\ Append(s, e) \in Seq(S)
           /\ Len(s) \in Nat
           /\ Len(Append(s, e)) = Len(s) + 1
           /\ DOMAIN s = 1 .. Len(s)
           /\ DOMAIN Append(s, e) = 1 .. (Len(s) + 1)
           /\ \A i \in 1 .. Len(s) : Append(s, e)[i] = s[i]
           /\ Append(s, e)[Len(s) + 1] = e
  OBVIOUS

LEMMA TailFacts ==
    ASSUME NEW S, NEW s \in Seq(S), s # <<>>
    PROVE  /\ Head(s) \in S
           /\ Head(s) = s[1]
           /\ Tail(s) \in Seq(S)
           /\ Len(s) \in Nat \ {0}
           /\ Len(Tail(s)) = Len(s) - 1
           /\ DOMAIN s = 1 .. Len(s)
           /\ DOMAIN Tail(s) = 1 .. (Len(s) - 1)
           /\ \A i \in 1 .. (Len(s) - 1) : Tail(s)[i] = s[i + 1]
  OBVIOUS

\* The first of an increasing sequence is before the rest.
LEMMA TailIncreases ==
    ASSUME NEW s \in Seq(Int), s # <<>>, Increasing(s)
    PROVE  /\ Increasing(Tail(s))
           /\ \A x \in ToSet(Tail(s)) : x \in ToSet(s) /\ Head(s) < x
           /\ Head(s) \in ToSet(s)
           /\ \A x \in ToSet(s) : x = Head(s) \/ x \in ToSet(Tail(s))
<1>1. PICK r \in Seq(Int) :
         /\ r = Tail(s)
         /\ Len(s) \in Nat \ {0}
         /\ DOMAIN s = 1 .. Len(s) /\ DOMAIN r = 1 .. (Len(s) - 1)
         /\ \A i \in 1 .. (Len(s) - 1) : r[i] = s[i + 1]
         /\ Head(s) = s[1]
  BY TailFacts
<1>2. Increasing(r)
  <2>1. SUFFICES ASSUME NEW i \in DOMAIN r, NEW j \in DOMAIN r, i < j PROVE r[i] < r[j]
    BY DEF Increasing
  <2>2. i + 1 \in DOMAIN s /\ j + 1 \in DOMAIN s /\ i + 1 < j + 1
    BY <1>1, <2>1
  <2>3. s[i + 1] < s[j + 1]
    BY <2>2 DEF Increasing
  <2> QED
    BY <1>1, <2>3
<1>3. ASSUME NEW x \in ToSet(r) PROVE x \in ToSet(s) /\ Head(s) < x
  <2>1. PICK i \in DOMAIN r : r[i] = x
    BY DEF ToSet
  <2>2. i + 1 \in DOMAIN s /\ 1 \in DOMAIN s /\ 1 < i + 1 /\ s[i + 1] = x
    BY <1>1, <2>1
  <2>3. s[1] < s[i + 1]
    BY <2>2 DEF Increasing
  <2> QED
    BY <1>1, <2>2, <2>3 DEF ToSet
<1>4. Head(s) \in ToSet(s)
  <2>1. 1 \in DOMAIN s
    BY <1>1
  <2> QED
    BY <1>1, <2>1 DEF ToSet
<1>5. ASSUME NEW x \in ToSet(s) PROVE x = Head(s) \/ x \in ToSet(r)
  <2>1. PICK i \in DOMAIN s : s[i] = x
    BY DEF ToSet
  <2>2. i = 1 \/ (i - 1 \in DOMAIN r /\ r[i - 1] = s[i])
    BY <1>1, <2>1
  <2> QED
    BY <1>1, <2>1, <2>2 DEF ToSet
<1> QED
  BY <1>1, <1>2, <1>3, <1>4, <1>5

LEMMA AppendIncreases ==
    ASSUME NEW s \in Seq(Int), NEW e \in Int, Increasing(s), \A x \in ToSet(s) : x < e
    PROVE  /\ Increasing(Append(s, e))
           /\ \A x \in ToSet(Append(s, e)) : x \in ToSet(s) \/ x = e
<1>1. PICK r \in Seq(Int) :
         /\ r = Append(s, e)
         /\ Len(s) \in Nat
         /\ DOMAIN s = 1 .. Len(s) /\ DOMAIN r = 1 .. (Len(s) + 1)
         /\ \A i \in 1 .. Len(s) : r[i] = s[i]
         /\ r[Len(s) + 1] = e
  <2>1. PICK r : r = Append(s, e)
    OBVIOUS
  <2>2. r \in Seq(Int) /\ Len(s) \in Nat /\ Len(r) = Len(s) + 1 /\ r[Len(s) + 1] = e
    BY <2>1
  <2>3. \A i \in 1 .. Len(s) : r[i] = s[i]
    BY <2>1
  <2>4. DOMAIN s = 1 .. Len(s) /\ DOMAIN r = 1 .. (Len(s) + 1)
    BY <2>2
  <2> QED
    BY <2>1, <2>2, <2>3, <2>4
<1>2. \A i \in DOMAIN r : (i \in DOMAIN s /\ r[i] = s[i]) \/ (i = Len(s) + 1 /\ r[i] = e)
  BY <1>1
<1>3. \A i \in DOMAIN s : s[i] < e
  BY DEF ToSet
<1>4. Increasing(r)
  <2>1. SUFFICES ASSUME NEW i \in DOMAIN r, NEW j \in DOMAIN r, i < j PROVE r[i] < r[j]
    BY DEF Increasing
  <2>2. i \in DOMAIN s /\ r[i] = s[i]
    BY <1>1, <2>1
  <2>3. CASE j \in DOMAIN s /\ r[j] = s[j]
    BY <2>1, <2>2, <2>3 DEF Increasing
  <2>4. CASE r[j] = e
    BY <1>3, <2>2, <2>4
  <2> QED
    BY <1>2, <2>3, <2>4
<1>5. \A x \in ToSet(r) : x \in ToSet(s) \/ x = e
  BY <1>2 DEF ToSet
<1> QED
  BY <1>1, <1>4, <1>5

\* What a deque keeps is a suffix.
LEMMA NewestFacts ==
    ASSUME NEW S, NEW s \in Seq(S), NEW n \in Nat \ {0}
    PROVE  /\ Newest(s, n) \in Seq(S)
           /\ Len(Newest(s, n)) <= n
           /\ \E k \in Nat : \A i \in DOMAIN Newest(s, n) :
                 i + k \in DOMAIN s /\ Newest(s, n)[i] = s[i + k]
<1>1. CASE Len(s) <= n
  <2>1. Newest(s, n) = s
    BY <1>1 DEF Newest
  <2>2. 0 \in Nat /\ \A i \in DOMAIN s : i + 0 \in DOMAIN s /\ s[i] = s[i + 0]
    OBVIOUS
  <2> QED
    BY <1>1, <2>1, <2>2
<1>2. CASE ~(Len(s) <= n)
  <2>1. PICK k \in Nat : k = Len(s) - n
    BY <1>2
  <2>2. PICK r : r = SubSeq(s, k + 1, Len(s))
    OBVIOUS
  <2>3. /\ r \in Seq(S) /\ Len(r) = n /\ DOMAIN r = 1 .. n /\ DOMAIN s = 1 .. Len(s)
        /\ Len(s) = n + k
        /\ \A i \in 1 .. n : r[i] = s[i + k]
    <3>1. Len(s) = n + k /\ k + 1 \in 1 .. Len(s) /\ Len(s) \in 1 .. Len(s)
      BY <1>2, <2>1
    <3>2. r \in Seq(S) /\ Len(r) = n
      BY <2>2, <3>1
    <3>3. ASSUME NEW i \in 1 .. n PROVE r[i] = s[i + k]
      <4>1. PICK a \in 1 .. Len(s), b \in 1 .. Len(s) : a = k + 1 /\ b = Len(s)
        BY <3>1
      <4>2. r = SubSeq(s, a, b) /\ i \in 1 .. b - a + 1
        BY <2>2, <3>1, <4>1
      <4>3. r[i] = s[a + i - 1]
        BY <4>2
      <4>4. a + i - 1 = i + k
        BY <4>1
      <4> QED
        BY <4>3, <4>4
    <3> QED
      BY <3>1, <3>2, <3>3
  <2>4. \A i \in DOMAIN r : i + k \in DOMAIN s /\ r[i] = s[i + k]
    BY <2>3
  <2>5. Newest(s, n) = r
    BY <1>2, <2>1, <2>2 DEF Newest
  <2>6. \E m \in Nat : \A i \in DOMAIN r : i + m \in DOMAIN s /\ r[i] = s[i + m]
    BY <2>4
  <2>7. \E m \in Nat : \A i \in DOMAIN Newest(s, n) :
           i + m \in DOMAIN s /\ Newest(s, n)[i] = s[i + m]
    BY Zenon, <2>5, <2>6
  <2> QED
    BY <2>3, <2>5, <2>7
<1> QED
  BY <1>1, <1>2

LEMMA NewestIncreases ==
    ASSUME NEW s \in Seq(Int), NEW n \in Nat \ {0}, Increasing(s)
    PROVE  Increasing(Newest(s, n)) /\ ToSet(Newest(s, n)) \subseteq ToSet(s)
<1>1. PICK r \in Seq(Int), k \in Nat :
         /\ r = Newest(s, n)
         /\ \A i \in DOMAIN r : i + k \in DOMAIN s /\ r[i] = s[i + k]
  BY NewestFacts
<1>2. ASSUME NEW i \in DOMAIN r, NEW j \in DOMAIN r, i < j PROVE r[i] < r[j]
  <2>1. i + k < j + k
    BY <1>1, <1>2
  <2> QED
    BY <1>1, <2>1 DEF Increasing
<1>3. ToSet(r) \subseteq ToSet(s)
  BY <1>1 DEF ToSet
<1> QED
  BY <1>1, <1>2, <1>3 DEF Increasing

----------------------------------------------------------------------------
(* Types, and what an arrival does to a page. *)

Connection == [handler : {"none", "open", "ended"}, up : BOOLEAN, replay : Seq(Frames)]
Sent == [on : BOOLEAN, todo : SUBSET Sockets, dead : SUBSET Sockets]
View == [status : {"connecting", "live", "reconnecting", "closed"},
         sockets : 0..MaxFaults + 1, items : Seq(Item)]

\* TypeOK in parts.
FeedTyped ==
    /\ published \in 0..LastFrame
    /\ feed \in [connected : BOOLEAN, next : 1..LastFrame + 1]
    /\ scheduled \in Seq(Frames)
HubTyped ==
    /\ sending \in [Frames -> Sent]
    /\ recent \in Seq(Frames) /\ Len(recent) <= Backfill
    /\ clients \subseteq Sockets
PagesTyped == page \in [Browsers -> View] /\ \A b \in Browsers : Len(page[b].items) <= MaxItems
SocketsTyped == socket \in [Sockets -> Connection] /\ faults \in 0..MaxFaults

LEMMA TypeParts == TypeOK <=> FeedTyped /\ HubTyped /\ PagesTyped /\ SocketsTyped
  BY DEF TypeOK, FeedTyped, HubTyped, PagesTyped, SocketsTyped, Connection, Sent, View

LEMMA TypePartsNext == FeedTyped' /\ HubTyped' /\ PagesTyped' /\ SocketsTyped' => TypeOK'
  BY DEF TypeOK, FeedTyped, HubTyped, PagesTyped, SocketsTyped, Connection, Sent, View

LEMMA SocketFacts ==
    ASSUME NEW c \in Sockets
    PROVE  /\ c[1] \in Browsers /\ c[2] \in 1..MaxFaults + 1 /\ c[2] \in Int
           /\ c = <<c[1], c[2]>>
  BY DashboardAssumption DEF Sockets

LEMMA FrameFacts ==
    /\ Frames \subseteq Int
    /\ \A s \in Seq(Frames) : s \in Seq(Int) /\ ToSet(s) \subseteq Frames
<1>1. Frames \subseteq Int
  BY DashboardAssumption DEF Frames
<1>2. ASSUME NEW s \in Seq(Frames) PROVE s \in Seq(Int) /\ ToSet(s) \subseteq Frames
  <2>1. ASSUME NEW i \in 1 .. Len(s) PROVE s[i] \in Int
    <3>1. s[i] \in Frames
      OBVIOUS
    <3> QED
      BY <1>1, <3>1
  <2>2. s \in Seq(Int)
    BY <2>1
  <2> QED
    BY <2>2 DEF ToSet
<1> QED
  BY <1>1, <1>2

Distinct(s) == \A i, j \in DOMAIN s : s[i] = s[j] => i = j

\* An item is put in front; the last one may have to go.
InFront(x, s, m) == SubSeq(<<x>> \o s, 1, IF Len(s) < m THEN Len(s) + 1 ELSE m)

LEMMA PutInFront ==
    ASSUME NEW s \in Seq(Item), NEW x \in Item, NEW m \in Nat \ {0}, Len(s) <= m, NEW t,
           t = InFront(x, s, m)
    PROVE  /\ t \in Seq(Item) /\ Len(t) <= m
           /\ x \in ToSet(t) /\ \A y \in ToSet(t) : y \in ToSet(s) \/ y = x
           /\ (\A y \in ToSet(s) : y \in ToSet(t)) \/ Len(t) = m
           /\ Len(s) = m => Len(t) = m
           /\ x \notin ToSet(s) /\ Distinct(s) => Distinct(t)
<1>1. PICK n \in Nat \ {0} :
         /\ n = IF Len(s) < m THEN Len(s) + 1 ELSE m
         /\ n <= m /\ n <= Len(s) + 1 /\ (n = Len(s) + 1 \/ n = m) /\ (Len(s) = m => n = m)
  OBVIOUS
<1>2. PICK u \in Seq(Item) :
         /\ u = <<x>> \o s /\ Len(u) = Len(s) + 1
         /\ u[1] = x /\ \A i \in 1 .. Len(s) : u[i + 1] = s[i]
  <2>1. PICK one : one = <<x>> /\ one \in Seq(Item) /\ Len(one) = 1 /\ one[1] = x
    <3>1. <<x>> \in Seq(Item) /\ Len(<<x>>) = 1 /\ <<x>>[1] = x
      OBVIOUS
    <3> QED
      BY <3>1
  <2>2. PICK v : v = one \o s
    OBVIOUS
  <2>3. v \in Seq(Item) /\ Len(v) = Len(s) + 1
    BY <2>1, <2>2
  <2>4. v[1] = x
    BY <2>1, <2>2
  <2>5. ASSUME NEW i \in 1 .. Len(s) PROVE v[i + 1] = s[i]
    <3>1. v[Len(one) + i] = s[i]
      BY <2>1, <2>2
    <3>2. Len(one) + i = i + 1
      BY <2>1
    <3> QED
      BY <3>1, <3>2
  <2> QED
    BY <2>1, <2>2, <2>3, <2>4, <2>5
<1>3. /\ t \in Seq(Item) /\ Len(t) = n /\ DOMAIN t = 1 .. n
      /\ \A i \in 1 .. n : t[i] = u[i]
  <2>1. t = SubSeq(u, 1, n) /\ 1 \in 1 .. Len(u) /\ n \in 1 .. Len(u)
    BY <1>1, <1>2 DEF InFront
  <2>2. t \in Seq(Item) /\ Len(t) = n
    BY <2>1
  <2>3. ASSUME NEW i \in 1 .. n PROVE t[i] = u[i]
    <3>1. t[i] = u[1 + i - 1]
      BY <2>1
    <3>2. 1 + i - 1 = i
      OBVIOUS
    <3> QED
      BY <3>1, <3>2
  <2> QED
    BY <2>2, <2>3
<1>4. t[1] = x /\ 1 \in DOMAIN t
  BY <1>1, <1>2, <1>3
<1>5. ASSUME NEW i \in DOMAIN t, i # 1
      PROVE  i - 1 \in DOMAIN s /\ t[i] = s[i - 1]
  <2>1. PICK k \in 1 .. Len(s) : i = k + 1
    <3>1. i - 1 \in 1 .. Len(s) /\ i = (i - 1) + 1
      BY <1>1, <1>3, <1>5
    <3> QED
      BY <3>1
  <2>2. t[i] = s[k] /\ i - 1 = k
    BY <1>2, <1>3, <2>1
  <2> QED
    BY <2>2
<1>6. x \in ToSet(t) /\ \A y \in ToSet(t) : y \in ToSet(s) \/ y = x
  <2>1. x \in ToSet(t)
    BY <1>4 DEF ToSet
  <2>2. ASSUME NEW i \in DOMAIN t PROVE t[i] \in ToSet(s) \/ t[i] = x
    BY <1>4, <1>5 DEF ToSet
  <2> QED
    BY <2>1, <2>2 DEF ToSet
<1>7. (\A y \in ToSet(s) : y \in ToSet(t)) \/ Len(t) = m
  <2>1. CASE n = m
    BY <1>3, <2>1
  <2>2. CASE n = Len(s) + 1
    <3>1. ASSUME NEW i \in DOMAIN s PROVE i + 1 \in DOMAIN t /\ t[i + 1] = s[i]
      BY <1>2, <1>3, <2>2
    <3> QED
      BY <3>1 DEF ToSet
  <2> QED
    BY <1>1, <2>1, <2>2
<1>8. ASSUME x \notin ToSet(s), Distinct(s) PROVE Distinct(t)
  <2>1. ASSUME NEW i \in DOMAIN t, i # 1 PROVE t[i] # x
    BY <1>5, <1>8, <2>1 DEF ToSet
  <2>2. ASSUME NEW i \in DOMAIN t, NEW j \in DOMAIN t, i # 1, j # 1, t[i] = t[j] PROVE i = j
    <3>1. i - 1 = j - 1
      BY <1>5, <1>8, <2>2 DEF Distinct
    <3> QED
      BY <1>3, <3>1
  <2> QED
    BY <1>4, <2>1, <2>2 DEF Distinct
<1> QED
  BY <1>1, <1>3, <1>6, <1>7, <1>8

\* What an arrival changes of the pages.
Arrived(c, frame) ==
    /\ PagesTyped'
    /\ \A b \in Browsers : /\ page'[b].status = page[b].status
                           /\ page'[b].sockets = page[b].sockets
                           /\ Len(page[b].items) = MaxItems => Len(page'[b].items) = MaxItems
    /\ Got(c, frame)'
    /\ \A d \in Sockets, f \in Frames : Got(d, f)' => Got(d, f) \/ (d = c /\ f = frame)
    /\ \A d \in Sockets, f \in Frames : Got(d, f) => Got(d, f)' \/ Len(page'[d[1]].items) = MaxItems
    /\ OncePerSocket /\ ~Got(c, frame) => OncePerSocket'

LEMMA DistinctPages ==
    OncePerSocket <=> \A b \in Browsers : Distinct(page[b].items)
  BY DEF OncePerSocket, Distinct

LEMMA Arrival ==
    ASSUME PagesTyped, NEW c \in Sockets, NEW frame \in Frames, Arrives(c, frame)
    PROVE  Arrived(c, frame)
<1>1. PICK b \in Browsers : b = c[1]
  BY SocketFacts
<1>2. PICK x \in Item : x = [socket |-> c[2], frame |-> frame]
  BY SocketFacts DEF Item
<1>3. PICK old \in View : old = page[b] /\ Len(old.items) <= MaxItems
  BY DEF PagesTyped
<1>4. PICK s \in Seq(Item) : s = old.items /\ Len(s) <= MaxItems
  BY <1>3 DEF View
<1>5. PICK t : t = InFront(x, s, MaxItems)
  OBVIOUS
<1>6. /\ t \in Seq(Item) /\ Len(t) <= MaxItems
      /\ x \in ToSet(t) /\ \A y \in ToSet(t) : y \in ToSet(s) \/ y = x
      /\ (\A y \in ToSet(s) : y \in ToSet(t)) \/ Len(t) = MaxItems
      /\ Len(s) = MaxItems => Len(t) = MaxItems
      /\ x \notin ToSet(s) /\ Distinct(s) => Distinct(t)
  BY <1>4, <1>5, PutInFront, DashboardAssumption
<1>7. PICK new : new = [old EXCEPT !.items = t]
  OBVIOUS
<1>8. new \in View /\ new.items = t /\ new.status = old.status /\ new.sockets = old.sockets
  BY <1>6, <1>7 DEF View
<1>9. page' = [page EXCEPT ![b] = new]
  BY <1>1, <1>2, <1>3, <1>4, <1>5, <1>7 DEF Arrives, InFront
<1>10. /\ page \in [Browsers -> View] /\ page' \in [Browsers -> View]
       /\ page'[b] = new /\ \A a \in Browsers : a # b => page'[a] = page[a]
  BY <1>8, <1>9 DEF PagesTyped
<1>11. PagesTyped'
  BY <1>6, <1>8, <1>10 DEF PagesTyped
<1>12. ASSUME NEW a \in Browsers
       PROVE  /\ page'[a].status = page[a].status /\ page'[a].sockets = page[a].sockets
              /\ Len(page[a].items) = MaxItems => Len(page'[a].items) = MaxItems
  BY <1>3, <1>4, <1>6, <1>8, <1>10
<1>13. Got(c, frame)'
  BY <1>1, <1>2, <1>6, <1>8, <1>10 DEF Got
<1>14. ASSUME NEW d \in Sockets, NEW f \in Frames
       PROVE  /\ Got(d, f)' => Got(d, f) \/ (d = c /\ f = frame)
              /\ Got(d, f) => Got(d, f)' \/ Len(page'[d[1]].items) = MaxItems
  <2>1. CASE d[1] # b
    <3>1. page'[d[1]] = page[d[1]]
      BY <1>10, <2>1, SocketFacts
    <3> QED
      BY <3>1 DEF Got
  <2>2. CASE d[1] = b
    <3>1. PICK y : y = [socket |-> d[2], frame |-> f]
      OBVIOUS
    <3>2. (Got(d, f) <=> y \in ToSet(s)) /\ (Got(d, f)' <=> y \in ToSet(t))
      BY <1>3, <1>4, <1>8, <1>10, <2>2, <3>1 DEF Got
    <3>3. y = x => d[2] = c[2] /\ f = frame
      BY <1>2, <3>1
    <3>4. d[2] = c[2] => d = c
      BY <1>1, <2>2, SocketFacts
    <3>5. page'[d[1]].items = t
      BY <1>8, <1>10, <2>2
    <3> QED
      BY <1>6, <3>2, <3>3, <3>4, <3>5
  <2> QED
    BY <2>1, <2>2
<1>15. ASSUME OncePerSocket, ~Got(c, frame) PROVE OncePerSocket'
  <2>1. x \notin ToSet(s) /\ Distinct(s)
    BY <1>1, <1>2, <1>3, <1>4, <1>15, DistinctPages DEF Got
  <2>2. ASSUME NEW a \in Browsers PROVE Distinct(page'[a].items)
    <3>1. CASE a = b
      BY <1>6, <1>8, <1>10, <2>1, <3>1
    <3>2. CASE a # b
      BY <1>10, <1>15, <3>2, DistinctPages
    <3> QED
      BY <3>1, <3>2
  <2> QED
    BY <2>2 DEF OncePerSocket, Distinct
<1> QED
  BY <1>11, <1>12, <1>13, <1>14, <1>15 DEF Arrived

----------------------------------------------------------------------------
(* The initial state, and the steps of the feed. *)

LEMMA InitIInv == Init => IInv
<1> SUFFICES ASSUME Init PROVE IInv
  OBVIOUS
<1>1. /\ published = 0 /\ feed = [connected |-> FALSE, next |-> 1] /\ scheduled = <<>>
      /\ sending = [f \in Frames |-> Idle] /\ recent = <<>> /\ clients = {} /\ faults = 0
      /\ socket = [c \in Sockets |-> NoSocket]
  BY DEF Init
<1>2. ASSUME NEW b \in Browsers
      PROVE  page[b].status = "connecting" /\ page[b].sockets = 0 /\ page[b].items = <<>>
  BY DEF Init
<1>3. FeedTyped /\ HubTyped
  BY <1>1, DashboardAssumption DEF FeedTyped, HubTyped, Sent, Idle
<1>4. SocketsTyped
  BY <1>1, DashboardAssumption DEF SocketsTyped, Connection, NoSocket
<1>5. PagesTyped
  <2>1. page = [b \in Browsers |-> [status |-> "connecting", sockets |-> 0, items |-> <<>>]]
    BY DEF Init
  <2>2. [status |-> "connecting", sockets |-> 0, items |-> <<>>] \in View
    BY DashboardAssumption DEF View
  <2>3. \A b \in Browsers : Len(page[b].items) = 0
    BY <1>2
  <2> QED
    BY <2>1, <2>2, <2>3, DashboardAssumption DEF PagesTyped
<1>6. ToSet(<<>>) = {}
  BY DEF ToSet
<1>7. \A c \in Sockets : \A f : ~Got(c, f)
  BY <1>2, <1>6, SocketFacts DEF Got
<1>8. \A c \in Sockets : socket[c].replay = <<>> /\ ~socket[c].up
  BY <1>1 DEF NoSocket
<1>9. \A f \in Frames : sending[f].todo = {} /\ sending[f].dead = {}
  BY <1>1 DEF Idle
<1>10. FeedInOrder
  BY <1>1, <1>6 DEF FeedInOrder, Increasing
<1>11. Counted /\ Traces
  BY <1>1, <1>2, <1>7, <1>8, <1>9 DEF Counted, Waits, Traces
<1>12. Sound
  BY <1>1, <1>6, <1>7, <1>8, <1>9 DEF Sound, OneWay, Registered, Increasing
<1>13. OncePerSocket /\ NothingMissed /\ NoDeadSocket
  BY <1>1, <1>2, <1>8 DEF OncePerSocket, NothingMissed, NoDeadSocket
<1> QED
  BY <1>3, <1>4, <1>5, <1>10, <1>11, <1>12, <1>13, TypeParts DEF IInv

StartedGrows == \A f \in Frames : Started(f) => Started(f)'

LEMMA FeedSteps ==
    ASSUME FeedTyped, FeedInOrder,
           Publish \/ FeedConnects \/ FeedPolls \/ FeedFails \/ UNCHANGED vars
    PROVE  /\ UNCHANGED <<sending, recent, clients, socket, page, faults>>
           /\ FeedTyped' /\ StartedGrows
           /\ feed'.next <= published' + 1 /\ Increasing(scheduled')
           /\ \A g \in ToSet(scheduled') : g < feed'.next
<1>1. UNCHANGED <<sending, recent, clients, socket, page, faults>>
  BY DEF Publish, FeedConnects, FeedPolls, FeedFails, vars, hub
<1>2. PICK n \in 1..LastFrame + 1 : n = feed.next /\ n \in Int /\ n <= published + 1
  BY DashboardAssumption DEF FeedTyped, FeedInOrder
<1>3. LastFrame \in Nat /\ published \in 0..LastFrame /\ scheduled \in Seq(Frames)
  BY DashboardAssumption DEF FeedTyped
<1>4. CASE Publish \/ FeedConnects \/ FeedFails \/ UNCHANGED vars
  <2>1. /\ scheduled' = scheduled /\ published' \in 0..LastFrame /\ published <= published'
        /\ feed' \in [connected : BOOLEAN, next : 1..LastFrame + 1]
        /\ n <= feed'.next /\ feed'.next <= published' + 1
    <3>1. CASE Publish \/ UNCHANGED vars
      BY <1>2, <1>3, <3>1 DEF Publish, vars, FeedTyped
    <3>2. CASE FeedConnects
      BY <1>2, <1>3, <3>2 DEF FeedConnects
    <3>3. CASE FeedFails
      <4>1. feed' = [feed EXCEPT !.connected = FALSE] /\ UNCHANGED <<published, scheduled>>
        BY <3>3 DEF FeedFails
      <4>2. feed'.next = n /\ feed' \in [connected : BOOLEAN, next : 1..LastFrame + 1]
        BY <1>2, <4>1 DEF FeedTyped
      <4> QED
        BY <1>2, <1>3, <4>1, <4>2
    <3> QED
      BY <1>4, <3>1, <3>2, <3>3
  <2>2. PICK m \in Int : m = feed'.next /\ n <= m
    BY <1>3, <2>1
  <2>3. \A g \in ToSet(scheduled) : g \in Int /\ g < n
    BY <1>2, <1>3, FrameFacts DEF FeedInOrder
  <2>4. \A g \in ToSet(scheduled') : g < feed'.next
    BY <2>1, <2>2, <2>3
  <2>5. StartedGrows
    BY <1>2, <2>1, <2>2, FrameFacts DEF StartedGrows, Started
  <2> QED
    BY <1>1, <1>3, <2>1, <2>4, <2>5 DEF FeedTyped, FeedInOrder
<1>5. CASE FeedPolls
  <2>1. /\ n <= published /\ published' = published
        /\ feed' = [feed EXCEPT !.next = n + 1] /\ scheduled' = Append(scheduled, n)
    BY <1>2, <1>5 DEF FeedPolls, HasRecord
  <2>2. n \in Frames
    BY <1>2, <1>3, <2>1 DEF Frames
  <2>3. feed'.next = n + 1 /\ feed' \in [connected : BOOLEAN, next : 1..LastFrame + 1]
    BY <1>2, <1>3, <2>1 DEF FeedTyped
  <2>4. scheduled' \in Seq(Frames)
    BY <1>3, <2>1, <2>2, AppendFacts
  <2>5. scheduled \in Seq(Int) /\ \A g \in ToSet(scheduled) : g \in Int /\ g < n
    BY <1>2, <1>3, FrameFacts DEF FeedInOrder
  <2>6. Increasing(scheduled') /\ \A g \in ToSet(scheduled') : g \in ToSet(scheduled) \/ g = n
    BY <1>2, <2>1, <2>5, AppendIncreases DEF FeedInOrder
  <2>7. \A g \in ToSet(scheduled') : g < n + 1
    BY <1>2, <2>5, <2>6
  <2>8. StartedGrows
    BY <1>2, <2>3, <2>6, FrameFacts DEF StartedGrows, Started
  <2> QED
    BY <1>1, <1>2, <1>3, <2>1, <2>3, <2>4, <2>6, <2>7, <2>8 DEF FeedTyped
<1> QED
  BY <1>4, <1>5

LEMMA FeedKeepsIInv ==
    ASSUME IInv, Publish \/ FeedConnects \/ FeedPolls \/ FeedFails \/ UNCHANGED vars
    PROVE  IInv'
<1>1. /\ FeedTyped /\ HubTyped /\ PagesTyped /\ SocketsTyped /\ FeedInOrder /\ Counted
      /\ Traces /\ Sound /\ OncePerSocket /\ NothingMissed /\ NoDeadSocket
  BY TypeParts DEF IInv
<1>2. /\ UNCHANGED <<sending, recent, clients, socket, page, faults>>
      /\ FeedTyped' /\ StartedGrows
      /\ feed'.next <= published' + 1 /\ Increasing(scheduled')
      /\ \A g \in ToSet(scheduled') : g < feed'.next
  BY <1>1, FeedSteps
<1>3. HubTyped' /\ PagesTyped' /\ SocketsTyped'
  BY <1>1, <1>2 DEF HubTyped, PagesTyped, SocketsTyped
<1>4. ToSet(recent) \subseteq Frames
  BY <1>1, FrameFacts DEF HubTyped
<1>5. FeedInOrder'
  BY <1>1, <1>2, <1>4 DEF FeedInOrder, StartedGrows
<1>6. Counted' /\ Traces'
  BY <1>1, <1>2 DEF Counted, Waits, Traces, Opened, Got
<1>7. ASSUME NEW c \in Sockets PROVE OneWay(c)' /\ Registered(c)'
  <2>1. ToSet(socket[c].replay) \subseteq Frames
    BY <1>1, FrameFacts DEF SocketsTyped, Connection
  <2>2. \A f : Got(c, f)' <=> Got(c, f)
    BY <1>2 DEF Got
  <2>3. OneWay(c) /\ Registered(c)
    BY <1>1 DEF Sound
  <2>4. OneWay(c)'
    BY <1>2, <2>1, <2>2, <2>3 DEF OneWay, StartedGrows
  <2>5. Registered(c)'
    BY <1>2, <2>3 DEF Registered
  <2> QED
    BY <2>4, <2>5
<1>8. OncePerSocket' /\ NothingMissed' /\ NoDeadSocket'
  BY <1>1, <1>2 DEF OncePerSocket, NothingMissed, NoDeadSocket
<1>9. TypeOK'
  BY <1>2, <1>3, TypePartsNext
<1> QED
  BY <1>5, <1>6, <1>7, <1>8, <1>9 DEF IInv, Sound

----------------------------------------------------------------------------
(* The steps of the hub. *)

\* IInv in parts, with the sets the frames come from.
LEMMA Parts ==
    ASSUME IInv
    PROVE  /\ FeedTyped /\ HubTyped /\ PagesTyped /\ SocketsTyped /\ FeedInOrder /\ Counted
           /\ Traces /\ Sound /\ OncePerSocket /\ NothingMissed /\ NoDeadSocket
           /\ ToSet(recent) \subseteq Frames
           /\ \A c \in Sockets : ToSet(socket[c].replay) \subseteq Frames
<1>1. /\ FeedTyped /\ HubTyped /\ PagesTyped /\ SocketsTyped /\ FeedInOrder /\ Counted
      /\ Traces /\ Sound /\ OncePerSocket /\ NothingMissed /\ NoDeadSocket
  BY TypeParts DEF IInv
<1>2. ToSet(recent) \subseteq Frames
  BY <1>1, FrameFacts DEF HubTyped
<1>3. \A c \in Sockets : ToSet(socket[c].replay) \subseteq Frames
  BY <1>1, FrameFacts DEF SocketsTyped, Connection
<1> QED
  BY <1>1, <1>2, <1>3

LEMMA BroadcastKeepsIInv ==
    ASSUME IInv, NEW frame \in Frames, Broadcast(frame)
    PROVE  IInv'
<1>1. /\ FeedTyped /\ HubTyped /\ PagesTyped /\ SocketsTyped /\ FeedInOrder /\ Counted
      /\ Traces /\ Sound /\ OncePerSocket /\ NothingMissed /\ NoDeadSocket
      /\ ToSet(recent) \subseteq Frames
      /\ \A c \in Sockets : ToSet(socket[c].replay) \subseteq Frames
  BY Parts
<1>2. /\ UNCHANGED <<published, feed, clients, socket, page, faults>>
      /\ scheduled # <<>> /\ Head(scheduled) = frame /\ scheduled' = Tail(scheduled)
      /\ recent' = Newest(Append(recent, frame), Backfill)
  BY DEF Broadcast
<1>3. PICK n : n = [on |-> TRUE, todo |-> clients, dead |-> {}]
  OBVIOUS
<1>4. /\ sending' = [sending EXCEPT ![frame] = n]
      /\ n \in Sent /\ n.todo = clients /\ n.dead = {}
  BY <1>1, <1>3 DEF Broadcast, HubTyped, Sent
<1>5. /\ sending' \in [Frames -> Sent] /\ sending'[frame] = n
      /\ \A f \in Frames : f # frame => sending'[f] = sending[f]
  BY <1>1, <1>4 DEF HubTyped
<1>6. /\ scheduled \in Seq(Int) /\ scheduled' \in Seq(Frames) /\ recent \in Seq(Frames)
      /\ recent \in Seq(Int) /\ frame \in Int
  BY <1>1, <1>2, FrameFacts, TailFacts DEF FeedTyped, HubTyped
<1>7. /\ Increasing(scheduled')
      /\ \A g \in ToSet(scheduled') : g \in ToSet(scheduled) /\ frame < g
      /\ frame \in ToSet(scheduled)
  BY <1>1, <1>2, <1>6, TailIncreases DEF FeedInOrder
<1>8. ASSUME NEW f \in Frames, Started(f) PROVE Started(f)' /\ f < frame /\ f # frame
  BY <1>2, <1>6, <1>7, <1>8, FrameFacts DEF Started
<1>9. Started(frame)'
  BY <1>1, <1>2, <1>7 DEF Started, FeedInOrder
<1>10. /\ recent' \in Seq(Frames) /\ Len(recent') <= Backfill
       /\ Increasing(recent')
       /\ \A f \in ToSet(recent') : f \in ToSet(recent) \/ f = frame
  <2>1. PICK u \in Seq(Frames) : u = Append(recent, frame)
    BY <1>6, AppendFacts
  <2>2. \A f \in ToSet(recent) : f < frame
    BY <1>1, <1>8 DEF FeedInOrder
  <2>3. /\ u \in Seq(Int) /\ Increasing(u)
        /\ \A f \in ToSet(u) : f \in ToSet(recent) \/ f = frame
    BY <1>1, <1>6, <2>1, <2>2, AppendIncreases, FrameFacts DEF FeedInOrder
  <2>4. recent' = Newest(u, Backfill) /\ Backfill \in Nat \ {0}
    BY <1>2, <2>1, DashboardAssumption
  <2>5. recent' \in Seq(Frames) /\ Len(recent') <= Backfill
    BY <2>1, <2>4, NewestFacts
  <2>6. Increasing(recent') /\ ToSet(recent') \subseteq ToSet(u)
    BY <2>3, <2>4, NewestIncreases
  <2> QED
    BY <2>3, <2>5, <2>6
<1>11. TypeOK'
  <2>1. FeedTyped' /\ HubTyped' /\ PagesTyped' /\ SocketsTyped'
    BY <1>1, <1>2, <1>5, <1>6, <1>10 DEF FeedTyped, HubTyped, PagesTyped, SocketsTyped
  <2> QED
    BY <2>1, TypePartsNext
<1>12. FeedInOrder'
  <2>1. \A g \in ToSet(scheduled') : g < feed'.next
    BY <1>1, <1>2, <1>7 DEF FeedInOrder
  <2>2. \A f \in ToSet(recent') : Started(f)'
    BY <1>1, <1>8, <1>9, <1>10 DEF FeedInOrder
  <2> QED
    BY <1>1, <1>2, <1>7, <1>10, <2>1, <2>2 DEF FeedInOrder
<1>13. \A c \in Sockets : \A f : Got(c, f)' <=> Got(c, f)
  BY <1>2 DEF Got
<1>14. Counted' /\ Traces'
  <2>1. Counted'
    BY <1>1, <1>2 DEF Counted, Waits
  <2>2. \A c \in Sockets : Opened(c)' <=> Opened(c)
    BY <1>2 DEF Opened
  <2>3. ASSUME NEW f \in Frames, NEW c \in sending'[f].todo \cup sending'[f].dead
        PROVE  Opened(c)'
    BY <1>1, <1>2, <1>4, <1>5, <2>3 DEF Traces, Opened
  <2> QED
    BY <1>1, <1>2, <1>13, <2>1, <2>2, <2>3 DEF Traces, HubTyped
<1>15. ASSUME NEW c \in Sockets PROVE OneWay(c)' /\ Registered(c)'
  <2>1. OneWay(c) /\ Registered(c)
    BY <1>1 DEF Sound
  <2>2. ASSUME NEW f \in ToSet(socket[c].replay)
        PROVE  Started(f)' /\ c \notin sending'[f].todo /\ ~Got(c, f)'
    <3>1. f \in Frames /\ Started(f) /\ c \notin sending[f].todo /\ ~Got(c, f)
      BY <1>1, <2>1 DEF OneWay
    <3> QED
      BY <1>5, <1>8, <1>13, <3>1
  <2>3. ASSUME NEW f \in Frames, c \in sending'[f].todo
        PROVE  Started(f)' /\ ~Got(c, f)'
    <3>1. CASE f = frame
      <4>1. c \in clients
        BY <1>4, <1>5, <2>3, <3>1
      <4>2. ~Got(c, frame)
        BY <1>8, <2>1, <4>1 DEF OneWay
      <4> QED
        BY <1>9, <1>13, <3>1, <4>2
    <3>2. CASE f # frame
      BY <1>5, <1>8, <1>13, <2>1, <2>3, <3>2 DEF OneWay
    <3> QED
      BY <3>1, <3>2
  <2>4. c \in clients' => \A f \in Frames : Got(c, f)' => Started(f)'
    BY <1>2, <1>8, <1>13, <2>1 DEF OneWay
  <2>5. OneWay(c)'
    BY <1>2, <2>1, <2>2, <2>3, <2>4 DEF OneWay
  <2>6. Registered(c)'
    BY <1>2, <1>4, <1>5, <2>1 DEF Registered
  <2> QED
    BY <2>5, <2>6
<1>16. NothingMissed'
  <2>1. SUFFICES ASSUME NEW c \in Sockets, socket[c].up, NEW f \in ToSet(recent')
                 PROVE  \/ f \in ToSet(socket[c].replay)
                        \/ c \in sending'[f].todo
                        \/ Got(c, f)
                        \/ Len(page[c[1]].items) = MaxItems
    BY <1>2 DEF NothingMissed, Got
  <2>2. CASE f = frame
    BY <1>1, <1>4, <1>5, <2>1, <2>2 DEF Sound, Registered
  <2>3. CASE f # frame
    BY <1>1, <1>5, <1>10, <2>1, <2>3 DEF NothingMissed, Got
  <2> QED
    BY <2>2, <2>3
<1>17. OncePerSocket' /\ NoDeadSocket'
  BY <1>1, <1>2 DEF OncePerSocket, NoDeadSocket
<1> QED
  BY <1>11, <1>12, <1>14, <1>15, <1>16, <1>17 DEF IInv, Sound

LEMMA FinishKeepsIInv ==
    ASSUME IInv, NEW frame \in Frames, Finish(frame)
    PROVE  IInv'
<1>1. /\ FeedTyped /\ HubTyped /\ PagesTyped /\ SocketsTyped /\ FeedInOrder /\ Counted
      /\ Traces /\ Sound /\ OncePerSocket /\ NothingMissed /\ NoDeadSocket
  BY Parts
<1>2. /\ UNCHANGED <<published, feed, scheduled, recent, socket, page, faults>>
      /\ sending[frame].todo = {} /\ clients' = clients \ sending[frame].dead
      /\ sending' = [sending EXCEPT ![frame] = Idle]
  BY DEF Finish
<1>3. Idle \in Sent /\ Idle.todo = {} /\ Idle.dead = {}
  BY DEF Idle, Sent
<1>4. /\ sending' \in [Frames -> Sent] /\ sending'[frame] = Idle
      /\ \A f \in Frames : f # frame => sending'[f] = sending[f]
  BY <1>1, <1>2, <1>3 DEF HubTyped
<1>5. ASSUME NEW f \in Frames
      PROVE  sending'[f].todo = sending[f].todo /\ sending'[f].dead \subseteq sending[f].dead
  BY <1>2, <1>3, <1>4
<1>6. TypeOK'
  <2>1. FeedTyped' /\ HubTyped' /\ PagesTyped' /\ SocketsTyped'
    BY <1>1, <1>2, <1>4 DEF FeedTyped, HubTyped, PagesTyped, SocketsTyped
  <2> QED
    BY <2>1, TypePartsNext
<1>7. \A f : Started(f)' <=> Started(f)
  BY <1>2 DEF Started
<1>8. \A c \in Sockets : \A f : Got(c, f)' <=> Got(c, f)
  BY <1>2 DEF Got
<1>9. FeedInOrder'
  BY <1>1, <1>2, <1>7 DEF FeedInOrder
<1>10. Counted'
  BY <1>1, <1>2 DEF Counted, Waits
<1>11. Traces'
  BY <1>1, <1>2, <1>5, <1>8 DEF Traces, Opened
<1>12. ASSUME NEW c \in Sockets PROVE OneWay(c)' /\ Registered(c)'
  <2>1. OneWay(c) /\ Registered(c)
    BY <1>1 DEF Sound
  <2>2. \A f \in ToSet(socket[c].replay) : f \in Frames
    BY Parts
  <2>3. OneWay(c)'
    BY <1>2, <1>5, <1>7, <1>8, <2>1, <2>2 DEF OneWay
  <2>4. Registered(c)'
    BY <1>2, <1>5, <2>1 DEF Registered
  <2> QED
    BY <2>3, <2>4
<1>13. NothingMissed'
  <2>1. \A f \in ToSet(recent) : f \in Frames
    BY Parts
  <2> QED
    BY <1>1, <1>2, <1>5, <2>1 DEF NothingMissed
<1>14. OncePerSocket' /\ NoDeadSocket'
  BY <1>1, <1>2 DEF OncePerSocket, NoDeadSocket
<1> QED
  BY <1>6, <1>9, <1>10, <1>11, <1>12, <1>13, <1>14 DEF IInv, Sound

\* A frame that is sent is on the page, unless the connection is gone.
Delivered(c, frame) ==
    /\ PagesTyped' /\ OncePerSocket'
    /\ \A b \in Browsers : /\ page'[b].status = page[b].status
                           /\ page'[b].sockets = page[b].sockets
                           /\ Len(page[b].items) = MaxItems => Len(page'[b].items) = MaxItems
    /\ socket[c].up => Got(c, frame)'
    /\ \A d \in Sockets, f \in Frames : Got(d, f)' => Got(d, f) \/ (d = c /\ f = frame)
    /\ \A d \in Sockets, f \in Frames : Got(d, f) => Got(d, f)' \/ Len(page'[d[1]].items) = MaxItems

LEMMA Delivery ==
    ASSUME PagesTyped, OncePerSocket, NEW c \in Sockets, NEW frame \in Frames, ~Got(c, frame),
           SendSucceeds(c, frame) \/ SendRaises(c)
    PROVE  Delivered(c, frame)
<1>1. CASE socket[c].up
  <2>1. Arrives(c, frame)
    BY <1>1 DEF SendSucceeds, SendRaises
  <2>2. Arrived(c, frame)
    BY <2>1, Arrival
  <2> QED
    BY <2>2 DEF Arrived, Delivered
<1>2. CASE ~socket[c].up
  <2>1. page' = page
    BY <1>2 DEF SendSucceeds, SendRaises
  <2>2. PagesTyped' /\ OncePerSocket' /\ \A d \in Sockets, f \in Frames : Got(d, f)' <=> Got(d, f)
    BY <2>1 DEF PagesTyped, OncePerSocket, Got
  <2> QED
    BY <1>2, <2>1, <2>2 DEF Delivered
<1> QED
  BY <1>1, <1>2

LEMMA SendKeepsIInv ==
    ASSUME IInv, NEW frame \in Frames, NEW c \in Sockets, Send(frame, c)
    PROVE  IInv'
<1>1. /\ FeedTyped /\ HubTyped /\ PagesTyped /\ SocketsTyped /\ FeedInOrder /\ Counted
      /\ Traces /\ Sound /\ OncePerSocket /\ NothingMissed /\ NoDeadSocket
  BY Parts
<1>2. /\ UNCHANGED <<published, feed, scheduled, recent, clients, socket, faults>>
      /\ c \in sending[frame].todo
      /\ SendSucceeds(c, frame) \/ SendRaises(c)
  BY DEF Send
<1>3. Started(frame) /\ ~Got(c, frame)
  BY <1>1, <1>2 DEF Sound, OneWay
<1>4. Delivered(c, frame)
  BY <1>1, <1>2, <1>3, Delivery
<1>5. PICK old \in Sent : old = sending[frame]
  BY <1>1 DEF HubTyped
<1>6. PICK new \in Sent :
         /\ sending' = [sending EXCEPT ![frame] = new]
         /\ new.todo = old.todo \ {c}
         /\ new.dead = old.dead \/ (new.dead = old.dead \cup {c} /\ ~socket[c].up)
  <2>1. PICK todo \in SUBSET Sockets, dead \in SUBSET Sockets :
           /\ todo = old.todo \ {c}
           /\ dead = old.dead \cup {c}
    BY DEF Sent
  <2>2. CASE sending' = [sending EXCEPT ![frame].todo = @ \ {c}]
    <3>1. PICK n : n = [old EXCEPT !.todo = todo]
      OBVIOUS
    <3>2. n \in Sent /\ n.todo = todo /\ n.dead = old.dead
      BY <3>1 DEF Sent
    <3>3. sending' = [sending EXCEPT ![frame] = n]
      BY <1>5, <2>1, <2>2, <3>1
    <3> QED
      BY <2>1, <3>2, <3>3
  <2>3. CASE /\ sending' = [sending EXCEPT ![frame].todo = @ \ {c}, ![frame].dead = @ \cup {c}]
             /\ SendRaises(c)
    <3>1. PICK n : n = [old EXCEPT !.todo = todo, !.dead = dead]
      OBVIOUS
    <3>2. n \in Sent /\ n.todo = todo /\ n.dead = dead
      BY <3>1 DEF Sent
    <3>3. sending' = [sending EXCEPT ![frame] = n]
      BY <1>1, <1>5, <2>1, <2>3, <3>1 DEF HubTyped
    <3> QED
      BY <2>1, <2>3, <3>2, <3>3 DEF SendRaises
  <2> QED
    BY <2>2, <2>3 DEF Send
<1>7. /\ sending' \in [Frames -> Sent] /\ sending'[frame] = new
      /\ \A f \in Frames : f # frame => sending'[f] = sending[f]
  BY <1>1, <1>6 DEF HubTyped
<1>8. ASSUME NEW f \in Frames, NEW d
      PROVE  /\ d \in sending'[f].todo <=> d \in sending[f].todo /\ ~(d = c /\ f = frame)
             /\ d \in sending[f].dead => d \in sending'[f].dead
             /\ d \in sending'[f].dead => d \in sending[f].dead \/ (d = c /\ f = frame /\ ~socket[c].up)
  BY <1>5, <1>6, <1>7
<1>9. TypeOK'
  <2>1. FeedTyped' /\ HubTyped' /\ PagesTyped' /\ SocketsTyped'
    BY <1>1, <1>2, <1>4, <1>7 DEF FeedTyped, HubTyped, SocketsTyped, Delivered
  <2> QED
    BY <2>1, TypePartsNext
<1>10. \A f : Started(f)' <=> Started(f)
  BY <1>2 DEF Started
<1>11. FeedInOrder'
  BY <1>1, <1>2, <1>10 DEF FeedInOrder
<1>12. Counted'
  BY <1>1, <1>2, <1>4 DEF Counted, Waits, Delivered
<1>13. Traces'
  <2>1. \A d \in Sockets : Opened(d)' <=> Opened(d)
    BY <1>4, SocketFacts DEF Opened, Delivered
  <2>2. Opened(c)
    BY <1>1, <1>2 DEF Traces
  <2>3. \A d \in Sockets : (\E f \in Frames : Got(d, f)') => Opened(d)
    BY <1>1, <1>4, <2>2 DEF Traces, Delivered
  <2>4. \A d \in clients : d \in Sockets /\ Opened(d)
    BY <1>1 DEF Traces, HubTyped
  <2>5. ASSUME NEW f \in Frames, NEW d \in sending'[f].todo \cup sending'[f].dead
        PROVE  d \in Sockets /\ Opened(d)
    <3>1. sending'[f] \in Sent
      BY <1>7
    <3> QED
      BY <1>1, <1>8, <2>2, <2>5, <3>1 DEF Traces, Sent
  <2>6. \A d \in Sockets : socket[d].replay # <<>> => Opened(d)
    BY <1>1 DEF Traces
  <2> QED
    BY <1>2, <2>1, <2>3, <2>4, <2>5, <2>6 DEF Traces
<1>14. ASSUME NEW d \in Sockets PROVE OneWay(d)' /\ Registered(d)'
  <2>1. OneWay(d) /\ Registered(d)
    BY <1>1 DEF Sound
  <2>2. ASSUME NEW f \in ToSet(socket[d].replay)
        PROVE  Started(f)' /\ d \notin sending'[f].todo /\ ~Got(d, f)'
    <3>1. f \in Frames /\ Started(f) /\ d \notin sending[f].todo /\ ~Got(d, f)
      BY <2>1, Parts DEF OneWay
    <3>2. ~(d = c /\ f = frame)
      BY <1>2, <3>1
    <3> QED
      BY <1>4, <1>8, <1>10, <3>1, <3>2 DEF Delivered
  <2>3. ASSUME NEW f \in Frames, d \in sending'[f].todo
        PROVE  Started(f)' /\ ~Got(d, f)'
    <3>1. d \in sending[f].todo /\ ~(d = c /\ f = frame)
      BY <1>8, <2>3
    <3> QED
      BY <1>4, <1>10, <2>1, <3>1 DEF OneWay, Delivered
  <2>4. ASSUME d \in clients, NEW f \in Frames, Got(d, f)' PROVE Started(f)'
    BY <1>3, <1>4, <1>10, <2>1, <2>4 DEF OneWay, Delivered
  <2>5. OneWay(d)'
    BY <1>2, <2>1, <2>2, <2>3, <2>4 DEF OneWay
  <2>6. Registered(d)'
    BY <1>2, <1>8, <2>1 DEF Registered
  <2> QED
    BY <2>5, <2>6
<1>15. NothingMissed'
  <2>1. SUFFICES ASSUME NEW d \in Sockets, socket[d].up, NEW f \in ToSet(recent)
                 PROVE  \/ f \in ToSet(socket[d].replay)
                        \/ d \in sending'[f].todo
                        \/ Got(d, f)'
                        \/ Len(page'[d[1]].items) = MaxItems
    BY <1>2 DEF NothingMissed, Got
  <2>2. f \in Frames /\ d[1] \in Browsers
    BY Parts, SocketFacts
  <2>3. \/ f \in ToSet(socket[d].replay) \/ d \in sending[f].todo \/ Got(d, f)
        \/ Len(page[d[1]].items) = MaxItems
    BY <1>1, <2>1 DEF NothingMissed, Got
  <2>4. CASE d \in sending[f].todo
    BY <1>4, <1>8, <2>1, <2>2, <2>4 DEF Delivered
  <2> QED
    BY <1>4, <2>2, <2>3, <2>4 DEF Delivered
<1>16. NoDeadSocket'
  BY <1>1, <1>2 DEF NoDeadSocket
<1> QED
  BY <1>4, <1>9, <1>11, <1>12, <1>13, <1>14, <1>15, <1>16 DEF IInv, Sound, Delivered

\* A socket that connects is new: nothing is on its way to it but the replay.
LEMMA ConnectKeepsIInv ==
    ASSUME IInv, NEW b \in Browsers, Connect(b)
    PROVE  IInv'
<1>1. /\ FeedTyped /\ HubTyped /\ PagesTyped /\ SocketsTyped /\ FeedInOrder /\ Counted
      /\ Traces /\ Sound /\ OncePerSocket /\ NothingMissed /\ NoDeadSocket
      /\ ToSet(recent) \subseteq Frames
  BY Parts
<1>2. PICK old \in View : old = page[b] /\ old.sockets \in 0..MaxFaults + 1
  BY <1>1 DEF PagesTyped, View
<1>3. PICK n \in 1..MaxFaults + 1 : n = old.sockets + 1 /\ n <= faults + 1
  <2>1. Waits(b)
    BY DEF Connect, Waits
  <2>2. old.sockets <= faults
    BY <1>1, <1>2, <2>1 DEF Counted
  <2>3. faults \in 0..MaxFaults
    BY <1>1 DEF SocketsTyped
  <2> QED
    BY <1>2, <2>2, <2>3, DashboardAssumption
<1>4. PICK c \in Sockets : c = <<b, n>> /\ c[1] = b /\ c[2] = n
  <2>1. <<b, n>> \in Sockets /\ <<b, n>>[1] = b /\ <<b, n>>[2] = n
    BY DEF Sockets
  <2> QED
    BY <2>1
<1>5. PICK k : k = [handler |-> "open", up |-> TRUE, replay |-> recent]
  OBVIOUS
<1>6. k \in Connection /\ k.handler = "open" /\ k.up /\ k.replay = recent
  BY <1>1, <1>5 DEF Connection, HubTyped
<1>7. PICK new : new = [old EXCEPT !.status = "live", !.sockets = n]
  OBVIOUS
<1>8. /\ new \in View /\ new.status = "live" /\ new.sockets = n /\ new.items = old.items
  <2>1. n \in 0..MaxFaults + 1
    BY <1>3, DashboardAssumption
  <2> QED
    BY <1>7, <2>1 DEF View
<1>9. /\ UNCHANGED <<published, feed, scheduled, sending, recent, faults>>
      /\ socket' = [socket EXCEPT ![c] = k]
      /\ clients' = clients \cup {c}
  BY <1>2, <1>3, <1>4, <1>5 DEF Connect
<1>10. page' = [page EXCEPT ![b] = new]
  <2>1. page' = [page EXCEPT ![b].status = "live", ![b].sockets = @ + 1]
    BY DEF Connect
  <2> QED
    BY <1>1, <1>2, <1>3, <1>7, <2>1 DEF PagesTyped
<1>11. /\ page' \in [Browsers -> View] /\ page'[b] = new
       /\ \A a \in Browsers : a # b => page'[a] = page[a]
  BY <1>1, <1>8, <1>10 DEF PagesTyped
<1>12. /\ socket' \in [Sockets -> Connection] /\ socket'[c] = k
       /\ \A d \in Sockets : d # c => socket'[d] = socket[d]
  BY <1>1, <1>6, <1>9 DEF SocketsTyped
<1>13. \A a \in Browsers : page'[a].items = page[a].items
  BY <1>2, <1>8, <1>11
<1>14. TypeOK'
  <2>1. PagesTyped'
    BY <1>1, <1>11, <1>13 DEF PagesTyped
  <2>2. FeedTyped' /\ HubTyped' /\ SocketsTyped'
    BY <1>1, <1>9, <1>12 DEF FeedTyped, HubTyped, SocketsTyped
  <2> QED
    BY <2>1, <2>2, TypePartsNext
<1>15. ~Opened(c)
  BY <1>2, <1>3, <1>4 DEF Opened
<1>16. /\ c \notin clients
       /\ \A f \in Frames : /\ c \notin sending[f].todo /\ c \notin sending[f].dead
                            /\ ~Got(c, f)
  BY <1>1, <1>15 DEF Traces
<1>17. ASSUME NEW d \in Sockets PROVE Opened(d) => Opened(d)'
  <2>1. CASE d[1] = b
    <3>1. d[2] \in Int /\ page[d[1]].sockets = old.sockets /\ page'[d[1]].sockets = n
      BY <1>2, <1>8, <1>11, <2>1, SocketFacts
    <3> QED
      BY <1>2, <1>3, <3>1 DEF Opened
  <2>2. CASE d[1] # b
    BY <1>11, <2>2, SocketFacts DEF Opened
  <2> QED
    BY <2>1, <2>2
<1>18. Opened(c)'
  BY <1>4, <1>8, <1>11 DEF Opened
<1>19. \A d \in Sockets : \A f : Got(d, f)' <=> Got(d, f)
  BY <1>13, SocketFacts DEF Got
<1>20. \A f : Started(f)' <=> Started(f)
  BY <1>9 DEF Started
<1>21. FeedInOrder'
  BY <1>1, <1>9, <1>20 DEF FeedInOrder
<1>22. Counted'
  <2>1. ASSUME NEW a \in Browsers
        PROVE  page'[a].sockets <= IF Waits(a)' THEN faults ELSE faults + 1
    <3>1. CASE a = b
      <4>1. ~Waits(b)'
        BY <1>8, <1>11 DEF Waits
      <4> QED
        BY <1>3, <1>8, <1>11, <3>1, <4>1
    <3>2. CASE a # b
      BY <1>1, <1>11, <3>2 DEF Counted, Waits
    <3> QED
      BY <3>1, <3>2
  <2> QED
    BY <1>9, <2>1 DEF Counted
<1>23. Traces'
  <2>1. \A d \in Sockets : (\E f \in Frames : Got(d, f)') => Opened(d)'
    BY <1>1, <1>17, <1>19 DEF Traces
  <2>2. \A d \in clients' : Opened(d)'
    BY <1>1, <1>9, <1>17, <1>18 DEF Traces, HubTyped
  <2>3. ASSUME NEW f \in Frames, NEW d \in sending[f].todo \cup sending[f].dead
        PROVE  Opened(d)'
    BY <1>1, <1>17, <2>3 DEF Traces, HubTyped, Sent
  <2>4. \A d \in Sockets : socket'[d].replay # <<>> => Opened(d)'
    BY <1>1, <1>12, <1>17, <1>18 DEF Traces
  <2> QED
    BY <1>9, <2>1, <2>2, <2>3, <2>4 DEF Traces
<1>24. ASSUME NEW d \in Sockets PROVE OneWay(d)' /\ Registered(d)'
  <2>1. OneWay(d) /\ Registered(d)
    BY <1>1 DEF Sound
  <2>2. CASE d # c
    <3>1. socket'[d] = socket[d] /\ (d \in clients' => d \in clients) /\ (d \in clients => d \in clients')
      BY <1>9, <1>12, <2>2
    <3>2. ToSet(socket[d].replay) \subseteq Frames
      BY Parts
    <3>3. OneWay(d)'
      BY <1>9, <1>19, <1>20, <2>1, <3>1, <3>2 DEF OneWay
    <3>4. Registered(d)'
      BY <1>9, <2>1, <3>1 DEF Registered
    <3> QED
      BY <3>3, <3>4
  <2>3. CASE d = c
    <3>1. socket'[c].replay = recent /\ c \in clients'
      BY <1>6, <1>9, <1>12
    <3>2. Increasing(recent) /\ \A f \in ToSet(recent) : f \in Frames /\ Started(f)
      BY <1>1 DEF FeedInOrder
    <3>3. OneWay(c)'
      BY <1>9, <1>16, <1>19, <1>20, <3>1, <3>2 DEF OneWay
    <3>4. Registered(c)'
      BY <1>9, <1>16, <3>1 DEF Registered
    <3> QED
      BY <2>3, <3>3, <3>4
  <2> QED
    BY <2>2, <2>3
<1>25. NothingMissed'
  <2>1. SUFFICES ASSUME NEW d \in Sockets, socket'[d].up, NEW f \in ToSet(recent)
                 PROVE  \/ f \in ToSet(socket'[d].replay)
                        \/ d \in sending[f].todo
                        \/ Got(d, f)
                        \/ Len(page[d[1]].items) = MaxItems
    BY <1>9, <1>13, SocketFacts DEF NothingMissed, Got
  <2>2. CASE d = c
    BY <1>6, <1>12, <2>1, <2>2
  <2>3. CASE d # c
    BY <1>1, <1>12, <2>1, <2>3 DEF NothingMissed, Got
  <2> QED
    BY <2>2, <2>3
<1>26. OncePerSocket'
  BY <1>1, <1>13 DEF OncePerSocket
<1>27. NoDeadSocket'
  BY <1>1, <1>6, <1>9, <1>12 DEF NoDeadSocket, HubTyped
<1> QED
  BY <1>14, <1>21, <1>22, <1>23, <1>24, <1>25, <1>26, <1>27 DEF IInv, Sound

\* Steps that only take something away: a connection, or a registration.
LEMMA LossKeepsIInv ==
    ASSUME IInv, TypeOK',
           UNCHANGED <<published, feed, scheduled, sending, recent>>,
           clients' \subseteq clients,
           \A c \in Sockets : /\ socket'[c].replay = socket[c].replay
                              /\ socket'[c].up => socket[c].up /\ c \in clients'
                              /\ c \in clients' => socket'[c].handler = socket[c].handler,
           \A b \in Browsers : /\ page'[b].items = page[b].items
                               /\ page'[b].sockets = page[b].sockets,
           Counted'
    PROVE  IInv'
<1>1. /\ FeedTyped /\ HubTyped /\ PagesTyped /\ SocketsTyped /\ FeedInOrder
      /\ Traces /\ Sound /\ OncePerSocket /\ NothingMissed /\ NoDeadSocket
  BY Parts
<1>2. \A f : Started(f)' <=> Started(f)
  BY DEF Started
<1>3. \A d \in Sockets : \A f : Got(d, f)' <=> Got(d, f)
  BY SocketFacts DEF Got
<1>4. \A d \in Sockets : Opened(d)' <=> Opened(d)
  BY SocketFacts DEF Opened
<1>5. FeedInOrder'
  BY <1>1, <1>2 DEF FeedInOrder
<1>6. Traces'
  <2>1. \A f \in Frames : \A d \in sending[f].todo \cup sending[f].dead : d \in Sockets
    BY <1>1 DEF HubTyped, Sent
  <2> QED
    BY <1>1, <1>3, <1>4, <2>1 DEF Traces, HubTyped
<1>7. ASSUME NEW d \in Sockets PROVE OneWay(d)' /\ Registered(d)'
  <2>1. OneWay(d) /\ Registered(d)
    BY <1>1 DEF Sound
  <2>2. OneWay(d)'
    BY <1>2, <1>3, <2>1 DEF OneWay
  <2>3. Registered(d)'
    BY <2>1 DEF Registered
  <2> QED
    BY <2>2, <2>3
<1>8. OncePerSocket'
  BY <1>1 DEF OncePerSocket
<1>9. NothingMissed'
  BY <1>1, SocketFacts DEF NothingMissed
<1>10. NoDeadSocket'
  BY <1>1 DEF NoDeadSocket, HubTyped
<1> QED
  BY <1>5, <1>6, <1>7, <1>8, <1>9, <1>10 DEF IInv, Sound

LEMMA HandlerEndsKeepsIInv ==
    ASSUME IInv, NEW c \in Sockets, HandlerEnds(c)
    PROVE  IInv'
<1>1. FeedTyped /\ HubTyped /\ PagesTyped /\ SocketsTyped /\ Counted /\ Sound
  BY Parts
<1>2. PICK old \in Connection : old = socket[c] /\ ~old.up
  BY <1>1 DEF SocketsTyped, HandlerEnds
<1>3. PICK new : new = [old EXCEPT !.handler = "ended"]
  OBVIOUS
<1>4. new \in Connection /\ new.replay = old.replay /\ new.up = old.up
  BY <1>3 DEF Connection
<1>5. /\ UNCHANGED <<published, feed, scheduled, sending, recent, page, faults>>
      /\ clients' = clients \ {c} /\ socket' = [socket EXCEPT ![c] = new]
  BY <1>2, <1>3 DEF HandlerEnds
<1>6. /\ socket' \in [Sockets -> Connection] /\ socket'[c] = new
      /\ \A d \in Sockets : d # c => socket'[d] = socket[d]
  BY <1>1, <1>4, <1>5 DEF SocketsTyped
<1>7. TypeOK'
  <2>1. FeedTyped' /\ HubTyped' /\ PagesTyped' /\ SocketsTyped'
    BY <1>1, <1>5, <1>6 DEF FeedTyped, HubTyped, PagesTyped, SocketsTyped
  <2> QED
    BY <2>1, TypePartsNext
<1>8. \A d \in Sockets : socket[d].up => d \in clients
  BY <1>1 DEF Sound, Registered
<1>9. ASSUME NEW d \in Sockets
      PROVE  /\ socket'[d].replay = socket[d].replay
             /\ socket'[d].up => socket[d].up /\ d \in clients'
             /\ d \in clients' => socket'[d].handler = socket[d].handler
  BY <1>2, <1>4, <1>5, <1>6, <1>8
<1>10. Counted'
  BY <1>1, <1>5 DEF Counted, Waits
<1> QED
  BY <1>5, <1>7, <1>9, <1>10, LossKeepsIInv

LEMMA LostKeepsIInv ==
    ASSUME IInv, NEW c \in Sockets, Lost(c)
    PROVE  IInv'
<1>1. FeedTyped /\ HubTyped /\ PagesTyped /\ SocketsTyped /\ Counted /\ Sound
  BY Parts
<1>2. PICK old \in Connection : old = socket[c]
  BY <1>1 DEF SocketsTyped
<1>3. PICK new : new = [old EXCEPT !.up = FALSE]
  OBVIOUS
<1>4. new \in Connection /\ new.replay = old.replay /\ new.handler = old.handler /\ ~new.up
  BY <1>3 DEF Connection
<1>5. PICK b \in Browsers : b = c[1]
  BY SocketFacts
<1>6. PICK view \in View : view = page[b]
  BY <1>1 DEF PagesTyped
<1>7. PICK away : away = [view EXCEPT !.status = "reconnecting"]
  OBVIOUS
<1>8. /\ away \in View /\ away.items = view.items /\ away.sockets = view.sockets
      /\ away.status = "reconnecting"
  BY <1>7 DEF View
<1>9. /\ UNCHANGED <<published, feed, scheduled, sending, recent, clients>>
      /\ socket' = [socket EXCEPT ![c] = new] /\ page' = [page EXCEPT ![b] = away]
      /\ faults < MaxFaults /\ faults' = faults + 1
  BY <1>2, <1>3, <1>5, <1>6, <1>7 DEF Lost, Fault, hub
<1>10. /\ socket' \in [Sockets -> Connection] /\ socket'[c] = new
       /\ \A d \in Sockets : d # c => socket'[d] = socket[d]
       /\ page' \in [Browsers -> View] /\ page'[b] = away
       /\ \A a \in Browsers : a # b => page'[a] = page[a]
  BY <1>1, <1>4, <1>8, <1>9 DEF SocketsTyped, PagesTyped
<1>11. faults \in Nat /\ faults' \in 0..MaxFaults
  BY <1>1, <1>9, DashboardAssumption DEF SocketsTyped
<1>12. \A a \in Browsers : page'[a].items = page[a].items /\ page'[a].sockets = page[a].sockets
  BY <1>6, <1>8, <1>10
<1>13. TypeOK'
  <2>1. PagesTyped'
    BY <1>1, <1>10, <1>12 DEF PagesTyped
  <2>2. FeedTyped' /\ HubTyped' /\ SocketsTyped'
    BY <1>1, <1>9, <1>10, <1>11 DEF FeedTyped, HubTyped, SocketsTyped
  <2> QED
    BY <2>1, <2>2, TypePartsNext
<1>14. \A d \in Sockets : socket[d].up => d \in clients
  BY <1>1 DEF Sound, Registered
<1>15. ASSUME NEW d \in Sockets
       PROVE  /\ socket'[d].replay = socket[d].replay
              /\ socket'[d].up => socket[d].up /\ d \in clients'
              /\ d \in clients' => socket'[d].handler = socket[d].handler
  BY <1>2, <1>4, <1>9, <1>10, <1>14
<1>16. Counted'
  <2>1. ASSUME NEW a \in Browsers
        PROVE  page'[a].sockets <= IF Waits(a)' THEN faults + 1 ELSE (faults + 1) + 1
    <3>1. PICK n \in Nat : n = page[a].sockets /\ n <= faults + 1
      <4>1. page[a].sockets \in Nat
        BY <1>1, DashboardAssumption DEF PagesTyped, View
      <4> QED
        BY <1>1, <1>11, <4>1 DEF Counted
    <3> QED
      BY <1>11, <1>12, <3>1
  <2> QED
    BY <1>9, <2>1 DEF Counted
<1> QED
  BY <1>9, <1>12, <1>13, <1>15, <1>16, LossKeepsIInv

LEMMA LeaveKeepsIInv ==
    ASSUME IInv, NEW b \in Browsers, Leave(b)
    PROVE  IInv'
<1>1. FeedTyped /\ HubTyped /\ PagesTyped /\ SocketsTyped /\ Counted /\ Sound
  BY Parts
<1>2. PICK view \in View : view = page[b]
  BY <1>1 DEF PagesTyped
<1>3. PICK gone : gone = [view EXCEPT !.status = "closed"]
  OBVIOUS
<1>4. /\ gone \in View /\ gone.items = view.items /\ gone.sockets = view.sockets
      /\ gone.status = "closed"
  BY <1>3 DEF View
<1>5. /\ UNCHANGED <<published, feed, scheduled, sending, recent, clients, faults>>
      /\ page' = [page EXCEPT ![b] = gone]
      /\ socket' = [c \in Sockets |-> IF c[1] = b THEN [socket[c] EXCEPT !.up = FALSE]
                                                  ELSE socket[c]]
  BY <1>2, <1>3 DEF Leave, hub
<1>6. /\ page' \in [Browsers -> View] /\ page'[b] = gone
      /\ \A a \in Browsers : a # b => page'[a] = page[a]
  BY <1>1, <1>4, <1>5 DEF PagesTyped
<1>7. ASSUME NEW d \in Sockets
      PROVE  /\ socket'[d] \in Connection
             /\ socket'[d].replay = socket[d].replay /\ socket'[d].handler = socket[d].handler
             /\ socket'[d].up => socket[d].up
  <2>1. PICK old \in Connection : old = socket[d]
    BY <1>1 DEF SocketsTyped
  <2>2. PICK down : down = [old EXCEPT !.up = FALSE]
    OBVIOUS
  <2>3. down \in Connection /\ down.replay = old.replay /\ down.handler = old.handler /\ ~down.up
    BY <2>2 DEF Connection
  <2>4. socket'[d] = IF d[1] = b THEN down ELSE old
    BY <1>5, <2>1, <2>2
  <2> QED
    BY <2>1, <2>3, <2>4
<1>8. socket' \in [Sockets -> Connection]
  BY <1>5, <1>7
<1>9. \A a \in Browsers : page'[a].items = page[a].items /\ page'[a].sockets = page[a].sockets
  BY <1>2, <1>4, <1>6
<1>10. TypeOK'
  <2>1. PagesTyped'
    BY <1>1, <1>6, <1>9 DEF PagesTyped
  <2>2. FeedTyped' /\ HubTyped' /\ SocketsTyped'
    BY <1>1, <1>5, <1>8 DEF FeedTyped, HubTyped, SocketsTyped
  <2> QED
    BY <2>1, <2>2, TypePartsNext
<1>11. ASSUME NEW d \in Sockets
       PROVE  /\ socket'[d].replay = socket[d].replay
              /\ socket'[d].up => socket[d].up /\ d \in clients'
              /\ d \in clients' => socket'[d].handler = socket[d].handler
  BY <1>1, <1>5, <1>7 DEF Sound, Registered
<1>12. Counted'
  <2>1. ASSUME NEW a \in Browsers
        PROVE  page'[a].sockets <= IF Waits(a)' THEN faults ELSE faults + 1
    <3>1. PICK n \in Nat : n = page[a].sockets /\ n <= IF Waits(a) THEN faults ELSE faults + 1
      <4>1. page[a].sockets \in Nat
        BY <1>1, DashboardAssumption DEF PagesTyped, View
      <4> QED
        BY <1>1, <4>1 DEF Counted
    <3>2. Waits(a)' => Waits(a)
      BY <1>4, <1>6 DEF Waits
    <3>3. faults \in Nat
      BY <1>1, DashboardAssumption DEF SocketsTyped
    <3> QED
      BY <1>9, <3>1, <3>2, <3>3
  <2> QED
    BY <1>5, <2>1 DEF Counted
<1> QED
  BY <1>5, <1>9, <1>10, <1>11, <1>12, LossKeepsIInv

LEMMA ReplayKeepsIInv ==
    ASSUME IInv, NEW c \in Sockets, Replay(c)
    PROVE  IInv'
<1>1. /\ FeedTyped /\ HubTyped /\ PagesTyped /\ SocketsTyped /\ FeedInOrder /\ Counted
      /\ Traces /\ Sound /\ OncePerSocket /\ NothingMissed /\ NoDeadSocket
  BY Parts
<1>2. PICK old \in Connection : old = socket[c] /\ old.replay \in Seq(Frames)
  BY <1>1 DEF SocketsTyped, Connection
<1>3. PICK s \in Seq(Frames) : s = old.replay /\ s # <<>> /\ s \in Seq(Int) /\ ToSet(s) \subseteq Frames
  BY <1>2, FrameFacts DEF Replay
<1>4. OneWay(c) /\ Registered(c)
  BY <1>1 DEF Sound
<1>5. Increasing(s)
  BY <1>2, <1>3, <1>4 DEF OneWay
<1>6. PICK frame \in Frames :
         frame = Head(s) /\ frame \in ToSet(s) /\ \A x \in ToSet(s) : x = frame \/ x \in ToSet(Tail(s))
  BY <1>3, <1>5, TailIncreases
<1>7. Started(frame) /\ c \notin sending[frame].todo /\ ~Got(c, frame)
  BY <1>2, <1>3, <1>4, <1>6 DEF OneWay
<1>8. /\ UNCHANGED <<published, feed, scheduled, sending, recent, faults>>
      /\ SendSucceeds(c, frame) \/ SendRaises(c)
  BY <1>2, <1>3, <1>6 DEF Replay
<1>9. Delivered(c, frame)
  BY <1>1, <1>7, <1>8, Delivery
<1>10. PICK new \in Connection :
          /\ socket' = [socket EXCEPT ![c] = new]
          /\ new.up = old.up /\ new.handler = old.handler
          /\ Increasing(new.replay) /\ frame \notin ToSet(new.replay)
          /\ ToSet(new.replay) \subseteq ToSet(s)
          /\ new.up => \A x \in ToSet(s) : x = frame \/ x \in ToSet(new.replay)
          /\ clients' = clients \/ (clients' = clients \ {c} /\ ~new.up)
  <2>1. CASE socket' = [socket EXCEPT ![c].replay = Tail(@)] /\ UNCHANGED clients
    <3>1. PICK r \in Seq(Frames) : r = Tail(s)
      BY <1>3, TailFacts
    <3>2. /\ Increasing(r) /\ ToSet(r) \subseteq ToSet(s)
          /\ \A x \in ToSet(r) : frame < x
          /\ \A x \in ToSet(s) : x = frame \/ x \in ToSet(r)
      BY <1>3, <1>5, <1>6, <3>1, TailIncreases
    <3>3. frame \notin ToSet(r)
      BY <3>2, FrameFacts
    <3>4. PICK n : n = [old EXCEPT !.replay = r]
      OBVIOUS
    <3>5. n \in Connection /\ n.replay = r /\ n.up = old.up /\ n.handler = old.handler
      BY <3>1, <3>4 DEF Connection
    <3>6. socket' = [socket EXCEPT ![c] = n]
      BY <1>2, <1>3, <2>1, <3>1, <3>4
    <3> QED
      BY <2>1, <3>2, <3>3, <3>5, <3>6
  <2>2. CASE /\ socket' = [socket EXCEPT ![c].replay = <<>>]
             /\ clients' = clients \ {c} /\ SendRaises(c)
    <3>1. PICK n : n = [old EXCEPT !.replay = <<>>]
      OBVIOUS
    <3>2. n \in Connection /\ n.replay = <<>> /\ n.up = old.up /\ n.handler = old.handler
      <4>1. <<>> \in Seq(Frames)
        OBVIOUS
      <4> QED
        BY <3>1, <4>1 DEF Connection
    <3>3. socket' = [socket EXCEPT ![c] = n]
      BY <1>2, <2>2, <3>1
    <3>4. ToSet(n.replay) = {} /\ Increasing(n.replay)
      BY <3>2 DEF ToSet, Increasing
    <3>5. ~n.up
      BY <1>2, <2>2, <3>2 DEF SendRaises
    <3> QED
      BY <2>2, <3>2, <3>3, <3>4, <3>5
  <2> QED
    BY <2>1, <2>2 DEF Replay
<1>11. /\ socket' \in [Sockets -> Connection] /\ socket'[c] = new
       /\ \A d \in Sockets : d # c => socket'[d] = socket[d]
  BY <1>1, <1>10 DEF SocketsTyped
<1>12. ASSUME NEW d \in Sockets
       PROVE  /\ ToSet(socket'[d].replay) \subseteq ToSet(socket[d].replay)
              /\ Increasing(socket'[d].replay)
              /\ ~(d = c /\ frame \in ToSet(socket'[d].replay))
              /\ socket'[d].up = socket[d].up /\ socket'[d].handler = socket[d].handler
              /\ socket[d].up => \A x \in ToSet(socket[d].replay) :
                                    x \in ToSet(socket'[d].replay) \/ (d = c /\ x = frame)
              /\ d \in clients' => d \in clients
              /\ d \in clients /\ socket[d].up => d \in clients'
  <2>1. CASE d = c
    BY <1>2, <1>3, <1>10, <1>11, <2>1
  <2>2. CASE d # c
    <3>1. Increasing(socket[d].replay)
      BY <1>1 DEF Sound, OneWay
    <3> QED
      BY <1>10, <1>11, <2>2, <3>1
  <2> QED
    BY <2>1, <2>2
<1>13. TypeOK'
  <2>1. FeedTyped' /\ HubTyped' /\ PagesTyped' /\ SocketsTyped'
    BY <1>1, <1>8, <1>9, <1>10, <1>11 DEF FeedTyped, HubTyped, SocketsTyped, Delivered
  <2> QED
    BY <2>1, TypePartsNext
<1>14. \A f : Started(f)' <=> Started(f)
  BY <1>8 DEF Started
<1>15. FeedInOrder'
  BY <1>1, <1>8, <1>14 DEF FeedInOrder
<1>16. Counted'
  BY <1>1, <1>8, <1>9 DEF Counted, Waits, Delivered
<1>17. Traces'
  <2>1. \A d \in Sockets : Opened(d)' <=> Opened(d)
    BY <1>9, SocketFacts DEF Opened, Delivered
  <2>2. Opened(c)
    BY <1>1, <1>2, <1>3 DEF Traces
  <2>3. \A d \in Sockets : (\E f \in Frames : Got(d, f)') => Opened(d)
    BY <1>1, <1>9, <2>2 DEF Traces, Delivered
  <2>4. \A d \in clients' : d \in Sockets /\ Opened(d)
    BY <1>1, <1>10 DEF Traces, HubTyped
  <2>5. \A f \in Frames : \A d \in sending[f].todo \cup sending[f].dead : d \in Sockets /\ Opened(d)
    BY <1>1 DEF Traces, HubTyped, Sent
  <2>6. \A d \in Sockets : socket'[d].replay # <<>> => Opened(d)
    <3>1. ASSUME NEW d \in Sockets, d # c, socket'[d].replay # <<>> PROVE Opened(d)
      BY <1>1, <1>11, <3>1 DEF Traces
    <3> QED
      BY <2>2, <3>1
  <2> QED
    BY <1>8, <2>1, <2>3, <2>4, <2>5, <2>6 DEF Traces
<1>18. ASSUME NEW d \in Sockets PROVE OneWay(d)' /\ Registered(d)'
  <2>1. OneWay(d) /\ Registered(d)
    BY <1>1 DEF Sound
  <2>2. ASSUME NEW f \in ToSet(socket'[d].replay)
        PROVE  Started(f)' /\ d \notin sending[f].todo /\ ~Got(d, f)'
    <3>1. f \in ToSet(socket[d].replay) /\ ~(d = c /\ f = frame)
      BY <1>12, <2>2
    <3>2. f \in Frames /\ Started(f) /\ d \notin sending[f].todo /\ ~Got(d, f)
      BY <2>1, <3>1, Parts DEF OneWay
    <3> QED
      BY <1>9, <1>14, <3>1, <3>2 DEF Delivered
  <2>3. ASSUME NEW f \in Frames, d \in sending[f].todo
        PROVE  Started(f)' /\ ~Got(d, f)'
    <3>1. ~(d = c /\ f = frame)
      BY <1>7, <2>3
    <3> QED
      BY <1>9, <1>14, <2>1, <2>3, <3>1 DEF OneWay, Delivered
  <2>4. ASSUME d \in clients', NEW f \in Frames, Got(d, f)' PROVE Started(f)'
    BY <1>7, <1>9, <1>12, <1>14, <2>1, <2>4 DEF OneWay, Delivered
  <2>5. OneWay(d)'
    BY <1>8, <1>12, <2>2, <2>3, <2>4 DEF OneWay
  <2>6. Registered(d)'
    BY <1>8, <1>12, <2>1 DEF Registered
  <2> QED
    BY <2>5, <2>6
<1>19. NothingMissed'
  <2>1. SUFFICES ASSUME NEW d \in Sockets, socket'[d].up, NEW f \in ToSet(recent)
                 PROVE  \/ f \in ToSet(socket'[d].replay)
                        \/ d \in sending[f].todo
                        \/ Got(d, f)'
                        \/ Len(page'[d[1]].items) = MaxItems
    BY <1>8 DEF NothingMissed, Got
  <2>2. f \in Frames /\ d[1] \in Browsers /\ socket[d].up
    BY <1>12, <2>1, Parts, SocketFacts
  <2>3. \/ f \in ToSet(socket[d].replay) \/ d \in sending[f].todo \/ Got(d, f)
        \/ Len(page[d[1]].items) = MaxItems
    BY <1>1, <2>2 DEF NothingMissed, Got
  <2>4. CASE f \in ToSet(socket[d].replay)
    <3>1. f \in ToSet(socket'[d].replay) \/ (d = c /\ f = frame)
      BY <1>12, <2>2, <2>4
    <3> QED
      BY <1>9, <2>2, <3>1 DEF Delivered
  <2> QED
    BY <1>9, <2>2, <2>3, <2>4 DEF Delivered
<1>20. NoDeadSocket'
  <2>1. \A d \in clients' : d \in Sockets /\ d \in clients
    BY <1>1, <1>10 DEF HubTyped
  <2> QED
    BY <1>1, <1>12, <2>1 DEF NoDeadSocket
<1> QED
  BY <1>9, <1>13, <1>15, <1>16, <1>17, <1>18, <1>19, <1>20 DEF IInv, Sound, Delivered

LEMMA RestartKeepsIInv ==
    ASSUME IInv, Restart
    PROVE  IInv'
<1>1. /\ FeedTyped /\ PagesTyped /\ SocketsTyped /\ Counted /\ Traces /\ OncePerSocket
  BY Parts
<1>2. /\ published' = published /\ feed' = [connected |-> FALSE, next |-> 1]
      /\ scheduled' = <<>> /\ sending' = [f \in Frames |-> Idle]
      /\ recent' = <<>> /\ clients' = {} /\ faults < MaxFaults /\ faults' = faults + 1
  BY DEF Restart, Fault
<1>3. /\ FeedTyped' /\ HubTyped'
  BY <1>1, <1>2, DashboardAssumption DEF FeedTyped, HubTyped, Sent, Idle
<1>4. ASSUME NEW c \in Sockets
      PROVE  socket'[c] \in Connection /\ socket'[c].replay = <<>> /\ ~socket'[c].up
  <2>1. PICK ended : ended = [NoSocket EXCEPT !.handler = "ended"]
    OBVIOUS
  <2>2. /\ ended \in Connection /\ ended.replay = <<>> /\ ~ended.up
        /\ NoSocket \in Connection /\ NoSocket.replay = <<>> /\ ~NoSocket.up
    <3>1. <<>> \in Seq(Frames)
      OBVIOUS
    <3>2. NoSocket = [handler |-> "none", up |-> FALSE, replay |-> <<>>]
      BY DEF NoSocket
    <3>3. ended = [handler |-> "ended", up |-> FALSE, replay |-> <<>>]
      BY <2>1, <3>2
    <3> QED
      BY <3>1, <3>2, <3>3 DEF Connection
  <2>3. socket'[c] = NoSocket \/ socket'[c] = ended
    BY <2>1 DEF Restart
  <2> QED
    BY <2>2, <2>3
<1>5. SocketsTyped'
  <2>1. socket' \in [Sockets -> Connection]
    BY <1>4 DEF Restart
  <2>2. faults' \in 0..MaxFaults
    BY <1>1, <1>2, DashboardAssumption DEF SocketsTyped
  <2> QED
    BY <2>1, <2>2 DEF SocketsTyped
<1>6. ASSUME NEW b \in Browsers
      PROVE  /\ page'[b] \in View
             /\ page'[b].items = page[b].items /\ page'[b].sockets = page[b].sockets
  <2>1. PICK old \in View : old = page[b]
    BY <1>1 DEF PagesTyped
  <2>2. PICK away : away = [old EXCEPT !.status = "reconnecting"]
    OBVIOUS
  <2>3. away \in View /\ away.items = old.items /\ away.sockets = old.sockets
    BY <2>2 DEF View
  <2>4. page'[b] = IF old.status = "live" THEN away ELSE old
    BY <2>1, <2>2 DEF Restart
  <2> QED
    BY <2>1, <2>3, <2>4
<1>7. PagesTyped'
  <2>1. page' \in [Browsers -> View]
    BY <1>6 DEF Restart
  <2> QED
    BY <1>1, <1>6, <2>1 DEF PagesTyped
<1>8. TypeOK'
  BY <1>3, <1>5, <1>7, TypePartsNext
<1>9. ToSet(<<>>) = {}
  BY DEF ToSet
<1>10. FeedInOrder'
  <2>1. published \in Nat
    BY <1>1, DashboardAssumption DEF FeedTyped
  <2> QED
    BY <1>2, <1>9, <2>1 DEF FeedInOrder, Increasing
<1>11. Counted'
  <2>1. ASSUME NEW a \in Browsers
        PROVE  page'[a].sockets <= IF Waits(a)' THEN faults + 1 ELSE (faults + 1) + 1
    <3>1. faults \in Nat
      BY <1>1, DashboardAssumption DEF SocketsTyped
    <3>2. PICK n \in Nat : n = page[a].sockets /\ n <= faults + 1
      <4>1. page[a].sockets \in Nat
        BY <1>1, DashboardAssumption DEF PagesTyped, View
      <4> QED
        BY <1>1, <3>1, <4>1 DEF Counted
    <3> QED
      BY <1>6, <3>1, <3>2
  <2> QED
    BY <1>2, <2>1 DEF Counted
<1>12. \A d \in Sockets : \A f : Got(d, f)' <=> Got(d, f)
  BY <1>6, SocketFacts DEF Got
<1>13. \A d \in Sockets : Opened(d)' <=> Opened(d)
  BY <1>6, SocketFacts DEF Opened
<1>14. \A f \in Frames : sending'[f].todo = {} /\ sending'[f].dead = {}
  BY <1>2 DEF Idle
<1>15. Traces'
  BY <1>1, <1>2, <1>4, <1>12, <1>13, <1>14 DEF Traces
<1>16. ASSUME NEW d \in Sockets PROVE OneWay(d)' /\ Registered(d)'
  BY <1>2, <1>4, <1>9, <1>14 DEF OneWay, Registered, Increasing
<1>17. OncePerSocket'
  BY <1>1, <1>6 DEF OncePerSocket
<1>18. NothingMissed' /\ NoDeadSocket'
  BY <1>2, <1>4 DEF NothingMissed, NoDeadSocket
<1> QED
  BY <1>8, <1>10, <1>11, <1>15, <1>16, <1>17, <1>18 DEF IInv, Sound

----------------------------------------------------------------------------
(* The invariant, and what follows from it. *)

LEMMA NextIInv == IInv /\ [Next]_vars => IInv'
<1> SUFFICES ASSUME IInv, [Next]_vars PROVE IInv'
  OBVIOUS
<1>1. CASE Publish \/ FeedConnects \/ FeedPolls \/ FeedFails \/ UNCHANGED vars
  BY <1>1, FeedKeepsIInv
<1>2. CASE \E f \in Frames : Broadcast(f) \/ Finish(f) \/ \E c \in Sockets : Send(f, c)
  BY <1>2, BroadcastKeepsIInv, FinishKeepsIInv, SendKeepsIInv
<1>3. CASE \E b \in Browsers : Connect(b) \/ Leave(b)
  BY <1>3, ConnectKeepsIInv, LeaveKeepsIInv
<1>4. CASE \E c \in Sockets : Replay(c) \/ HandlerEnds(c) \/ Lost(c)
  BY <1>4, ReplayKeepsIInv, HandlerEndsKeepsIInv, LostKeepsIInv
<1>5. CASE Restart
  BY <1>5, RestartKeepsIInv
<1> QED
  BY <1>1, <1>2, <1>3, <1>4, <1>5 DEF Next

LEMMA Invariance == Spec => []IInv
<1>1. Init => IInv
  BY InitIInv
<1>2. IInv /\ [Next]_vars => IInv'
  BY NextIInv
<1> QED
  BY <1>1, <1>2, PTL DEF Spec

\* The variables keep their types; the replay buffer and the lists their lengths, and a
\* page never opens more sockets than it lost, and one.
THEOREM TypesKept == Spec => []TypeOK
<1>1. IInv => TypeOK
  BY DEF IInv
<1> QED
  BY <1>1, Invariance, PTL

\* Neither a broadcast that ends, nor a replay that raises, nor a restart leaves a socket
\* in Hub._clients whose handler is over.
THEOREM DeadSocketsLeave == Spec => []NoDeadSocket
<1>1. IInv => NoDeadSocket
  BY DEF IInv
<1> QED
  BY <1>1, Invariance, PTL

\* A frame is at one place only on its way to a socket: in the replay, or in a broadcast
\* that started after the socket had registered, or on the page.
THEOREM FramesComeOnce == Spec => []OncePerSocket
<1>1. IInv => OncePerSocket
  BY DEF IInv
<1> QED
  BY <1>1, Invariance, PTL

\* Registering and copying the buffer in one step, without an await between, leaves no
\* frame behind, however broadcasts, replays and connections overlap.
THEOREM NoFrameIsMissed == Spec => []NothingMissed
<1>1. IInv => NothingMissed
  BY DEF IInv
<1> QED
  BY <1>1, Invariance, PTL
=============================================================================

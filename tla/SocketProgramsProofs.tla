------------------------ MODULE SocketProgramsProofs ------------------------
(***************************************************************************)
(* Proofs about the programs over sockets, for any number of servers and    *)
(* clients, process ids that are used again, any messages and deaths.       *)
(***************************************************************************)
EXTENDS SocketPrograms, SequenceTheorems, FiniteSetTheorems, TLAPS

(***************************************************************************)
(* Datagrams                                                                *)
(***************************************************************************)
Messages == [from : Pids, length : Nat, of : Clients, nr : Nat]
ServerPlaces == {"remove", "bind", "receive", "send", "failed", "ended"}
ClientPlaces == {"start", "send", "receive", "remove", "ended"}

DatagramTypes ==
    /\ path \in Servers \cup {None}
    /\ server \in [Servers -> ServerPlaces]
    /\ client \in [Clients -> ClientPlaces]
    /\ killed \subseteq Servers \cup Clients
    /\ lengths \in [Clients -> Arguments]
    /\ next \in [Clients -> Nat \ {0}]
    /\ pid \in [Clients -> Pids]
    /\ name \in [Pids -> Clients \cup {None}]
    /\ inbox \in [Servers -> Seq(Messages)]
    /\ buf \in [Servers -> Messages \cup {None}]
    /\ replies \in [Clients -> Seq(Messages)]
    /\ got \in [Clients -> Seq(Messages)]
    /\ asked \in [Clients -> Servers \cup {None}]

\* Only who bound the path has messages, and no more than its socket takes; a
\* server ends if it is killed.
Sockets ==
    /\ path # None => server[path] \in {"receive", "send", "ended"}
    /\ \A s \in Servers :
        /\ server[s] \in {"remove", "bind"} => inbox[s] = << >>
        /\ server[s] = "send" => buf[s] \in Messages
        /\ server[s] = "ended" => s \in killed
        /\ Len(inbox[s]) <= QueueLimit + 1

\* A name leads to the process that bound it, which has the process id in it and
\* has not ended in order.
Names ==
    /\ \A p \in Pids : name[p] # None =>
        /\ pid[name[p]] = p /\ client[name[p]] # "start"
        /\ client[name[p]] = "ended" => name[p] \in killed
    /\ \A c \in Clients :
        /\ Datagram!Living(c) => name[pid[c]] = c
        /\ c \in killed => client[c] = "ended"
        /\ client[c] \in {"start", "send", "receive"} => next[c] <= Len(lengths[c])

\* The messages and answers of clients that have their name still, and wait for
\* this answer, unless they were killed.
Cut(n) == IF n < BUF_SIZE THEN n ELSE BUF_SIZE
Expects(c, nr) == c \in killed \/ (client[c] = "receive" /\ next[c] = nr)
Awaited ==
    {m \in Messages :
        /\ m.from = pid[m.of] /\ Cut(m.length) = Cut(lengths[m.of][m.nr])
        /\ name[m.from] = m.of
        /\ Expects(m.of, m.nr)}

\* Position i of the inbox of s, or the buffer of s, holds a message of c.
Holds(c, s, i) ==
    /\ Datagram!Up(s)
    /\ \/ i \in 1 .. Len(inbox[s]) /\ inbox[s][i].of = c
       \/ i = 0 /\ server[s] = "send" /\ buf[s].of = c

OnTheirWay ==
    /\ \A s \in Servers :
        /\ Datagram!Up(s) => \A i \in 1 .. Len(inbox[s]) : inbox[s][i] \in Awaited
        /\ server[s] = "send" => buf[s] \in Awaited
    /\ \A c \in Clients : \A i \in 1 .. Len(replies[c]) :
        replies[c][i] \in Awaited /\ replies[c][i].of = c

\* A client that waits has one message or answer on its way, unless the server
\* that it asked was killed.
AtMostOne ==
    \A c \in Clients : Datagram!Living(c) =>
        /\ \A s, t \in Servers : \A i, k \in Nat :
               Holds(c, s, i) /\ Holds(c, t, k) => s = t /\ i = k
        /\ Len(replies[c]) <= 1
        /\ Len(replies[c]) = 1 => \A s \in Servers : \A i \in Nat : ~Holds(c, s, i)
        /\ \A s \in Servers : \A i \in Nat : Holds(c, s, i) => asked[c] = s
OneUnlessDead ==
    \A c \in Clients : client[c] = "receive" =>
        \/ \E s \in Servers : \E i \in Nat : Holds(c, s, i)
        \/ Len(replies[c]) = 1
        \/ asked[c] \in killed

\* What a client has received, it was waiting for one after the other.
InTurn ==
    \A c \in Clients :
        /\ \A i \in 1 .. Len(got[c]) :
            /\ got[c][i].of = c /\ got[c][i].from = pid[c]
            /\ got[c][i].length = Cut(lengths[c][got[c][i].nr])
            /\ got[c][i].nr < next[c]
        /\ \A i \in 1 .. Len(got[c]) : i > 1 => got[c][i - 1].nr < got[c][i].nr

DatagramInv ==
    /\ DatagramTypes /\ Sockets /\ Names /\ OnTheirWay /\ AtMostOne
    /\ OneUnlessDead /\ InTurn

LEMMA DatagramConstants ==
  /\ BUF_SIZE \in Nat /\ QueueLimit \in Nat
  /\ None \notin Servers /\ None \notin Clients /\ Servers \cap Clients = {}
  /\ MayDie \subseteq Servers \cup Clients
  /\ \A a \in Arguments : a \in Seq(Nat) /\ Len(a) \in Nat \ {0}
                          /\ \A i \in 1 .. Len(a) : a[i] \in Nat
<1>1. Datagram!DatagramAssumption
  BY SocketAssumption
<1>2. \A a \in Arguments : a \in Seq(Nat) /\ a # << >>
  BY <1>1 DEF Datagram!DatagramAssumption
<1>3. \A a \in Arguments : Len(a) \in Nat \ {0} /\ \A i \in 1 .. Len(a) : a[i] \in Nat
  BY <1>2, EmptySeq, ElementOfSeq
<1>. QED
  BY <1>1, <1>2, <1>3 DEF Datagram!DatagramAssumption

\* What truncation leaves alone.
LEMMA TruncatedMessage ==
  ASSUME NEW m \in Messages
  PROVE  LET t == Datagram!Truncated(m)
         IN  /\ t \in Messages /\ t.from = m.from /\ t.of = m.of /\ t.nr = m.nr
             /\ t.length = Cut(m.length)
BY DatagramConstants DEF Messages, Datagram!Truncated, Cut

LEMMA MessageOf ==
  ASSUME DatagramTypes, NEW c \in Clients, NEW i \in 1 .. Len(lengths[c])
  PROVE  Datagram!Message(c, i) \in Messages
<1>1. lengths[c] \in Seq(Nat) /\ Len(lengths[c]) \in Nat /\ lengths[c][i] \in Nat
  BY DatagramConstants DEF DatagramTypes
<1>. QED
  BY <1>1 DEF DatagramTypes, Messages, Datagram!Message

\* The head and the tail of what waits at a socket.
LEMMA FirstMessage ==
  ASSUME NEW q \in Seq(Messages), q # << >>
  PROVE  /\ Head(q) \in Messages /\ Tail(q) \in Seq(Messages)
         /\ Head(q) = q[1] /\ 1 \in 1 .. Len(q)
         /\ Len(q) \in Nat /\ Len(Tail(q)) = Len(q) - 1
         /\ \A i \in 1 .. Len(Tail(q)) : Tail(q)[i] = q[i + 1] /\ i + 1 \in 1 .. Len(q)
<1>1. Len(q) \in Nat \ {0}
  BY EmptySeq
<1>. QED
  BY <1>1, HeadTailProperties

LEMMA LastMessage ==
  ASSUME NEW q \in Seq(Messages), NEW m \in Messages
  PROVE  /\ Append(q, m) \in Seq(Messages)
         /\ Len(q) \in Nat /\ Len(Append(q, m)) = Len(q) + 1
         /\ \A i \in 1 .. Len(q) : Append(q, m)[i] = q[i]
         /\ Append(q, m)[Len(q) + 1] = m
BY AppendProperties, LenProperties

\* Parts of the invariant that a step does not touch.
LEMMA NamesSame ==
  ASSUME Names, UNCHANGED <<client, killed, lengths, next, pid, name>>
  PROVE  Names' /\ Awaited' = Awaited
BY DEF Names, Awaited, Expects, Datagram!Living

LEMMA InTurnSame ==
  ASSUME InTurn, UNCHANGED <<lengths, next, pid, got>>
  PROVE  InTurn'
BY DEF InTurn

\* The steps that only move a server, while it has no message.
LEMMA DatagramServerQuiet ==
  ASSUME DatagramInv, NEW s \in Servers,
         \/ Datagram!RemovePath(s) \/ Datagram!Bind(s) \/ Datagram!BindFails(s)
  PROVE  DatagramInv'
<1>0. /\ DatagramTypes /\ Sockets /\ Names /\ OnTheirWay /\ AtMostOne
      /\ OneUnlessDead /\ InTurn
  BY DEF DatagramInv
<1>1. /\ server' \in [Servers -> ServerPlaces] /\ path' \in Servers \cup {None}
      /\ server[s] \in {"remove", "bind"} /\ server'[s] \in {"bind", "receive", "failed"}
      /\ \A t \in Servers \ {s} : server'[t] = server[t]
      /\ UNCHANGED <<kind, client, killed, buf, lengths, next, got, pid, name, inbox,
                     replies, asked>>
  BY <1>0 DEF DatagramTypes, ServerPlaces, Datagram!RemovePath, Datagram!Bind,
        Datagram!BindFails, Datagram!Goto, Datagram!datagramVars
<1>2. inbox[s] = << >> /\ Len(inbox[s]) = 0
  BY <1>0, <1>1 DEF Sockets
<1>3. DatagramTypes'
  BY <1>0, <1>1 DEF DatagramTypes
<1>4. Sockets'
  BY <1>0, <1>1, <1>2, DatagramConstants DEF Sockets, DatagramTypes, ServerPlaces,
        Datagram!RemovePath, Datagram!Bind, Datagram!BindFails, Datagram!Goto
<1>5. Names' /\ InTurn' /\ Awaited' = Awaited
  BY <1>0, <1>1, NamesSame, InTurnSame
<1>6. \A c \in Clients : \A t \in Servers : \A i \in Nat : Holds(c, t, i)' <=> Holds(c, t, i)
  BY <1>1, <1>2 DEF Holds, Datagram!Up
<1>7. OnTheirWay'
  BY <1>0, <1>1, <1>2, <1>5 DEF OnTheirWay, Datagram!Up
<1>8. AtMostOne' /\ OneUnlessDead'
  BY <1>0, <1>1, <1>6 DEF AtMostOne, OneUnlessDead, Datagram!Living
<1>. QED
  BY <1>3, <1>4, <1>5, <1>7, <1>8 DEF DatagramInv

\* The server takes the first message: all messages move up by one place.
LEMMA DatagramServerReceives ==
  ASSUME DatagramInv, NEW s \in Servers, Datagram!ReceiveMessage(s)
  PROVE  DatagramInv'
<1> DEFINE m == Datagram!Truncated(Head(inbox[s]))
<1>0. /\ DatagramTypes /\ Sockets /\ Names /\ OnTheirWay /\ AtMostOne
      /\ OneUnlessDead /\ InTurn
  BY DEF DatagramInv
<1>1. inbox[s] \in Seq(Messages) /\ inbox[s] # << >>
  BY <1>0 DEF DatagramTypes, Datagram!ReceiveMessage
<1>2. /\ m \in Messages /\ Tail(inbox[s]) \in Seq(Messages) /\ Head(inbox[s]) = inbox[s][1]
      /\ 1 \in 1 .. Len(inbox[s]) /\ Len(inbox[s]) \in Nat
      /\ Len(Tail(inbox[s])) = Len(inbox[s]) - 1
      /\ m.of = inbox[s][1].of /\ m.from = inbox[s][1].from /\ m.nr = inbox[s][1].nr
      /\ m.length = Cut(inbox[s][1].length) /\ inbox[s][1].length \in Nat
  BY <1>1, FirstMessage, TruncatedMessage DEF Messages
<1>3. \A i \in 1 .. Len(Tail(inbox[s])) :
        Tail(inbox[s])[i] = inbox[s][i + 1] /\ i + 1 \in 1 .. Len(inbox[s])
  BY <1>1, FirstMessage
<1>4. /\ server[s] = "receive" /\ server'[s] = "send" /\ buf'[s] = m
      /\ inbox'[s] = Tail(inbox[s])
      /\ \A r \in Servers \ {s} : server'[r] = server[r] /\ inbox'[r] = inbox[r] /\ buf'[r] = buf[r]
      /\ inbox' \in [Servers -> Seq(Messages)] /\ buf' \in [Servers -> Messages \cup {None}]
      /\ server' \in [Servers -> ServerPlaces]
      /\ UNCHANGED <<kind, path, client, killed, lengths, next, got, pid, name, replies, asked>>
  BY <1>0, <1>2 DEF DatagramTypes, ServerPlaces, Datagram!ReceiveMessage, Datagram!Goto
<1> HIDE DEF m
<1>5. DatagramTypes'
  BY <1>0, <1>4 DEF DatagramTypes
<1>6. Sockets'
  BY <1>0, <1>2, <1>4, DatagramConstants DEF Sockets, DatagramTypes
<1>7. Names' /\ InTurn' /\ Awaited' = Awaited
  BY <1>0, <1>4, NamesSame, InTurnSame
<1>8. \A c \in Clients : \A r \in Servers : \A i \in Nat :
        Holds(c, r, i)' <=> IF r = s THEN Holds(c, s, i + 1) ELSE Holds(c, r, i)
  <2>1. ASSUME NEW c \in Clients, NEW i \in Nat PROVE Holds(c, s, i)' <=> Holds(c, s, i + 1)
    <3>1. CASE i = 0
      BY <1>2, <1>4, <3>1 DEF Holds, Datagram!Up
    <3>2. CASE i # 0
      BY <1>2, <1>3, <1>4, <3>2 DEF Holds, Datagram!Up
    <3>. QED
      BY <3>1, <3>2
  <2>2. ASSUME NEW c \in Clients, NEW r \in Servers \ {s}, NEW i \in Nat
        PROVE  Holds(c, r, i)' <=> Holds(c, r, i)
    BY <1>4 DEF Holds, Datagram!Up
  <2>. QED
    BY <2>1, <2>2
<1>9. OnTheirWay'
  <2>1. ASSUME NEW i \in 1 .. Len(inbox'[s]) PROVE inbox'[s][i] \in Awaited
    BY <1>0, <1>3, <1>4, <2>1 DEF OnTheirWay, Datagram!Up
  <2>2. ASSUME NEW t \in Servers \ {s}, Datagram!Up(t)', NEW i \in 1 .. Len(inbox'[t])
        PROVE  inbox'[t][i] \in Awaited
    BY <1>0, <1>4, <2>2 DEF OnTheirWay, Datagram!Up
  <2>3. m \in Awaited
    <3>1. inbox[s][1] \in Awaited
      BY <1>0, <1>2, <1>4 DEF OnTheirWay, Datagram!Up
    <3>2. Cut(m.length) = Cut(inbox[s][1].length)
      BY <1>2, DatagramConstants DEF Cut
    <3>. QED
      BY <1>2, <3>1, <3>2 DEF Awaited
  <2>. QED
    BY <1>0, <1>4, <1>7, <2>1, <2>2, <2>3 DEF OnTheirWay
<1>10. AtMostOne'
  <2> SUFFICES ASSUME NEW c \in Clients, Datagram!Living(c)
               PROVE  /\ \A r, t \in Servers : \A i, k \in Nat :
                             Holds(c, r, i)' /\ Holds(c, t, k)' => r = t /\ i = k
                      /\ Len(replies[c]) <= 1
                      /\ Len(replies[c]) = 1 => \A r \in Servers : \A i \in Nat : ~Holds(c, r, i)'
                      /\ \A r \in Servers : \A i \in Nat : Holds(c, r, i)' => asked[c] = r
    BY <1>4 DEF AtMostOne, Datagram!Living
  <2>1. \A r \in Servers : \A i \in Nat : Holds(c, r, i)' =>
          Holds(c, r, IF r = s THEN i + 1 ELSE i)
    BY <1>8
  <2>. QED
    BY <1>0, <2>1 DEF AtMostOne
<1>11. OneUnlessDead'
  <2> SUFFICES ASSUME NEW c \in Clients, NEW r \in Servers, NEW i \in Nat, Holds(c, r, i)
               PROVE  \E k \in Nat : Holds(c, r, k)'
    BY <1>0, <1>4 DEF OneUnlessDead
  <2>1. CASE r = s
    <3>1. i # 0
      BY <1>4, <2>1 DEF Holds
    <3>. QED
      BY <1>8, <2>1, <3>1
  <2>2. CASE r # s
    BY <1>8, <2>2
  <2>. QED
    BY <2>1, <2>2
<1>. QED
  BY <1>5, <1>6, <1>7, <1>9, <1>10, <1>11 DEF DatagramInv

\* The message in its buffer is of a client that has the name it came from: the
\* answer is for who waits for it.
LEMMA DatagramServerSends ==
  ASSUME DatagramInv, NEW s \in Servers,
         Datagram!SendAnswer(s) \/ Datagram!SendAnswerFails(s)
  PROVE  DatagramInv'
<1> DEFINE d == Datagram!Addressee(s)
<1>0. /\ DatagramTypes /\ Sockets /\ Names /\ OnTheirWay /\ AtMostOne
      /\ OneUnlessDead /\ InTurn
  BY DEF DatagramInv
<1>1. /\ server[s] = "send" /\ server'[s] = "receive"
      /\ \A r \in Servers \ {s} : server'[r] = server[r]
      /\ server' \in [Servers -> ServerPlaces]
      /\ UNCHANGED <<kind, path, client, killed, buf, lengths, next, got, pid, name, inbox, asked>>
  BY <1>0 DEF DatagramTypes, ServerPlaces, Datagram!SendAnswer, Datagram!SendAnswerFails,
        Datagram!Goto, Datagram!datagramVars
<1>2. buf[s] \in Messages /\ buf[s] \in Awaited /\ d = buf[s].of /\ d \in Clients /\ d # None
  BY <1>0, <1>1, DatagramConstants
     DEF Sockets, OnTheirWay, Awaited, Messages, Datagram!Addressee
<1>3. \/ /\ Datagram!Living(d)
         /\ replies' = [replies EXCEPT ![d] = Append(replies[d], buf[s])]
      \/ ~Datagram!Living(d) /\ replies' = replies
  BY <1>2 DEF Datagram!SendAnswer, Datagram!SendAnswerFails, Datagram!Answerable,
        Datagram!datagramVars
<1> HIDE DEF d
<1>4. replies[d] \in Seq(Messages)
  BY <1>0, <1>2 DEF DatagramTypes
<1>5. /\ Append(replies[d], buf[s]) \in Seq(Messages) /\ Len(replies[d]) \in Nat
      /\ Len(Append(replies[d], buf[s])) = Len(replies[d]) + 1
      /\ \A i \in 1 .. Len(replies[d]) : Append(replies[d], buf[s])[i] = replies[d][i]
      /\ Append(replies[d], buf[s])[Len(replies[d]) + 1] = buf[s]
  BY <1>2, <1>4, LastMessage
<1>6. DatagramTypes'
  BY <1>0, <1>1, <1>2, <1>3, <1>5 DEF DatagramTypes
<1>7. Sockets'
  BY <1>0, <1>1 DEF Sockets, DatagramTypes
<1>8. Names' /\ InTurn' /\ Awaited' = Awaited
  BY <1>0, <1>1, NamesSame, InTurnSame
<1>9. \A c \in Clients : \A r \in Servers : \A i \in Nat :
        Holds(c, r, i)' <=> Holds(c, r, i) /\ ~(r = s /\ i = 0)
  BY <1>1 DEF Holds, Datagram!Up
<1>10. Holds(d, s, 0) /\ \A c \in Clients \ {d} : ~Holds(c, s, 0)
  BY <1>1, <1>2 DEF Holds, Datagram!Up
<1>15. Datagram!Living(d) => Len(replies[d]) = 0
  <2> SUFFICES ASSUME Datagram!Living(d) PROVE Len(replies[d]) = 0
    OBVIOUS
  <2>1. Len(replies[d]) <= 1
    BY <1>0, <1>2 DEF AtMostOne
  <2>2. Len(replies[d]) # 1
    <3>1. 0 \in Nat
      OBVIOUS
    <3>. QED
      BY <1>0, <1>2, <1>10, <3>1 DEF AtMostOne
  <2>3. Len(replies[d]) \in Nat
    BY <1>5
  <2>4. \A n \in Nat : n <= 1 /\ n # 1 => n = 0
    OBVIOUS
  <2>. QED
    BY <2>1, <2>2, <2>3, <2>4
<1>11. OnTheirWay'
  <2>1. \A r \in Servers : Datagram!Up(r)' <=> Datagram!Up(r)
    BY <1>1 DEF Datagram!Up
  <2>2. ASSUME NEW c \in Clients, NEW i \in 1 .. Len(replies'[c])
        PROVE  replies'[c][i] \in Awaited /\ replies'[c][i].of = c
    <3>1. CASE replies' = replies \/ c # d
      <4>1. replies'[c] = replies[c]
        BY <1>0, <1>3, <3>1 DEF DatagramTypes
      <4>. QED
        BY <1>0, <2>2, <4>1 DEF OnTheirWay
    <3>2. CASE replies' # replies /\ c = d
      <4>1. replies'[c] = Append(replies[d], buf[s])
        BY <1>0, <1>2, <1>3, <3>2 DEF DatagramTypes
      <4>2. CASE i \in 1 .. Len(replies[d])
        BY <1>0, <1>5, <3>2, <4>1, <4>2 DEF OnTheirWay
      <4>3. CASE i = Len(replies[d]) + 1
        BY <1>2, <1>5, <3>2, <4>1, <4>3
      <4>. QED
        BY <1>5, <2>2, <4>1, <4>2, <4>3
    <3>. QED
      BY <3>1, <3>2
  <2>. QED
    BY <1>0, <1>1, <1>8, <2>1, <2>2 DEF OnTheirWay
<1>12. ASSUME NEW c \in Clients, Datagram!Living(c)
       PROVE  \/ replies'[c] = replies[c]
              \/ c = d /\ Len(replies[c]) = 0 /\ Len(replies'[c]) = 1
                 /\ \A r \in Servers : \A i \in Nat : ~Holds(c, r, i)'
  <2>1. CASE replies' = replies \/ c # d
    BY <1>0, <1>3, <2>1 DEF DatagramTypes
  <2>2. CASE replies' # replies /\ c = d
    <3>1. Len(replies'[c]) = Len(replies[c]) + 1
      BY <1>0, <1>2, <1>3, <1>5, <2>2 DEF DatagramTypes
    <3>2. Len(replies[c]) = 0
      BY <1>12, <1>15, <2>2
    <3>3. \A r \in Servers : \A i \in Nat : ~Holds(c, r, i)'
      BY <1>0, <1>9, <1>10, <1>12, <2>2 DEF AtMostOne
    <3>. QED
      BY <2>2, <3>1, <3>2, <3>3
  <2>. QED
    BY <2>1, <2>2
<1>13. AtMostOne'
  <2> SUFFICES ASSUME NEW c \in Clients, Datagram!Living(c)
               PROVE  /\ \A r, t \in Servers : \A i, k \in Nat :
                             Holds(c, r, i)' /\ Holds(c, t, k)' => r = t /\ i = k
                      /\ Len(replies'[c]) <= 1
                      /\ Len(replies'[c]) = 1 =>
                           \A r \in Servers : \A i \in Nat : ~Holds(c, r, i)'
                      /\ \A r \in Servers : \A i \in Nat : Holds(c, r, i)' => asked[c] = r
    BY <1>1 DEF AtMostOne, Datagram!Living
  <2>1. /\ \A r, t \in Servers : \A i, k \in Nat :
               Holds(c, r, i)' /\ Holds(c, t, k)' => r = t /\ i = k
        /\ \A r \in Servers : \A i \in Nat : Holds(c, r, i)' => asked[c] = r
    BY <1>0, <1>9 DEF AtMostOne
  <2>2. CASE replies'[c] = replies[c]
    BY <1>0, <1>9, <2>1, <2>2 DEF AtMostOne
  <2>3. CASE /\ Len(replies'[c]) = 1
             /\ \A r \in Servers : \A i \in Nat : ~Holds(c, r, i)'
    BY <2>1, <2>3
  <2>. QED
    BY <1>12, <2>2, <2>3
<1>14. OneUnlessDead'
  <2> SUFFICES ASSUME NEW c \in Clients, client[c] = "receive", asked[c] \notin killed
               PROVE  \/ \E r \in Servers : \E i \in Nat : Holds(c, r, i)'
                      \/ Len(replies'[c]) = 1
    BY <1>1 DEF OneUnlessDead
  <2>1. Datagram!Living(c)
    BY DEF Datagram!Living
  <2>2. CASE c = d
    <3>1. replies'[c] = Append(replies[d], buf[s])
      BY <1>0, <1>2, <1>3, <2>1, <2>2 DEF DatagramTypes
    <3>2. Len(Append(replies[d], buf[s])) = Len(replies[d]) + 1
      BY <1>5
    <3>3. Len(replies[d]) = 0
      BY <1>15, <2>1, <2>2
    <3>. QED
      BY <3>1, <3>2, <3>3
  <2>3. CASE c # d
    <3>1. replies'[c] = replies[c]
      BY <1>12, <2>1, <2>3
    <3>2. ASSUME NEW r \in Servers, NEW i \in Nat, Holds(c, r, i) PROVE Holds(c, r, i)'
      BY <1>9, <1>10, <2>3, <3>2
    <3>. QED
      BY <1>0, <3>1, <3>2 DEF OneUnlessDead
  <2>. QED
    BY <2>2, <2>3
<1>. QED
  BY <1>6, <1>7, <1>8, <1>11, <1>13, <1>14 DEF DatagramInv

LEMMA DatagramServerDies ==
  ASSUME DatagramInv, NEW s \in Servers, Datagram!KillServer(s)
  PROVE  DatagramInv'
<1>0. /\ DatagramTypes /\ Sockets /\ Names /\ OnTheirWay /\ AtMostOne
      /\ OneUnlessDead /\ InTurn
  BY DEF DatagramInv
<1>1. /\ server'[s] = "ended" /\ server[s] # "remove" /\ killed' = killed \cup {s}
      /\ \A r \in Servers \ {s} : server'[r] = server[r]
      /\ server' \in [Servers -> ServerPlaces]
      /\ UNCHANGED <<kind, path, client, buf, lengths, next, got, pid, name, inbox, replies, asked>>
  BY <1>0 DEF DatagramTypes, ServerPlaces, Datagram!KillServer, Datagram!datagramVars
<1>2. \A c \in Clients : c \in killed' <=> c \in killed
  BY <1>1, DatagramConstants
<1>3. DatagramTypes'
  BY <1>0, <1>1 DEF DatagramTypes
<1>4. Sockets'
  BY <1>0, <1>1 DEF Sockets, DatagramTypes
<1>5. Names'
  <2>1. \A p \in Pids : name[p] # None => name[p] \in Clients
    BY <1>0 DEF DatagramTypes
  <2>. QED
    BY <1>0, <1>1, <1>2, <2>1 DEF Names, Datagram!Living
<1>6. Awaited' = Awaited
  BY <1>1, <1>2 DEF Awaited, Expects, Messages
<1>7. InTurn'
  BY <1>0, <1>1, InTurnSame
<1>8. \A c \in Clients : \A r \in Servers : \A i \in Nat :
        Holds(c, r, i)' <=> Holds(c, r, i) /\ r # s
  BY <1>1 DEF Holds, Datagram!Up
<1>9. OnTheirWay'
  BY <1>0, <1>1, <1>6 DEF OnTheirWay, Datagram!Up
<1>10. AtMostOne'
  BY <1>0, <1>1, <1>8 DEF AtMostOne, Datagram!Living
<1>11. OneUnlessDead'
  <2> SUFFICES ASSUME NEW c \in Clients, client[c] = "receive", asked[c] \notin killed'
               PROVE  \/ \E r \in Servers : \E i \in Nat : Holds(c, r, i)'
                      \/ Len(replies[c]) = 1
    BY <1>1 DEF OneUnlessDead
  <2>1. \A i \in Nat : ~Holds(c, s, i)
    BY <1>0, <1>1 DEF AtMostOne, Datagram!Living
  <2>. QED
    BY <1>0, <1>1, <1>8, <2>1 DEF OneUnlessDead
<1>. QED
  BY <1>3, <1>4, <1>5, <1>7, <1>9, <1>10, <1>11 DEF DatagramInv

-----------------------------------------------------------------------------
(* The steps of a client *)

\* What is held is awaited.
LEMMA HeldMessage ==
  ASSUME DatagramInv, NEW c \in Clients, NEW s \in Servers, NEW i \in Nat, Holds(c, s, i)
  PROVE  \E m \in Awaited : m.of = c
<1>1. OnTheirWay
  BY DEF DatagramInv
<1>2. CASE i \in 1 .. Len(inbox[s]) /\ inbox[s][i].of = c
  BY <1>1, <1>2 DEF OnTheirWay, Holds
<1>3. CASE server[s] = "send" /\ buf[s].of = c
  BY <1>1, <1>3 DEF OnTheirWay
<1>. QED
  BY <1>2, <1>3 DEF Holds

\* A client that has its name, or none yet, and does not wait has nothing on its way.
LEMMA NothingHeld ==
  ASSUME DatagramInv, NEW c \in Clients, client[c] \in {"start", "send", "remove"}
  PROVE  /\ \A m \in Awaited : m.of # c
         /\ \A s \in Servers : \A i \in Nat : ~Holds(c, s, i)
         /\ replies[c] = << >> /\ Len(replies[c]) = 0
<1>1. DatagramTypes /\ Names /\ OnTheirWay
  BY DEF DatagramInv
<1>2. \A m \in Awaited : m.of # c
  BY <1>1 DEF Awaited, Expects, Names
<1>3. \A s \in Servers : \A i \in Nat : ~Holds(c, s, i)
  BY <1>2, HeldMessage
<1>4. replies[c] \in Seq(Messages)
  BY <1>1 DEF DatagramTypes
<1>5. ASSUME replies[c] # << >> PROVE FALSE
  <2>1. 1 \in 1 .. Len(replies[c])
    BY <1>4, <1>5, FirstMessage
  <2>. QED
    BY <1>1, <1>2, <2>1 DEF OnTheirWay
<1>. QED
  BY <1>2, <1>3, <1>5, EmptySeq

\* A step of c that leaves what servers have, and what is awaited by others.
LEMMA OthersUntouched ==
  ASSUME DatagramInv, NEW c \in Clients,
         UNCHANGED <<path, server, buf, inbox>>, killed' \cap Servers = killed \cap Servers,
         \A m \in Awaited : m.of # c => m \in Awaited',
         \A s \in Servers : \A i \in Nat : ~Holds(c, s, i),
         \A d \in Clients \ {c} : replies'[d] = replies[d] /\ client'[d] = client[d]
                                  /\ asked'[d] = asked[d],
         Len(replies'[c]) = 0, client'[c] # "receive"
  PROVE  Sockets' /\ OnTheirWay' /\ AtMostOne' /\ OneUnlessDead'
<1>0. /\ DatagramTypes /\ Sockets /\ Names /\ OnTheirWay /\ AtMostOne
      /\ OneUnlessDead /\ InTurn
  BY DEF DatagramInv
<1>1. Sockets'
  BY <1>0 DEF Sockets
<1>2. \A d \in Clients : \A s \in Servers : \A i \in Nat : Holds(d, s, i)' <=> Holds(d, s, i)
  BY DEF Holds, Datagram!Up
<1>3. OnTheirWay'
  <2>1. ASSUME NEW s \in Servers, Datagram!Up(s), NEW i \in 1 .. Len(inbox[s])
        PROVE  inbox[s][i] \in Awaited'
    <3>1. inbox[s][i] \in Awaited /\ i \in Nat
      BY <1>0, <2>1 DEF OnTheirWay
    <3>2. inbox[s][i].of # c
      BY <2>1, <3>1 DEF Holds
    <3>. QED
      BY <3>1, <3>2
  <2>2. ASSUME NEW s \in Servers, server[s] = "send" PROVE buf[s] \in Awaited'
    <3>1. buf[s] \in Awaited
      BY <1>0, <2>2 DEF OnTheirWay
    <3>2. buf[s].of # c
      BY <2>2 DEF Holds, Datagram!Up
    <3>. QED
      BY <3>1, <3>2
  <2>3. ASSUME NEW d \in Clients, NEW i \in 1 .. Len(replies'[d])
        PROVE  replies'[d][i] \in Awaited' /\ replies'[d][i].of = d
    <3>1. d # c
      BY <2>3
    <3>. QED
      BY <1>0, <2>3, <3>1 DEF OnTheirWay
  <2>. QED
    BY <2>1, <2>2, <2>3 DEF OnTheirWay, Datagram!Up
<1>4. AtMostOne'
  <2>1. ASSUME NEW d \in Clients, Datagram!Living(d)', d # c
        PROVE  Datagram!Living(d) /\ replies'[d] = replies[d] /\ asked'[d] = asked[d]
    BY <2>1 DEF Datagram!Living
  <2>2. Len(replies'[c]) <= 1 /\ Len(replies'[c]) # 1
    OBVIOUS
  <2>. QED
    BY <1>0, <1>2, <2>1, <2>2 DEF AtMostOne
<1>5. OneUnlessDead'
  <2>1. \A d \in Clients : asked[d] \in killed => asked[d] \in killed'
    BY <1>0, DatagramConstants DEF DatagramTypes
  <2>. QED
    BY <1>0, <1>2, <2>1 DEF OneUnlessDead
<1>. QED
  BY <1>1, <1>3, <1>4, <1>5

LEMMA DatagramBind ==
  ASSUME DatagramInv, NEW c \in Clients,
         Datagram!ClientBind(c) \/ Datagram!ClientBindFails(c)
  PROVE  DatagramInv'
<1>0. DatagramTypes /\ Names /\ InTurn
  BY DEF DatagramInv
<1>1. /\ client[c] = "start" /\ client'[c] \in {"send", "ended"}
      /\ client' \in [Clients -> ClientPlaces]
      /\ \A d \in Clients \ {c} : client'[d] = client[d]
      /\ UNCHANGED <<kind, path, server, killed, buf, lengths, next, got, pid, inbox,
                     replies, asked>>
      /\ \A d \in Clients : Datagram!Living(d) => pid[d] # pid[c]
  BY <1>0 DEF DatagramTypes, ClientPlaces, Datagram!ClientBind, Datagram!ClientBindFails,
        Datagram!Move, Datagram!Start, Datagram!datagramVars
<1>2. /\ pid[c] \in Pids /\ name' \in [Pids -> Clients \cup {None}]
      /\ \A p \in Pids \ {pid[c]} : name'[p] = name[p]
      /\ \/ client'[c] = "send" /\ name[pid[c]] = None /\ name'[pid[c]] = c
         \/ client'[c] = "ended" /\ name'[pid[c]] = name[pid[c]]
  <2>1. pid[c] \in Pids /\ name \in [Pids -> Clients \cup {None}]
        /\ client \in [Clients -> ClientPlaces]
    BY <1>0 DEF DatagramTypes
  <2>2. CASE Datagram!ClientBind(c)
    BY <2>1, <2>2 DEF Datagram!ClientBind, Datagram!Move
  <2>3. CASE Datagram!ClientBindFails(c)
    BY <2>1, <2>3 DEF Datagram!ClientBindFails, Datagram!Move, Datagram!datagramVars
  <2>. QED
    BY <2>2, <2>3
<1>3. /\ \A m \in Awaited : m.of # c
      /\ \A s \in Servers : \A i \in Nat : ~Holds(c, s, i)
      /\ replies[c] = << >> /\ Len(replies[c]) = 0
  BY <1>1, NothingHeld
<1>4. DatagramTypes'
  BY <1>0, <1>1, <1>2 DEF DatagramTypes
<1>5. Names'
  <2>1. ASSUME NEW p \in Pids, name'[p] # None
        PROVE  /\ pid[name'[p]] = p /\ client'[name'[p]] # "start"
               /\ client'[name'[p]] = "ended" => name'[p] \in killed
    <3>1. CASE name'[p] = name[p]
      <4>1. name[p] \in Clients \ {c}
        BY <1>0, <1>1, <2>1, <3>1 DEF DatagramTypes, Names
      <4>. QED
        BY <1>0, <1>1, <2>1, <3>1, <4>1 DEF Names
    <3>2. CASE name'[p] # name[p]
      BY <1>1, <1>2, <2>1, <3>2
    <3>. QED
      BY <3>1, <3>2
  <2>2. ASSUME NEW d \in Clients, client'[d] \notin {"start", "ended"} PROVE name'[pid[d]] = d
    BY <1>0, <1>1, <1>2, <2>2 DEF Names, DatagramTypes, Datagram!Living
  <2>3. ASSUME NEW d \in Clients
        PROVE  /\ d \in killed => client'[d] = "ended"
               /\ client'[d] \in {"start", "send", "receive"} => next[d] <= Len(lengths[d])
    BY <1>0, <1>1 DEF Names
  <2>. QED
    BY <1>1, <2>1, <2>2, <2>3 DEF Names, Datagram!Living
<1>6. ASSUME NEW m \in Awaited, m.of # c PROVE m \in Awaited'
  <2>1. m \in Messages /\ m.from \in Pids /\ m.of \in Clients /\ name[m.from] = m.of
    BY DEF Awaited, Messages
  <2>2. name'[m.from] = m.of
    BY <1>2, <2>1, DatagramConstants
  <2>. QED
    BY <1>1, <1>6, <2>1, <2>2 DEF Awaited, Expects
<1>7. Sockets' /\ OnTheirWay' /\ AtMostOne' /\ OneUnlessDead'
  BY <1>1, <1>3, <1>6, OthersUntouched
<1>8. InTurn'
  BY <1>0, <1>1, InTurnSame
<1>. QED
  BY <1>4, <1>5, <1>7, <1>8 DEF DatagramInv

LEMMA DatagramSendFails ==
  ASSUME DatagramInv, NEW c \in Clients, Datagram!SendFails(c)
  PROVE  DatagramInv'
<1>0. DatagramTypes /\ Names /\ InTurn
  BY DEF DatagramInv
<1>1. /\ client[c] = "send"
      /\ client'[c] = IF next[c] < Len(lengths[c]) THEN "send" ELSE "remove"
      /\ next'[c] = next[c] + 1
      /\ \A d \in Clients \ {c} : client'[d] = client[d] /\ next'[d] = next[d]
      /\ client' \in [Clients -> ClientPlaces] /\ next' \in [Clients -> Nat \ {0}]
      /\ UNCHANGED <<kind, path, server, killed, buf, lengths, got, pid, name, inbox,
                     replies, asked>>
  BY <1>0 DEF DatagramTypes, ClientPlaces, Datagram!SendFails, Datagram!Advance,
        Datagram!Move
<1>2. next[c] \in Nat /\ Len(lengths[c]) \in Nat
  BY <1>0, DatagramConstants DEF DatagramTypes
<1>3. /\ \A m \in Awaited : m.of # c
      /\ \A s \in Servers : \A i \in Nat : ~Holds(c, s, i)
      /\ replies[c] = << >> /\ Len(replies[c]) = 0
  BY <1>1, NothingHeld
<1>4. DatagramTypes'
  BY <1>0, <1>1 DEF DatagramTypes
<1>5. Names'
  <2>1. \A p \in Pids : name[p] # None => name[p] \in Clients
    BY <1>0 DEF DatagramTypes
  <2>2. c \notin killed
    BY <1>0, <1>1 DEF Names
  <2>3. client'[c] = "send" => next'[c] <= Len(lengths[c])
    BY <1>1, <1>2
  <2>4. client'[c] \in {"send", "remove"}
    BY <1>1
  <2>. QED
    BY <1>0, <1>1, <2>1, <2>2, <2>3, <2>4 DEF Names, Datagram!Living
<1>6. ASSUME NEW m \in Awaited, m.of # c PROVE m \in Awaited'
  BY <1>1, <1>6 DEF Awaited, Expects, Messages
<1>7. Sockets' /\ OnTheirWay' /\ AtMostOne' /\ OneUnlessDead'
  BY <1>1, <1>3, <1>6, OthersUntouched
<1>8. InTurn'
  <2> SUFFICES ASSUME NEW d \in Clients, NEW i \in 1 .. Len(got[d])
               PROVE  got[d][i].nr < next'[d]
    BY <1>0, <1>1 DEF InTurn
  <2>0. got[d] \in Seq(Messages) /\ next[d] \in Nat
    BY <1>0 DEF DatagramTypes
  <2>2. got[d][i] \in Messages
    BY <2>0, ElementOfSeq
  <2>1. got[d][i].nr < next[d] /\ got[d][i].nr \in Nat /\ next[d] \in Nat
    BY <1>0, <2>0, <2>2 DEF InTurn, Messages
  <2>. QED
    BY <1>1, <2>1
<1>. QED
  BY <1>4, <1>5, <1>7, <1>8 DEF DatagramInv

\* The name goes with its client.
LEMMA DatagramEnds ==
  ASSUME DatagramInv, NEW c \in Clients, Datagram!RemoveName(c)
  PROVE  DatagramInv'
<1>0. DatagramTypes /\ Names /\ InTurn
  BY DEF DatagramInv
<1>1. /\ client[c] = "remove" /\ client'[c] = "ended" /\ pid[c] \in Pids
      /\ \A d \in Clients \ {c} : client'[d] = client[d]
      /\ client' \in [Clients -> ClientPlaces]
      /\ name' \in [Pids -> Clients \cup {None}]
      /\ name'[pid[c]] = None /\ \A p \in Pids \ {pid[c]} : name'[p] = name[p]
      /\ UNCHANGED <<kind, path, server, killed, buf, lengths, next, got, pid, inbox,
                     replies, asked>>
  BY <1>0 DEF DatagramTypes, ClientPlaces, Datagram!RemoveName, Datagram!Move
<1>2. name[pid[c]] = c
  BY <1>0, <1>1 DEF Names, Datagram!Living
<1>3. /\ \A m \in Awaited : m.of # c
      /\ \A s \in Servers : \A i \in Nat : ~Holds(c, s, i)
      /\ replies[c] = << >> /\ Len(replies[c]) = 0
  BY <1>1, NothingHeld
<1>4. DatagramTypes'
  BY <1>0, <1>1 DEF DatagramTypes
<1>5. Names'
  <2>1. ASSUME NEW p \in Pids, name'[p] # None
        PROVE  /\ pid[name'[p]] = p /\ client'[name'[p]] # "start"
               /\ client'[name'[p]] = "ended" => name'[p] \in killed
    <3>1. p # pid[c] /\ name'[p] = name[p]
      BY <1>1, <2>1
    <3>2. name[p] \in Clients \ {c}
      BY <1>0, <2>1, <3>1 DEF DatagramTypes, Names
    <3>. QED
      BY <1>0, <1>1, <2>1, <3>1, <3>2 DEF Names
  <2>2. ASSUME NEW d \in Clients, client'[d] \notin {"start", "ended"} PROVE name'[pid[d]] = d
    <3>1. d # c /\ name[pid[d]] = d /\ pid[d] \in Pids
      BY <1>0, <1>1, <2>2 DEF Names, DatagramTypes, Datagram!Living
    <3>. QED
      BY <1>1, <1>2, <3>1
  <2>3. ASSUME NEW d \in Clients
        PROVE  /\ d \in killed => client'[d] = "ended"
               /\ client'[d] \in {"start", "send", "receive"} => next[d] <= Len(lengths[d])
    BY <1>0, <1>1 DEF Names
  <2>. QED
    BY <1>1, <2>1, <2>2, <2>3 DEF Names, Datagram!Living
<1>6. ASSUME NEW m \in Awaited, m.of # c PROVE m \in Awaited'
  <2>1. m \in Messages /\ m.from \in Pids /\ m.of \in Clients /\ name[m.from] = m.of
    BY DEF Awaited, Messages
  <2>2. name'[m.from] = m.of
    BY <1>1, <1>2, <1>6, <2>1
  <2>. QED
    BY <1>1, <1>6, <2>1, <2>2 DEF Awaited, Expects
<1>7. Sockets' /\ OnTheirWay' /\ AtMostOne' /\ OneUnlessDead'
  BY <1>1, <1>3, <1>6, OthersUntouched
<1>8. InTurn'
  BY <1>0, <1>1, InTurnSame
<1>. QED
  BY <1>4, <1>5, <1>7, <1>8 DEF DatagramInv

LEMMA DatagramClientDies ==
  ASSUME DatagramInv, NEW c \in Clients, Datagram!KillClient(c)
  PROVE  DatagramInv'
<1>0. /\ DatagramTypes /\ Sockets /\ Names /\ OnTheirWay /\ AtMostOne
      /\ OneUnlessDead /\ InTurn
  BY DEF DatagramInv
<1>1. /\ client[c] \notin {"start", "ended"} /\ client'[c] = "ended" /\ killed' = killed \cup {c}
      /\ \A d \in Clients \ {c} : client'[d] = client[d]
      /\ client' \in [Clients -> ClientPlaces]
      /\ UNCHANGED <<kind, path, server, buf, lengths, next, got, pid, name, inbox,
                     replies, asked>>
  BY <1>0 DEF DatagramTypes, ClientPlaces, Datagram!KillClient, Datagram!Living,
        Datagram!datagramVars
<1>2. \A s \in Servers : s \in killed' <=> s \in killed
  BY <1>1, DatagramConstants
<1>3. \A d \in Clients : asked[d] \in killed' <=> asked[d] \in killed
  BY <1>0, <1>1, DatagramConstants DEF DatagramTypes
<1>4. DatagramTypes'
  BY <1>0, <1>1 DEF DatagramTypes
<1>5. Sockets'
  BY <1>0, <1>1, <1>2 DEF Sockets
<1>6. Names'
  <2>1. \A p \in Pids : name[p] # None => name[p] \in Clients
    BY <1>0 DEF DatagramTypes
  <2>. QED
    BY <1>0, <1>1, <2>1 DEF Names, Datagram!Living
<1>7. \A m \in Awaited : m \in Awaited'
  BY <1>1 DEF Awaited, Expects, Messages
<1>8. \A d \in Clients : \A s \in Servers : \A i \in Nat : Holds(d, s, i)' <=> Holds(d, s, i)
  BY <1>1 DEF Holds, Datagram!Up
<1>9. OnTheirWay'
  BY <1>0, <1>1, <1>7 DEF OnTheirWay, Datagram!Up
<1>10. AtMostOne' /\ OneUnlessDead'
  BY <1>0, <1>1, <1>3, <1>8 DEF AtMostOne, OneUnlessDead, Datagram!Living
<1>11. InTurn'
  BY <1>0, <1>1, InTurnSame
<1>. QED
  BY <1>4, <1>5, <1>6, <1>9, <1>10, <1>11 DEF DatagramInv

LEMMA DatagramInit ==
  ASSUME Datagram!Init
  PROVE  DatagramInv
<1> USE DatagramConstants DEF Datagram!Init
<1>1. DatagramTypes
  BY EmptySeq DEF DatagramTypes, ServerPlaces, ClientPlaces
<1>2. Len(<< >>) = 0 /\ \A c \in Clients : got[c] = << >> /\ replies[c] = << >> /\ lengths[c] \in Arguments
  BY EmptySeq
<1>3. Sockets /\ Names
  BY <1>1, <1>2 DEF Sockets, Names, Datagram!Living
<1>4. \A c \in Clients : \A s \in Servers : \A i \in Nat : ~Holds(c, s, i)
  BY <1>2 DEF Holds
<1>5. OnTheirWay /\ AtMostOne /\ OneUnlessDead /\ InTurn
  BY <1>2, <1>4 DEF OnTheirWay, AtMostOne, OneUnlessDead, InTurn, Datagram!Living
<1>. QED
  BY <1>1, <1>3, <1>5 DEF DatagramInv

\* The message of c goes to the end of the inbox.
LEMMA DatagramSends ==
  ASSUME DatagramInv, NEW c \in Clients, Datagram!Send(c)
  PROVE  DatagramInv'
<1> DEFINE m == Datagram!Message(c, next[c])
           n == Len(inbox[path]) + 1
<1>0. /\ DatagramTypes /\ Sockets /\ Names /\ OnTheirWay /\ AtMostOne
      /\ OneUnlessDead /\ InTurn
  BY DEF DatagramInv
<1>1. /\ client[c] = "send" /\ client'[c] = "receive" /\ path \in Servers /\ path # None
      /\ Datagram!Up(path) /\ Len(inbox[path]) <= QueueLimit
      /\ \A d \in Clients \ {c} : client'[d] = client[d] /\ asked'[d] = asked[d]
      /\ asked'[c] = path /\ asked' \in [Clients -> Servers \cup {None}]
      /\ client' \in [Clients -> ClientPlaces]
      /\ inbox' = [inbox EXCEPT ![path] = Append(inbox[path], m)]
      /\ inbox[path] \in Seq(Messages)
      /\ UNCHANGED <<kind, path, server, killed, buf, lengths, next, got, pid, name, replies>>
  BY <1>0 DEF DatagramTypes, ClientPlaces, Datagram!Send, Datagram!Move, Datagram!Reachable,
        Datagram!HasRoom
<1>2. /\ next[c] \in 1 .. Len(lengths[c]) /\ m.of = c /\ m.from = pid[c] /\ m.nr = next[c]
      /\ m.length = lengths[c][next[c]] /\ c \notin killed /\ name[pid[c]] = c
  <2>1. lengths[c] \in Arguments /\ next[c] \in Nat \ {0}
    BY <1>0 DEF DatagramTypes
  <2>2. Len(lengths[c]) \in Nat
    BY <2>1, DatagramConstants
  <2>3. next[c] <= Len(lengths[c]) /\ c \notin killed /\ name[pid[c]] = c
    BY <1>0, <1>1 DEF Names, Datagram!Living
  <2>. QED
    BY <2>1, <2>2, <2>3 DEF Datagram!Message
<1>3. m \in Messages
  BY <1>0, <1>2, MessageOf
<1>4. /\ \A k \in Awaited : k.of # c
      /\ \A s \in Servers : \A i \in Nat : ~Holds(c, s, i)
      /\ replies[c] = << >> /\ Len(replies[c]) = 0
  BY <1>1, NothingHeld
<1> HIDE DEF m
<1>5. /\ Append(inbox[path], m) \in Seq(Messages)
      /\ Len(inbox[path]) \in Nat /\ Len(Append(inbox[path], m)) = n
      /\ \A i \in 1 .. Len(inbox[path]) : Append(inbox[path], m)[i] = inbox[path][i]
      /\ Append(inbox[path], m)[n] = m
  BY <1>1, <1>3, LastMessage
<1>6. /\ inbox'[path] = Append(inbox[path], m) /\ inbox' \in [Servers -> Seq(Messages)]
      /\ \A s \in Servers \ {path} : inbox'[s] = inbox[s]
  BY <1>0, <1>1, <1>5 DEF DatagramTypes
<1>7. DatagramTypes'
  BY <1>0, <1>1, <1>6 DEF DatagramTypes
<1>8. Sockets'
  <2>1. Len(inbox'[path]) <= QueueLimit + 1
    BY <1>1, <1>5, <1>6, DatagramConstants
  <2>2. server[path] \notin {"remove", "bind"}
    BY <1>0, <1>1 DEF Sockets
  <2>. QED
    BY <1>0, <1>1, <1>6, <2>1, <2>2 DEF Sockets
<1>9. Names'
  <2>1. \A p \in Pids : name[p] # None => name[p] \in Clients
    BY <1>0 DEF DatagramTypes
  <2>. QED
    BY <1>0, <1>1, <1>2, <2>1 DEF Names, Datagram!Living
<1>10. m \in Awaited' /\ \A k \in Awaited : k \in Awaited'
  <2>1. m \in Awaited'
    BY <1>1, <1>2, <1>3 DEF Awaited, Expects
  <2>2. ASSUME NEW k \in Awaited PROVE k \in Awaited'
    <3>1. k.of # c
      BY <1>4
    <3>. QED
      BY <1>1, <3>1 DEF Awaited, Expects, Messages
  <2>. QED
    BY <2>1, <2>2
<1>11. \A d \in Clients : \A s \in Servers : \A i \in Nat :
         Holds(d, s, i)' <=> Holds(d, s, i) \/ (d = c /\ s = path /\ i = n)
  <2>1. ASSUME NEW d \in Clients, NEW i \in Nat
        PROVE  Holds(d, path, i)' <=> Holds(d, path, i) \/ (d = c /\ i = n)
    <3>1. CASE i = n
      BY <1>1, <1>2, <1>5, <1>6, <3>1 DEF Holds, Datagram!Up
    <3>2. CASE i # n
      BY <1>1, <1>5, <1>6, <3>2 DEF Holds, Datagram!Up
    <3>. QED
      BY <3>1, <3>2
  <2>2. ASSUME NEW d \in Clients, NEW s \in Servers \ {path}, NEW i \in Nat
        PROVE  Holds(d, s, i)' <=> Holds(d, s, i)
    BY <1>1, <1>6 DEF Holds, Datagram!Up
  <2>3. \A d \in Clients : \A s \in Servers : s = path \/ s \in Servers \ {path}
    OBVIOUS
  <2>. QED
    BY <1>1, <2>1, <2>2, <2>3, Zenon
<1>12. OnTheirWay'
  <2>1. ASSUME NEW s \in Servers, Datagram!Up(s), NEW i \in 1 .. Len(inbox'[s])
        PROVE  inbox'[s][i] \in Awaited'
    <3>1. CASE s # path
      BY <1>0, <1>6, <1>10, <2>1, <3>1 DEF OnTheirWay
    <3>2. CASE s = path /\ i = n
      BY <1>5, <1>6, <1>10, <3>2
    <3>3. CASE s = path /\ i # n
      <4>1. i \in 1 .. Len(inbox[path])
        BY <1>5, <1>6, <2>1, <3>3
      <4>. QED
        BY <1>0, <1>5, <1>6, <1>10, <2>1, <3>3, <4>1 DEF OnTheirWay
    <3>. QED
      BY <3>1, <3>2, <3>3
  <2>. QED
    BY <1>0, <1>1, <1>10, <2>1 DEF OnTheirWay, Datagram!Up
<1>13. AtMostOne'
  <2> SUFFICES ASSUME NEW d \in Clients, client'[d] \notin {"start", "ended"}
               PROVE  /\ \A s, t \in Servers : \A i, k \in Nat :
                             Holds(d, s, i)' /\ Holds(d, t, k)' => s = t /\ i = k
                      /\ Len(replies[d]) <= 1
                      /\ Len(replies[d]) = 1 => \A s \in Servers : \A i \in Nat : ~Holds(d, s, i)'
                      /\ \A s \in Servers : \A i \in Nat : Holds(d, s, i)' => asked'[d] = s
    BY <1>1 DEF AtMostOne, Datagram!Living
  <2>1. CASE d = c
    <3>1. \A s \in Servers : \A i \in Nat : Holds(d, s, i)' => s = path /\ i = n
      BY <1>4, <1>11, <2>1
    <3>2. asked'[d] = path /\ Len(replies[d]) = 0
      BY <1>1, <1>4, <2>1
    <3>3. Len(replies[d]) <= 1 /\ Len(replies[d]) # 1
      BY <3>2
    <3>. QED
      BY <3>1, <3>2, <3>3
  <2>2. CASE d # c
    <3>1. Datagram!Living(d) /\ asked'[d] = asked[d]
      BY <1>1, <2>2 DEF Datagram!Living
    <3>2. \A s \in Servers : \A i \in Nat : Holds(d, s, i)' <=> Holds(d, s, i)
      BY <1>11, <2>2
    <3>. QED
      BY <1>0, <3>1, <3>2 DEF AtMostOne
  <2>. QED
    BY <2>1, <2>2
<1>14. OneUnlessDead'
  <2>1. n \in Nat
    BY <1>5
  <2>. QED
    BY <1>0, <1>1, <1>11, <2>1 DEF OneUnlessDead
<1>15. InTurn'
  BY <1>0, <1>1, InTurnSame
<1>. QED
  BY <1>7, <1>8, <1>9, <1>12, <1>13, <1>14, <1>15 DEF DatagramInv

\* What c receives is the answer to the message it has just sent.
LEMMA DatagramReceives ==
  ASSUME DatagramInv, NEW c \in Clients, Datagram!Receive(c)
  PROVE  DatagramInv'
<1> DEFINE m == Head(replies[c])
           t == Datagram!Truncated(m)
           n == Len(got[c]) + 1
<1>0. DatagramTypes /\ Names /\ OnTheirWay /\ AtMostOne /\ InTurn
  BY DEF DatagramInv
<1>1. /\ client[c] = "receive" /\ replies[c] # << >>
      /\ client'[c] = IF next[c] < Len(lengths[c]) THEN "send" ELSE "remove"
      /\ next'[c] = next[c] + 1 /\ next[c] \in Nat \ {0}
      /\ \A d \in Clients \ {c} : client'[d] = client[d] /\ next'[d] = next[d]
      /\ client' \in [Clients -> ClientPlaces] /\ next' \in [Clients -> Nat \ {0}]
      /\ got' = [got EXCEPT ![c] = Append(got[c], t)]
      /\ replies' = [replies EXCEPT ![c] = Tail(replies[c])]
      /\ UNCHANGED <<kind, path, server, killed, buf, lengths, pid, name, inbox, asked>>
      /\ replies[c] \in Seq(Messages) /\ got[c] \in Seq(Messages)
  BY <1>0 DEF DatagramTypes, ClientPlaces, Datagram!Receive, Datagram!Advance, Datagram!Move
<1>2. /\ m \in Messages /\ m = replies[c][1] /\ 1 \in 1 .. Len(replies[c])
      /\ Len(replies[c]) \in Nat /\ Tail(replies[c]) \in Seq(Messages)
      /\ Len(Tail(replies[c])) = Len(replies[c]) - 1
  BY <1>1, FirstMessage
<1>3. m \in Awaited /\ m.of = c /\ m.nr = next[c] /\ m.from = pid[c]
      /\ Cut(m.length) = Cut(lengths[c][next[c]])
  <2>1. m \in Awaited /\ m.of = c
    BY <1>0, <1>2 DEF OnTheirWay
  <2>2. c \notin killed
    BY <1>0, <1>1 DEF Names
  <2>. QED
    BY <2>1, <2>2 DEF Awaited, Expects
<1>4. /\ t \in Messages /\ t.of = c /\ t.nr = next[c] /\ t.from = pid[c]
      /\ t.length = Cut(lengths[c][next[c]])
  BY <1>2, <1>3, TruncatedMessage
<1> HIDE DEF m, t
<1>5. Len(replies[c]) = 1
  <2>1. Len(replies[c]) <= 1
    BY <1>0, <1>1 DEF AtMostOne, Datagram!Living
  <2>2. \A k \in Nat : 1 \in 1 .. k /\ k <= 1 => k = 1
    OBVIOUS
  <2>. QED
    BY <1>2, <2>1, <2>2
<1>6. \A s \in Servers : \A i \in Nat : ~Holds(c, s, i)
  BY <1>0, <1>1, <1>5 DEF AtMostOne, Datagram!Living
<1>7. /\ Append(got[c], t) \in Seq(Messages)
      /\ Len(got[c]) \in Nat /\ Len(Append(got[c], t)) = n
      /\ \A i \in 1 .. Len(got[c]) : Append(got[c], t)[i] = got[c][i]
      /\ Append(got[c], t)[n] = t
  BY <1>1, <1>4, LastMessage
<1>8. /\ got'[c] = Append(got[c], t) /\ replies'[c] = Tail(replies[c])
      /\ \A d \in Clients \ {c} : got'[d] = got[d] /\ replies'[d] = replies[d]
      /\ got' \in [Clients -> Seq(Messages)] /\ replies' \in [Clients -> Seq(Messages)]
  BY <1>0, <1>1, <1>2, <1>7 DEF DatagramTypes
<1>9. Len(replies'[c]) = 0
  BY <1>2, <1>5, <1>8
<1>10. DatagramTypes'
  BY <1>0, <1>1, <1>8 DEF DatagramTypes
<1>11. Names'
  <2>1. \A p \in Pids : name[p] # None => name[p] \in Clients
    BY <1>0 DEF DatagramTypes
  <2>2. c \notin killed /\ Len(lengths[c]) \in Nat
    BY <1>0, <1>1, DatagramConstants DEF Names, DatagramTypes
  <2>3. client'[c] = "send" => next'[c] <= Len(lengths[c])
    BY <1>1, <2>2
  <2>4. client'[c] \in {"send", "remove"}
    BY <1>1
  <2>. QED
    BY <1>0, <1>1, <2>1, <2>2, <2>3, <2>4 DEF Names, Datagram!Living
<1>12. ASSUME NEW k \in Awaited, k.of # c PROVE k \in Awaited'
  BY <1>1, <1>12 DEF Awaited, Expects, Messages
<1>13. Sockets' /\ OnTheirWay' /\ AtMostOne' /\ OneUnlessDead'
  <2>1. client'[c] # "receive"
    BY <1>1
  <2>. QED
    BY <1>1, <1>6, <1>8, <1>9, <1>12, <2>1, OthersUntouched
<1>14. InTurn'
  <2>1. ASSUME NEW d \in Clients \ {c}
        PROVE  /\ \A i \in 1 .. Len(got'[d]) :
                    /\ got'[d][i].of = d /\ got'[d][i].from = pid[d]
                    /\ got'[d][i].length = Cut(lengths[d][got'[d][i].nr])
                    /\ got'[d][i].nr < next'[d]
               /\ \A i \in 1 .. Len(got'[d]) : i > 1 => got'[d][i - 1].nr < got'[d][i].nr
    <3>1. got'[d] = got[d] /\ next'[d] = next[d]
      BY <1>1, <1>8
    <3>. QED
      BY <1>0, <3>1 DEF InTurn
  <2>2. ASSUME NEW i \in 1 .. Len(got[c])
        PROVE  /\ got'[c][i] = got[c][i] /\ got[c][i].nr \in Nat
               /\ got[c][i].of = c /\ got[c][i].from = pid[c]
               /\ got[c][i].length = Cut(lengths[c][got[c][i].nr])
               /\ got[c][i].nr < next[c]
               /\ i > 1 => got[c][i - 1].nr < got[c][i].nr
    <3>1. got[c][i] \in Messages
      BY <1>1, ElementOfSeq
    <3>2. got[c][i].nr \in Nat
      BY <3>1 DEF Messages
    <3>. QED
      BY <1>0, <1>7, <1>8, <3>2 DEF InTurn
  <2>3. ASSUME NEW i \in 1 .. n
        PROVE  /\ got'[c][i].of = c /\ got'[c][i].from = pid[c]
               /\ got'[c][i].length = Cut(lengths[c][got'[c][i].nr])
               /\ got'[c][i].nr < next'[c]
    <3>1. CASE i \in 1 .. Len(got[c])
      BY <1>1, <2>2, <3>1
    <3>2. CASE i = n
      BY <1>1, <1>4, <1>7, <1>8, <3>2
    <3>. QED
      BY <1>7, <3>1, <3>2
  <2>4. ASSUME NEW i \in 1 .. n, i > 1 PROVE got'[c][i - 1].nr < got'[c][i].nr
    <3>1. i - 1 \in 1 .. Len(got[c])
      BY <1>7, <2>4
    <3>2. CASE i \in 1 .. Len(got[c])
      BY <2>2, <2>4, <3>1, <3>2
    <3>3. CASE i = n
      <4>1. got'[c][i] = t
        BY <1>7, <1>8, <3>3
      <4>2. got'[c][i - 1] = got[c][i - 1] /\ got[c][i - 1].nr < next[c]
        BY <2>2, <3>1
      <4>. QED
        BY <1>4, <4>1, <4>2
    <3>. QED
      BY <1>7, <3>2, <3>3
  <2>5. Len(got'[c]) = n
    BY <1>7, <1>8
  <2>. QED
    BY <1>1, <2>1, <2>3, <2>4, <2>5 DEF InTurn
<1>. QED
  BY <1>10, <1>11, <1>13, <1>14 DEF DatagramInv

\* Every step of the datagram programs.
LEMMA DatagramStep ==
  ASSUME DatagramInv, Datagram!Next
  PROVE  DatagramInv'
<1>1. ASSUME NEW s \in Servers,
             Datagram!RemovePath(s) \/ Datagram!ServerStep(s) \/ Datagram!KillServer(s)
      PROVE  DatagramInv'
  BY <1>1, DatagramServerQuiet, DatagramServerReceives, DatagramServerSends,
     DatagramServerDies DEF Datagram!ServerStep
<1>2. ASSUME NEW c \in Clients,
             \/ Datagram!ClientBind(c) \/ Datagram!ClientBindFails(c)
             \/ Datagram!ClientStep(c) \/ Datagram!KillClient(c)
      PROVE  DatagramInv'
  BY <1>2, DatagramBind, DatagramSends, DatagramSendFails, DatagramReceives, DatagramEnds,
     DatagramClientDies DEF Datagram!ClientStep
<1>. QED
  BY <1>1, <1>2 DEF Datagram!Next

LEMMA DatagramOutstanding ==
  ASSUME DatagramInv, NEW c \in Clients, NEW p
  PROVE  p \in Datagram!Outstanding(c) <=>
           \/ \E s \in Servers : \E i \in Nat : p = <<s, i>> /\ Holds(c, s, i)
           \/ \E i \in 1 .. Len(replies[c]) : p = <<c, i>>
<1>1. /\ \A s \in Servers : inbox[s] \in Seq(Messages)
      /\ replies[c] \in Seq(Messages)
  BY DEF DatagramInv, DatagramTypes
<1>2. /\ \A s \in Servers : DOMAIN inbox[s] = 1 .. Len(inbox[s])
      /\ DOMAIN replies[c] = 1 .. Len(replies[c])
  BY <1>1, LenProperties
<1>3. \A s \in Servers : server[s] = "send" => Datagram!Up(s)
  BY DEF Datagram!Up
<1> DEFINE Inboxes == UNION {{s} \X {i \in DOMAIN inbox[s] : inbox[s][i].of = c} :
                               s \in {t \in Servers : Datagram!Up(t)}}
           Bufs == {s \in Servers : server[s] = "send" /\ buf[s].of = c} \X {0}
           Answers == {c} \X DOMAIN replies[c]
<1>4. p \in Inboxes <=> \E s \in Servers : \E i \in 1 .. Len(inbox[s]) :
                          p = <<s, i>> /\ Datagram!Up(s) /\ inbox[s][i].of = c
  BY <1>2
<1>5. p \in Bufs <=> \E s \in Servers : p = <<s, 0>> /\ server[s] = "send" /\ buf[s].of = c
  OBVIOUS
<1>6. p \in Answers <=> \E i \in 1 .. Len(replies[c]) : p = <<c, i>>
  BY <1>2
<1>7. Datagram!Outstanding(c) = Inboxes \cup Bufs \cup Answers
  BY Zenon DEF Datagram!Outstanding
<1> HIDE DEF Inboxes, Bufs, Answers
<1>8. (p \in Inboxes \/ p \in Bufs) <=>
        \E s \in Servers : \E i \in Nat : p = <<s, i>> /\ Holds(c, s, i)
  BY <1>3, <1>4, <1>5 DEF Holds
<1>. QED
  BY <1>6, <1>7, <1>8

\* What a client has received, and what is on its way.
LEMMA DatagramDelivered ==
  ASSUME DatagramInv
  PROVE  Datagram!Delivered
<1>0. DatagramTypes /\ InTurn /\ AtMostOne /\ OneUnlessDead
  BY DEF DatagramInv
<1> SUFFICES ASSUME NEW c \in Clients
             PROVE  /\ \A i \in 1 .. Len(got[c]) :
                         /\ got[c][i] = Datagram!Truncated(Datagram!Message(c, got[c][i].nr))
                         /\ i > 1 => got[c][i - 1].nr < got[c][i].nr
                    /\ Datagram!Living(c) =>
                         /\ Datagram!Cardinality(Datagram!Outstanding(c)) <=
                              (IF client[c] = "receive" THEN 1 ELSE 0)
                         /\ client[c] = "receive" =>
                              Datagram!Outstanding(c) # {} \/ asked[c] \in killed
  BY DEF Datagram!Delivered
<1> DEFINE out == Datagram!Outstanding(c)
<1>1. ASSUME NEW i \in 1 .. Len(got[c])
      PROVE  got[c][i] = Datagram!Truncated(Datagram!Message(c, got[c][i].nr))
  <2>1. got[c][i] \in Messages
    BY <1>0, ElementOfSeq DEF DatagramTypes
  <2>2. /\ got[c][i].of = c /\ got[c][i].from = pid[c]
        /\ got[c][i].length = Cut(lengths[c][got[c][i].nr])
    BY <1>0 DEF InTurn
  <2>3. got[c][i] = [from |-> got[c][i].from, length |-> got[c][i].length,
                     of |-> got[c][i].of, nr |-> got[c][i].nr]
    BY <2>1 DEF Messages
  <2>4. Datagram!Truncated(Datagram!Message(c, got[c][i].nr))
          = [from |-> pid[c], length |-> Cut(lengths[c][got[c][i].nr]),
             of |-> c, nr |-> got[c][i].nr]
    BY DEF Datagram!Truncated, Datagram!Message, Cut
  <2>. QED
    BY <2>2, <2>3, <2>4
<1>2. Datagram!Cardinality(out) = Cardinality(out)
  BY DEF Datagram!Cardinality, Cardinality
<1>3. ASSUME Datagram!Living(c), client[c] # "receive" PROVE Cardinality(out) = 0
  <2>1. client[c] \in {"start", "send", "remove"}
    BY <1>0, <1>3 DEF DatagramTypes, ClientPlaces, Datagram!Living
  <2>2. /\ \A s \in Servers : \A i \in Nat : ~Holds(c, s, i)
        /\ Len(replies[c]) = 0
    BY <2>1, NothingHeld
  <2>3. out = {}
    BY <2>2, DatagramOutstanding
  <2>. QED
    BY <2>3, FS_EmptySet
<1>4. ASSUME client[c] = "receive" PROVE Cardinality(out) <= 1
  <2>1. /\ \A s, t \in Servers : \A i, k \in Nat :
               Holds(c, s, i) /\ Holds(c, t, k) => s = t /\ i = k
        /\ Len(replies[c]) <= 1
        /\ Len(replies[c]) = 1 => \A s \in Servers : \A i \in Nat : ~Holds(c, s, i)
    BY <1>0, <1>4 DEF AtMostOne, Datagram!Living
  <2>2. Len(replies[c]) \in Nat
    BY <1>0 DEF DatagramTypes
  <2>7. \A n \in Nat : n <= 1 => \A i \in 1 .. n : i = 1 /\ n = 1
    OBVIOUS
  <2>3. \A i \in 1 .. Len(replies[c]) : i = 1 /\ Len(replies[c]) = 1
    BY <2>1, <2>2, <2>7
  <2>4. ASSUME NEW p \in out, NEW q \in out PROVE p = q
    <3>1. \/ \E s \in Servers : \E i \in Nat : p = <<s, i>> /\ Holds(c, s, i)
          \/ p = <<c, 1>> /\ Len(replies[c]) = 1
      BY <2>3, DatagramOutstanding
    <3>2. \/ \E s \in Servers : \E i \in Nat : q = <<s, i>> /\ Holds(c, s, i)
          \/ q = <<c, 1>> /\ Len(replies[c]) = 1
      BY <2>3, DatagramOutstanding
    <3>. QED
      BY <2>1, <3>1, <3>2
  <2>5. CASE out = {}
    BY <2>5, FS_EmptySet
  <2>6. CASE out # {}
    <3>1. PICK p \in out : TRUE
      BY <2>6
    <3>2. out = {p}
      BY <2>4, <3>1
    <3>3. Cardinality({p}) = 1
      BY FS_Singleton
    <3>. QED
      BY <3>2, <3>3
  <2>. QED
    BY <2>5, <2>6
<1>5. ASSUME client[c] = "receive" PROVE out # {} \/ asked[c] \in killed
  <2>1. CASE \E s \in Servers : \E i \in Nat : Holds(c, s, i)
    BY <2>1, DatagramOutstanding
  <2>2. CASE Len(replies[c]) = 1
    <3>1. 1 \in 1 .. Len(replies[c])
      BY <2>2
    <3>. QED
      BY <3>1, DatagramOutstanding
  <2>. QED
    BY <1>0, <1>5, <2>1, <2>2 DEF OneUnlessDead
<1>6. \A i \in 1 .. Len(got[c]) : i > 1 => got[c][i - 1].nr < got[c][i].nr
  BY <1>0 DEF InTurn
<1> HIDE DEF out
<1>7. Datagram!Living(c) => Cardinality(out) <= (IF client[c] = "receive" THEN 1 ELSE 0)
  BY <1>3, <1>4
<1>. QED
  BY <1>1, <1>2, <1>5, <1>6, <1>7 DEF out

LEMMA DatagramEndsExplained ==
  ASSUME DatagramInv
  PROVE  Datagram!EndsExplained
BY DEF DatagramInv, Sockets, Names, Datagram!EndsExplained, Datagram!Ended

(***************************************************************************)
(* Streams: what it means to put strings one after the other                *)
(***************************************************************************)

LEMMA LeastNumber ==
  ASSUME NEW T, T \subseteq Nat, T # {}
  PROVE  \E n \in T : \A m \in T : n <= m
<1>1. PICK n \in T : \A m \in T : ~(<<m, n>> \in OpToRel(<, Nat))
  BY NatLessThanWellFounded, WFMin
<1>2. \A m \in T : ~(m < n)
  BY <1>1 DEF OpToRel
<1>. QED
  BY <1>2

\* g gives the concatenation of the first i sequences of q.
IsFlat(g, q) ==
    g = [i \in 1 .. Len(q) |-> IF i = 1 THEN q[i] ELSE g[i - 1] \o q[i]]

LEMMA FlatAt ==
  ASSUME NEW q, NEW g, IsFlat(g, q), NEW i \in 1 .. Len(q)
  PROVE  g[i] = IF i = 1 THEN q[i] ELSE g[i - 1] \o q[i]
BY DEF IsFlat

LEMMA FlatUnique ==
  ASSUME NEW q, NEW p, NEW g, NEW h, IsFlat(g, q), IsFlat(h, p),
         Len(q) \in Nat, Len(p) \in Nat, Len(q) <= Len(p),
         \A i \in 1 .. Len(q) : p[i] = q[i]
  PROVE  \A i \in 1 .. Len(q) : g[i] = h[i]
<1> DEFINE T == {i \in 1 .. Len(q) : g[i] # h[i]}
<1> SUFFICES ASSUME T # {} PROVE FALSE
  OBVIOUS
<1>1. PICK k \in T : \A m \in T : k <= m
  <2>1. T \subseteq Nat
    OBVIOUS
  <2> HIDE DEF T
  <2>. QED
    BY <2>1, LeastNumber
<1>2. k \in 1 .. Len(p) /\ k \in 1 .. Len(q)
  BY <1>1
<1>3. /\ g[k] = IF k = 1 THEN q[k] ELSE g[k - 1] \o q[k]
      /\ h[k] = IF k = 1 THEN p[k] ELSE h[k - 1] \o p[k]
  BY <1>2, FlatAt
<1>4. k # 1 => g[k - 1] = h[k - 1]
  BY <1>1
<1>. QED
  BY <1>1, <1>3, <1>4

LEMMA FlatExists ==
  ASSUME NEW S, NEW q \in Seq(Seq(S))
  PROVE  \E g : IsFlat(g, q) /\ \A i \in 1 .. Len(q) : g[i] \in Seq(S)
<1> DEFINE Has(p) == \E g : IsFlat(g, p) /\ \A i \in 1 .. Len(p) : g[i] \in Seq(S)
           T == {n \in Nat : \E p \in Seq(Seq(S)) : Len(p) = n /\ ~Has(p)}
<1> SUFFICES ASSUME ~Has(q) PROVE FALSE
  OBVIOUS
<1>1. Len(q) \in T
  <2>1. Len(q) \in Nat
    BY LenProperties
  <2>. QED
    BY <2>1
<1>2. PICK n \in T : \A m \in T : n <= m
  <2>1. T \subseteq Nat /\ T # {}
    BY <1>1
  <2> HIDE DEF T
  <2>. QED
    BY <2>1, LeastNumber
<1>3. PICK p \in Seq(Seq(S)) : Len(p) = n /\ ~Has(p)
  BY <1>2
<1>4. n \in Nat
  BY <1>2
<1>5. n # 0
  <2> SUFFICES ASSUME n = 0 PROVE FALSE
    OBVIOUS
  <2>1. \A g : IsFlat([i \in 1 .. 0 |-> 0], p)
    BY <1>3 DEF IsFlat
  <2>. QED
    BY <1>3, <2>1
<1>6. PICK r \in Seq(Seq(S)), x \in Seq(S) : p = Append(r, x)
  <2>1. p # << >>
    BY <1>3, <1>5
  <2>. QED
    BY <2>1, SequenceEmptyOrAppend
<1>7. /\ Len(r) \in Nat /\ n = Len(r) + 1 /\ p[n] = x
      /\ \A i \in 1 .. Len(r) : p[i] = r[i]
  BY <1>3, <1>6, AppendProperties, LenProperties
<1>8. Has(r)
  <2>1. Len(r) \notin T
    <3> HIDE DEF T
    <3>. QED
      BY <1>2, <1>4, <1>7
  <2>. QED
    BY <1>7, <2>1
<1>9. PICK g : IsFlat(g, r) /\ \A i \in 1 .. Len(r) : g[i] \in Seq(S)
  BY <1>8
<1> DEFINE h == [i \in 1 .. n |-> IF i < n THEN g[i]
                                  ELSE IF n = 1 THEN x ELSE g[n - 1] \o x]
<1> HIDE DEF Has, T
<1>10. \A i \in 1 .. Len(r) : i \in 1 .. n /\ i < n /\ h[i] = g[i]
  BY <1>7
<1>11. h[n] = IF n = 1 THEN x ELSE g[n - 1] \o x
  BY <1>4, <1>5
<1>12. \A i \in 1 .. n : i = n \/ i \in 1 .. Len(r)
  BY <1>7
<1>13. n # 1 => n - 1 \in 1 .. Len(r)
  BY <1>7
<1>14. h = [i \in 1 .. n |-> IF i = 1 THEN p[i] ELSE h[i - 1] \o p[i]]
  <2>1. ASSUME NEW i \in 1 .. n PROVE h[i] = IF i = 1 THEN p[i] ELSE h[i - 1] \o p[i]
    <3>1. CASE i = n
      BY <1>7, <1>10, <1>11, <1>13, <3>1
    <3>2. CASE i \in 1 .. Len(r)
      <4>1. g[i] = IF i = 1 THEN r[i] ELSE g[i - 1] \o r[i]
        BY <1>9, <3>2, FlatAt
      <4>2. i # 1 => i - 1 \in 1 .. Len(r)
        BY <1>7, <3>2
      <4>. QED
        BY <1>7, <1>10, <3>2, <4>1, <4>2
    <3>. QED
      BY <1>12, <3>1, <3>2
  <2>2. h = [i \in 1 .. n |-> h[i]]
    OBVIOUS
  <2> HIDE DEF h
  <2>. QED
    BY <2>1, <2>2
<1>15. \A i \in 1 .. n : h[i] \in Seq(S)
  <2>1. n # 1 => g[n - 1] \o x \in Seq(S)
    BY <1>9, <1>13, ConcatProperties
  <2>. QED
    BY <1>9, <1>10, <1>11, <1>12, <2>1
<1> HIDE DEF h
<1>16. IsFlat(h, p)
  BY <1>3, <1>14 DEF IsFlat
<1>. QED
  BY <1>3, <1>15, <1>16 DEF Has

LEMMA FlattenEmpty == Stream!FlattenSeq(<< >>) = << >>
BY DEF Stream!FlattenSeq

LEMMA FlattenIs ==
  ASSUME NEW S, NEW q \in Seq(Seq(S)), Len(q) # 0
  PROVE  \E g : /\ IsFlat(g, q) /\ \A i \in 1 .. Len(q) : g[i] \in Seq(S)
                /\ Stream!FlattenSeq(q) = g[Len(q)]
<1> DEFINE f == CHOOSE e : e = [i \in 1 .. Len(q) |-> IF i = 1 THEN q[i] ELSE e[i - 1] \o q[i]]
<1>1. Stream!FlattenSeq(q) = f[Len(q)]
  BY DEF Stream!FlattenSeq
<1>2. PICK g : IsFlat(g, q) /\ \A i \in 1 .. Len(q) : g[i] \in Seq(S)
  BY FlatExists
<1>3. IsFlat(f, q)
  <2>1. \E e : e = [i \in 1 .. Len(q) |-> IF i = 1 THEN q[i] ELSE e[i - 1] \o q[i]]
    BY <1>2 DEF IsFlat
  <2>2. f = [i \in 1 .. Len(q) |-> IF i = 1 THEN q[i] ELSE f[i - 1] \o q[i]]
    BY <2>1, Zenon
  <2>. QED
    BY <2>2, Zenon DEF IsFlat
<1> HIDE DEF f
<1>4. Len(q) \in Nat
  BY LenProperties
<1>5. \A i \in 1 .. Len(q) : f[i] = g[i]
  BY <1>2, <1>3, <1>4, FlatUnique
<1>. QED
  BY <1>1, <1>2, <1>3, <1>5

LEMMA FlattenAppend ==
  ASSUME NEW S, NEW q \in Seq(Seq(S)), NEW x \in Seq(S)
  PROVE  /\ Stream!FlattenSeq(q) \in Seq(S)
         /\ Stream!FlattenSeq(Append(q, x)) = Stream!FlattenSeq(q) \o x
<1> DEFINE p == Append(q, x)
<1>1. /\ p \in Seq(Seq(S)) /\ Len(q) \in Nat /\ Len(p) = Len(q) + 1
      /\ \A i \in 1 .. Len(q) : p[i] = q[i]
      /\ p[Len(q) + 1] = x
  BY AppendProperties, LenProperties
<1> HIDE DEF p
<1>7. Len(p) # 0 /\ Len(p) \in Nat /\ Len(q) <= Len(p)
  BY <1>1
<1>2. PICK h : IsFlat(h, p) /\ Stream!FlattenSeq(p) = h[Len(p)]
  BY <1>1, <1>7, FlattenIs
<1>3. Len(p) \in 1 .. Len(p)
  BY <1>1
<1>4. h[Len(p)] = IF Len(p) = 1 THEN x ELSE h[Len(p) - 1] \o x
  BY <1>1, <1>2, <1>3, FlatAt
<1>5. CASE Len(q) = 0
  <2>1. q = << >> /\ Stream!FlattenSeq(q) = << >>
    BY <1>5, EmptySeq, FlattenEmpty
  <2>2. h[Len(p)] = x
    BY <1>1, <1>4, <1>5
  <2>. QED
    BY <1>2, <2>1, <2>2, EmptySeq, ConcatEmptySeq DEF p
<1>6. CASE Len(q) # 0
  <2>1. PICK g : /\ IsFlat(g, q) /\ \A i \in 1 .. Len(q) : g[i] \in Seq(S)
                 /\ Stream!FlattenSeq(q) = g[Len(q)]
    BY <1>6, FlattenIs
  <2>2. Len(q) \in 1 .. Len(q) /\ Len(p) - 1 = Len(q) /\ Len(p) # 1
    BY <1>1, <1>6
  <2>3. \A i \in 1 .. Len(q) : g[i] = h[i]
    <3>1. IsFlat(g, q) /\ IsFlat(h, p)
      BY <1>2, <2>1
    <3>2. Len(q) \in Nat /\ Len(p) \in Nat /\ Len(q) <= Len(p)
      BY <1>1, <1>7
    <3>3. \A i \in 1 .. Len(q) : p[i] = q[i]
      BY <1>1
    <3>4. ASSUME NEW e PROVE IsFlat(e, q) => \A i \in 1 .. Len(q) : e[i] = h[i]
      BY <3>1, <3>2, <3>3, FlatUnique
    <3>. QED
      BY <3>1, <3>4
  <2>. QED
    BY <1>2, <1>4, <2>1, <2>2, <2>3 DEF p
<1>. QED
  BY <1>5, <1>6

(***************************************************************************)
(* Streams: the invariant                                                   *)
(***************************************************************************)
Byte == Clients \X Nat \X Nat
Strings == Seq(Byte)
Then(a, b) == a \o b
StreamServerPlaces == {"remove", "bind", "listen", "accept", "read", "write", "close",
                       "failed", "ended"}

\* The strings of each client; what their concatenation is; the bytes a client
\* has written, and those a server has read and not written yet.
Texts == [c \in Clients |-> [i \in 1 .. Len(lengths[c]) |-> Stream!Bytes(c, i)]]
Flat == [q \in Seq(Strings) |-> Stream!FlattenSeq(q)]
Written ==
    [c \in Clients |->
       Flat[SubSeq(Texts[c], 1, IF client[c] = "read" THEN next[c] ELSE next[c] - 1)]]
Held == [c \in Clients |-> Stream!AtServer(c)]
Fitting == {c \in Clients : Stream!Fits(c)}

StreamTypes ==
    /\ kind \in {"echo", "average"}
    /\ path \in Servers \cup {None}
    /\ server \in [Servers -> StreamServerPlaces]
    /\ client \in [Clients -> {"connect", "write", "read", "ended"}]
    /\ killed \subseteq Servers \cup Clients
    /\ backlog \in [Servers -> Seq(Clients)]
    /\ serving \in [Servers -> Clients \cup {None}]
    /\ buf \in [Servers -> Strings]
    /\ lengths \in [Clients -> Seq(Nat) \ {<< >>}]
    /\ kind = "average" => \A c \in Clients : lengths[c] = <<1>>
    /\ next \in [Clients -> Nat \ {0}]
    /\ up \in [Clients -> Strings] /\ down \in [Clients -> Strings]
    /\ link \in [Clients -> {"none", "open", "closed", "reset"}]
    /\ got \in [Clients -> Seq(Strings)]

\* A connection is in one backlog, once, or with the server that has accepted it;
\* these are the open ones.
Waiting == [s \in Servers |-> {backlog[s][i] : i \in 1 .. Len(backlog[s])}]
Connections ==
    /\ \A s \in Servers :
        /\ server[s] \in {"read", "write", "close"} => serving[s] # None
        /\ server[s] \in {"remove", "bind", "listen", "accept", "failed"} => serving[s] = None
        /\ backlog[s] # << >> => server[s] \in {"accept", "read", "write", "close"}
        /\ \A i, k \in 1 .. Len(backlog[s]) : backlog[s][i] = backlog[s][k] => i = k
    /\ \A s, t \in Servers :
        /\ serving[s] = serving[t] /\ serving[s] # None => s = t
        /\ s # t => Waiting[s] \cap Waiting[t] = {}
        /\ serving[t] \notin Waiting[s]
    /\ \A c \in Clients :
        link[c] = "open" <=> \E s \in Servers :
            c \in Waiting[s] \/ (serving[s] = c /\ server[s] # "ended")
    /\ \A s \in Servers : \A c \in Clients : serving[s] = c => link[c] # "none"

\* Where a client is in its strings.
TurnOf(c) ==
    /\ Len(got[c]) = next[c] - 1 /\ next[c] <= Len(lengths[c]) + 1
    /\ client[c] # "ended" => next[c] <= Len(lengths[c])
    /\ client[c] = "connect" => link[c] = "none" /\ next[c] = 1
    /\ link[c] = "none" =>
         up[c] = << >> /\ down[c] = << >> /\ client[c] \in {"connect", "ended"}
    /\ c \in killed => client[c] = "ended"

\* No byte is lost, while the connection is open and the client lives or has
\* ended in order.
OnTheWay(back, held, there) == Then(back, Then(held, there))
ConservedOf(c) ==
    link[c] = "open" /\ c \notin killed =>
        Then(Flat[got[c]], OnTheWay(down[c], Held[c], up[c])) = Written[c]

\* If the strings of c fit, at most one of them is on its way, and in one piece.
Empty(c) == up[c] = << >> /\ Held[c] = << >> /\ down[c] = << >>
InOnePiece(c, text) ==
    \/ Empty(c)
    \/ up[c] = text /\ Held[c] = << >> /\ down[c] = << >>
    \/ up[c] = << >> /\ Held[c] = text /\ down[c] = << >>
    \/ up[c] = << >> /\ Held[c] = << >> /\ down[c] = text
WholeOf(c) ==
    c \in Fitting =>
        /\ \A i \in 1 .. Len(got[c]) : got[c][i] \in {<< >>, Texts[c][i]}
        /\ c \notin killed =>
            /\ client[c] \in {"connect", "write"} => Empty(c)
            /\ client[c] = "read" => InOnePiece(c, Texts[c][next[c]])
            /\ client[c] = "ended" /\ link[c] = "open" => Empty(c)

\* Why a connection is closed while the client is there: a server has ended, or
\* the one of assignment7 has answered.
SomeEnded == \E s \in Servers : server[s] = "ended"
Answered(c) == kind = "average" /\ client[c] = "read" /\ down[c] # << >>
ClosedOf(c) ==
    /\ link[c] = "closed" => up[c] = << >>
    /\ link[c] = "closed" /\ client[c] # "ended" => SomeEnded \/ Answered(c)
    /\ \A i \in 1 .. Len(got[c]) : got[c][i] = << >> => SomeEnded

ClientOk(c) == TurnOf(c) /\ ConservedOf(c) /\ WholeOf(c) /\ ClosedOf(c)

\* What a server can rely on, and what ended it.
Pending(c) == down[c] = << >> /\ (client[c] = "ended" => c \in killed)
ServingOf(s) ==
    /\ server[s] = "write" /\ serving[s] \notin killed => buf[s] # << >>
    /\ server[s] = "close" =>
         client[serving[s]] = "ended" \/ Answered(serving[s])
    /\ kind = "average" =>
        /\ \A c \in Waiting[s] : Pending(c)
        /\ server[s] \in {"read", "write"} => Pending(serving[s])
EndOf(s) ==
    server[s] = "ended" /\ s \notin killed =>
        /\ serving[s] # None
        /\ serving[s] \notin killed =>
            /\ client[serving[s]] = "ended" /\ serving[s] \notin Fitting
            /\ Flat[got[serving[s]]] # Written[serving[s]]

ServerOk(s) == ServingOf(s) /\ EndOf(s)

StreamInv ==
    /\ StreamTypes /\ Connections
    /\ \A c \in Clients : ClientOk(c)
    /\ \A s \in Servers : ServerOk(s)

-----------------------------------------------------------------------------
(* Facts about strings *)

LEMMA StreamConstants ==
  /\ BUF_SIZE \in Nat /\ BUF_SIZE > 1
  /\ None \notin Servers /\ None \notin Clients /\ Servers \cap Clients = {}
  /\ \A s \in Servers : s \notin Clients
  /\ Arguments \subseteq Seq(Nat) \ {<< >>}
BY SocketAssumption DEF Stream!StreamAssumption

LEMMA FlatFacts ==
  /\ << >> \in Strings /\ << >> \in Seq(Strings) /\ Flat[<< >>] = << >>
  /\ \A q \in Seq(Strings) : Flat[q] \in Strings
  /\ \A q \in Seq(Strings), x \in Strings :
       Append(q, x) \in Seq(Strings) /\ Flat[Append(q, x)] = Then(Flat[q], x)
<1>1. << >> \in Strings /\ << >> \in Seq(Strings)
  BY EmptySeq DEF Strings
<1>2. ASSUME NEW q \in Seq(Strings), NEW x \in Strings
      PROVE  /\ Append(q, x) \in Seq(Strings) /\ Flat[q] \in Strings
             /\ Flat[Append(q, x)] = Then(Flat[q], x)
  <2>1. q \in Seq(Seq(Byte)) /\ x \in Seq(Byte)
    BY DEF Strings
  <2>2. /\ Stream!FlattenSeq(q) \in Seq(Byte)
        /\ Stream!FlattenSeq(Append(q, x)) = Stream!FlattenSeq(q) \o x
    BY <2>1, FlattenAppend
  <2>3. Append(q, x) \in Seq(Strings)
    BY AppendProperties
  <2>. QED
    BY <2>2, <2>3 DEF Flat, Strings, Then
<1>. QED
  BY <1>1, <1>2, FlattenEmpty DEF Flat


\* What a read takes, and what it leaves.
LEMMA ReadBytes ==
  ASSUME NEW b \in Strings, NEW n \in Nat \ {0}
  PROVE  /\ Stream!Chunk(b, n) \in Strings /\ Stream!Rest(b, n) \in Strings
         /\ b = Then(Stream!Chunk(b, n), Stream!Rest(b, n))
         /\ b # << >> => Stream!Chunk(b, n) # << >>
         /\ Len(b) <= n => Stream!Chunk(b, n) = b /\ Stream!Rest(b, n) = << >>
<1>1. b \in Seq(Byte) /\ Len(b) \in Nat /\ SubSeq(b, 1, Len(b)) = b
  BY LenProperties, SubSeqFull DEF Strings
<1>2. CASE Len(b) <= n
  <2>1. \A k, m \in Nat : k <= m => (IF k < m THEN k ELSE m) = k
    OBVIOUS
  <2>2. (IF Len(b) < n THEN Len(b) ELSE n) = Len(b)
    BY <1>1, <1>2, <2>1
  <2>3. Stream!Chunk(b, n) = b
    BY <1>1, <2>2 DEF Stream!Chunk
  <2>4. \A k, m \in Nat : k <= m => m + 1 \in Int /\ k \in Int /\ m + 1 > k
    OBVIOUS
  <2>5. SubSeq(b, n + 1, Len(b)) = << >>
    BY <1>1, <1>2, <2>4, SubSeqEmpty
  <2>6. Stream!Rest(b, n) = << >>
    BY <2>5 DEF Stream!Rest
  <2>7. << >> \in Strings /\ Then(b, << >>) = b
    BY <1>1, EmptySeq, ConcatEmptySeq DEF Strings, Then
  <2>. QED
    BY <2>3, <2>6, <2>7
<1>3. CASE Len(b) > n
  <2>1. \A k, m \in Nat : k > m => (IF k < m THEN k ELSE m) = m
    OBVIOUS
  <2>2. (IF Len(b) < n THEN Len(b) ELSE n) = n
    BY <1>1, <1>3, <2>1
  <2>3. Stream!Chunk(b, n) = SubSeq(b, 1, n)
    BY <2>2 DEF Stream!Chunk
  <2>4. Stream!Rest(b, n) = SubSeq(b, n + 1, Len(b))
    BY DEF Stream!Rest
  <2>5. \A k \in Nat : \A m \in Nat \ {0} : k > m =>
          /\ 1 \in 1 .. k + 1 /\ m \in 0 .. k /\ m \in (1 - 1) .. k /\ k \in m .. k
          /\ m + 1 \in 1 .. k + 1 /\ k \in Int /\ m \in Int /\ m + 1 \in Int
          /\ 1 \in 1 .. m + 1 /\ m \in 1 .. k /\ m + 1 \in 1 .. k /\ k \in 1 .. k
    OBVIOUS
  <2>6. \A i \in 1 .. Len(b) : b[i] \in Byte
    BY <1>1, ElementOfSeq
  <2>7. SubSeq(b, 1, n) \in Seq(Byte)
    BY <1>1, <1>3, <2>5, SubSeqProperties
  <2>8. Len(SubSeq(b, 1, n)) = n
    <3>1. Len(SubSeq(b, 1, n)) = IF 1 <= n THEN n - 1 + 1 ELSE 0
      BY <1>1, <1>3, <2>5, SubSeqProperties
    <3>2. \A m \in Nat \ {0} : (IF 1 <= m THEN m - 1 + 1 ELSE 0) = m
      OBVIOUS
    <3>. QED
      BY <3>1, <3>2
  <2>9. SubSeq(b, n + 1, Len(b)) \in Seq(Byte)
    BY <1>1, <1>3, <2>5, SubSeqProperties
  <2>10. SubSeq(b, 1, n) \o SubSeq(b, n + 1, Len(b)) = b
    <3>1. SubSeq(b, 1, n) \o SubSeq(b, n + 1, Len(b)) = SubSeq(b, 1, Len(b))
      BY <1>1, <1>3, <2>5, ConcatAdjacentSubSeq
    <3>. QED
      BY <1>1, <3>1
  <2>11. SubSeq(b, 1, n) # << >>
    BY <2>8, EmptySeq
  <2>12. \A k, m \in Nat : k > m => ~(k <= m)
    OBVIOUS
  <2>. QED
    BY <1>1, <1>3, <2>3, <2>4, <2>7, <2>9, <2>10, <2>11, <2>12 DEF Strings, Then
<1>4. \A k, m \in Nat : k <= m \/ k > m
  OBVIOUS
<1>. QED
  BY <1>1, <1>2, <1>3, <1>4

LEMMA StringFacts ==
  /\ \A a, b \in Strings : Then(a, b) \in Strings
  /\ \A a, b, d \in Strings : Then(Then(a, b), d) = Then(a, Then(b, d))
  /\ \A a \in Strings : Then(a, << >>) = a /\ Then(<< >>, a) = a
  /\ \A a, b \in Strings : Then(a, b) = a => b = << >>
  /\ \A a, b \in Strings : Then(a, b) = << >> => a = << >> /\ b = << >>
<1>1. ASSUME NEW a \in Strings, NEW b \in Strings
      PROVE  /\ a \o b \in Strings
             /\ a \o b = a => b = << >>
             /\ a \o b = << >> => a = << >> /\ b = << >>
  <2>1. a \in Seq(Byte) /\ b \in Seq(Byte)
    BY DEF Strings
  <2>2. /\ a \o b \in Seq(Byte) /\ Len(a \o b) = Len(a) + Len(b)
        /\ Len(a) \in Nat /\ Len(b) \in Nat
    BY <2>1, ConcatProperties, LenProperties
  <2>3. Len(b) = 0 => b = << >>
    BY <2>1, EmptySeq
  <2>4. Len(a) = 0 => a = << >>
    BY <2>1, EmptySeq
  <2>5. Len(<< >>) = 0
    OBVIOUS
  <2>6. a \o b = a => Len(b) = 0
    BY <2>2
  <2>7. a \o b = << >> => Len(a) = 0 /\ Len(b) = 0
    BY <2>2, <2>5
  <2>. QED
    BY <2>2, <2>3, <2>4, <2>6, <2>7 DEF Strings
<1>2. ASSUME NEW a \in Strings, NEW b \in Strings, NEW d \in Strings
      PROVE  (a \o b) \o d = a \o (b \o d)
  BY ConcatAssociative DEF Strings
<1>3. ASSUME NEW a \in Strings PROVE a \o << >> = a /\ << >> \o a = a
  BY ConcatEmptySeq DEF Strings
<1>. QED
  BY <1>1, <1>2, <1>3 DEF Then

LEMMA OnTheWayFacts ==
  /\ \A d, h, u \in Strings :
       /\ OnTheWay(d, h, u) \in Strings
       /\ OnTheWay(d, h, u) = << >> => d = << >> /\ h = << >> /\ u = << >>
  /\ OnTheWay(<< >>, << >>, << >>) = << >>
  /\ \A d, h, u, t \in Strings : OnTheWay(d, h, Then(u, t)) = Then(OnTheWay(d, h, u), t)
  /\ \A d, x, y \in Strings : OnTheWay(d, << >>, Then(x, y)) = OnTheWay(d, x, y)
  /\ \A d, h, u \in Strings : OnTheWay(Then(d, h), << >>, u) = OnTheWay(d, h, u)
  /\ \A x, y, h, u \in Strings : OnTheWay(Then(x, y), h, u) = Then(x, OnTheWay(y, h, u))
<1>1. << >> \in Strings
  BY FlatFacts
<1>2. ASSUME NEW d \in Strings, NEW h \in Strings, NEW u \in Strings
      PROVE  /\ OnTheWay(d, h, u) \in Strings
             /\ OnTheWay(d, h, u) = << >> => d = << >> /\ h = << >> /\ u = << >>
             /\ OnTheWay(Then(d, h), << >>, u) = OnTheWay(d, h, u)
             /\ OnTheWay(d, << >>, Then(h, u)) = OnTheWay(d, h, u)
  BY <1>1, StringFacts DEF OnTheWay
<1>3. OnTheWay(<< >>, << >>, << >>) = << >>
  BY <1>1, StringFacts DEF OnTheWay
<1>4. ASSUME NEW d \in Strings, NEW h \in Strings, NEW u \in Strings, NEW t \in Strings
      PROVE  OnTheWay(d, h, Then(u, t)) = Then(OnTheWay(d, h, u), t)
  BY StringFacts DEF OnTheWay
<1>5. ASSUME NEW x \in Strings, NEW y \in Strings, NEW h \in Strings, NEW u \in Strings
      PROVE  OnTheWay(Then(x, y), h, u) = Then(x, OnTheWay(y, h, u))
  BY StringFacts DEF OnTheWay
<1>. QED
  BY <1>2, <1>3, <1>4, <1>5

\* The strings of a client.
LEMMA TextFacts ==
  ASSUME StreamTypes, NEW c \in Clients
  PROVE  /\ Texts[c] \in Seq(Strings)
         /\ Len(Texts[c]) = Len(lengths[c])
         /\ Len(lengths[c]) \in Nat \ {0}
         /\ \A i \in 1 .. Len(lengths[c]) :
              /\ Texts[c][i] = Stream!Bytes(c, i)
              /\ Texts[c][i] \in Strings
              /\ Len(Texts[c][i]) = lengths[c][i]
<1>1. lengths[c] \in Seq(Nat) /\ lengths[c] # << >>
  BY DEF StreamTypes
<1>2. Len(lengths[c]) \in Nat \ {0}
  BY <1>1, LenProperties, EmptySeq
<1>3. Texts[c] = [i \in 1 .. Len(lengths[c]) |-> Stream!Bytes(c, i)]
  BY DEF Texts
<1>4. ASSUME NEW i \in 1 .. Len(lengths[c])
      PROVE  Stream!Bytes(c, i) \in Strings /\ Len(Stream!Bytes(c, i)) = lengths[c][i]
  <2>1. lengths[c][i] \in Nat /\ i \in Nat
    BY <1>1, <1>2, <1>4, ElementOfSeq
  <2>2. Stream!Bytes(c, i) = [k \in 1 .. lengths[c][i] |-> <<c, i, k>>]
    BY DEF Stream!Bytes
  <2>3. ASSUME NEW n \in Nat, NEW q, q = [k \in 1 .. n |-> <<c, i, k>>]
        PROVE  q \in Seq(Byte) /\ Len(q) = n
    <3>1. \A k \in 1 .. n : <<c, i, k>> \in Byte
      BY <2>1 DEF Byte
    <3>2. q \in [1 .. n -> Byte]
      BY <2>3, <3>1
    <3>. QED
      BY <3>2, SeqDef, LenProperties
  <2>. QED
    BY <2>1, <2>2, <2>3 DEF Strings
<1>5. Texts[c] \in [1 .. Len(lengths[c]) -> Strings]
  BY <1>3, <1>4
<1>6. \A n \in Nat : \A q \in [1 .. n -> Strings] : q \in Seq(Strings) /\ Len(q) = n
  <2>. SUFFICES ASSUME NEW n \in Nat, NEW q \in [1 .. n -> Strings]
                PROVE  q \in Seq(Strings) /\ Len(q) = n
    OBVIOUS
  <2>1. q \in Seq(Strings)
    BY SeqDef
  <2>2. Len(q) \in Nat /\ DOMAIN q = 1 .. Len(q) /\ DOMAIN q = 1 .. n
    BY <2>1, LenProperties
  <2>. QED
    BY <2>1, <2>2
<1>. QED
  BY <1>2, <1>3, <1>4, <1>5, <1>6

LEMMA FitFacts ==
  ASSUME StreamTypes, NEW c \in Clients
  PROVE  /\ c \in Fitting => \A i \in 1 .. Len(lengths[c]) :
              /\ Len(Texts[c][i]) <= BUF_SIZE - 1
              /\ Texts[c][i] # << >>
         /\ kind = "average" => c \in Fitting /\ Len(lengths[c]) = 1
<1>1. ASSUME c \in Fitting, NEW i \in 1 .. Len(lengths[c])
      PROVE  Len(Texts[c][i]) <= BUF_SIZE - 1 /\ Texts[c][i] # << >>
  <2>1. lengths[c][i] \in 1 .. BUF_SIZE - 1
    BY <1>1 DEF Fitting, Stream!Fits
  <2>2. Len(Texts[c][i]) = lengths[c][i]
    BY <1>1, TextFacts
  <2>3. Len(<< >>) = 0
    OBVIOUS
  <2>. QED
    BY <2>1, <2>2, <2>3, StreamConstants
<1>2. ASSUME kind = "average" PROVE c \in Fitting /\ Len(lengths[c]) = 1
  <2>1. lengths[c] = <<1>>
    BY <1>2 DEF StreamTypes
  <2>2. Len(lengths[c]) = 1 /\ lengths[c][1] = 1
    BY <2>1
  <2>3. 1 \in 1 .. BUF_SIZE - 1
    BY StreamConstants
  <2>. QED
    BY <2>2, <2>3 DEF Fitting, Stream!Fits
<1>. QED
  BY <1>1, <1>2

\* What is written after one more string.
LEMMA WrittenNext ==
  ASSUME NEW T \in Seq(Strings)
  PROVE  /\ SubSeq(T, 1, 0) = << >>
         /\ \A n \in 0 .. Len(T) : SubSeq(T, 1, n) \in Seq(Strings)
         /\ \A n \in 1 .. Len(T) :
              Flat[SubSeq(T, 1, n)] = Then(Flat[SubSeq(T, 1, n - 1)], T[n])
<1>1. SubSeq(T, 1, 0) = << >>
  BY SubSeqEmpty
<1>2. ASSUME NEW n \in 0 .. Len(T) 
      PROVE  /\ SubSeq(T, 1, n) \in Seq(Strings) /\ Len(SubSeq(T, 1, n)) = n
             /\ \A i \in 1 .. n : SubSeq(T, 1, n)[i] = T[i]
  <2>1. Len(T) \in Nat /\ \A i \in 1 .. Len(T) : T[i] \in Strings
    BY LenProperties, ElementOfSeq
  <2>2. n \in Int /\ 1 \in Int /\ \A i \in 1 .. n : T[i] \in Strings
    BY <2>1, <1>2
  <2>3. /\ SubSeq(T, 1, n) \in Seq(Strings)
        /\ Len(SubSeq(T, 1, n)) = IF 1 <= n THEN n - 1 + 1 ELSE 0
        /\ \A i \in 1 .. n - 1 + 1 : SubSeq(T, 1, n)[i] = T[1 + i - 1]
    BY <2>2, SubSeqProperties
  <2>4. n \in Nat
    BY <2>1, <1>2
  <2>5. \A m \in Nat : m - 1 + 1 = m /\ (IF 1 <= m THEN m - 1 + 1 ELSE 0) = m
    OBVIOUS
  <2>6. \A i \in 1 .. n : 1 + i - 1 = i
    OBVIOUS
  <2>. QED
    BY <2>3, <2>4, <2>5, <2>6
<1>3. ASSUME NEW n \in 1 .. Len(T)
      PROVE  Flat[SubSeq(T, 1, n)] = Then(Flat[SubSeq(T, 1, n - 1)], T[n])
  <2>1. Len(T) \in Nat /\ \A i \in 1 .. Len(T) : T[i] \in Strings
    BY LenProperties, ElementOfSeq
  <2>2. n \in 0 .. Len(T) /\ n - 1 \in 0 .. Len(T) /\ n \in Nat /\ n - 1 \in Nat
    BY <1>3, <2>1
  <2>3. T[n] \in Strings
    BY <1>3, <2>1
  <2> DEFINE a == SubSeq(T, 1, n)
             b == SubSeq(T, 1, n - 1)
  <2>4. /\ a \in Seq(Strings) /\ Len(a) = n /\ \A i \in 1 .. n : a[i] = T[i]
        /\ b \in Seq(Strings) /\ Len(b) = n - 1 /\ \A i \in 1 .. n - 1 : b[i] = T[i]
    BY <1>2, <2>2
  <2> HIDE DEF a, b
  <2>5. /\ Append(b, T[n]) \in Seq(Strings) /\ Len(Append(b, T[n])) = n
        /\ \A i \in 1 .. n - 1 : Append(b, T[n])[i] = b[i]
        /\ Append(b, T[n])[n] = T[n]
    BY <2>2, <2>3, <2>4, AppendProperties
  <2>6. \A i \in 1 .. n : i \in 1 .. n - 1 \/ i = n
    BY <2>2
  <2>7. \A i \in 1 .. n : a[i] = Append(b, T[n])[i]
    BY <2>4, <2>5, <2>6
  <2>8. a = Append(b, T[n])
    BY <2>4, <2>5, <2>7, SeqEqual
  <2>9. Flat[Append(b, T[n])] = Then(Flat[b], T[n])
    BY <2>3, <2>4, FlatFacts
  <2>10. Flat[a] = Then(Flat[b], T[n])
    BY <2>8, <2>9
  <2>. QED
    BY <2>10 DEF a, b
<1>. QED
  BY <1>1, <1>2, <1>3

-----------------------------------------------------------------------------
(* What the actions leave alone *)

HeldIs ==
    \A c \in Clients :
        /\ Held[c] \in Strings
        /\ \A s \in Servers : serving[s] = c /\ server[s] = "write" => Held[c] = buf[s]
        /\ (\A s \in Servers : serving[s] = c => server[s] # "write") => Held[c] = << >>

LEMMA HeldNow == StreamTypes /\ Connections => HeldIs
<1> SUFFICES ASSUME StreamTypes, Connections, NEW c \in Clients
             PROVE  /\ Held[c] \in Strings
                    /\ \A s \in Servers :
                         serving[s] = c /\ server[s] = "write" => Held[c] = buf[s]
                    /\ (\A s \in Servers : serving[s] = c => server[s] # "write") =>
                         Held[c] = << >>
  BY DEF HeldIs
<1>1. /\ \A s \in Servers : buf[s] \in Strings
      /\ \A s, t \in Servers : serving[s] = c /\ serving[t] = c => s = t
  BY StreamConstants DEF StreamTypes, Connections
<1>2. Held[c] = IF \E s \in Servers : serving[s] = c /\ server[s] = "write"
                THEN buf[CHOOSE s \in Servers : serving[s] = c] ELSE << >>
  BY DEF Held, Stream!AtServer
<1>3. ASSUME NEW s \in Servers, serving[s] = c, server[s] = "write" PROVE Held[c] = buf[s]
  <2>1. (CHOOSE t \in Servers : serving[t] = c) = s
    BY <1>1, <1>3
  <2>2. \E t \in Servers : serving[t] = c /\ server[t] = "write"
    BY <1>3
  <2>. QED
    BY <1>2, <2>1, <2>2
<1>4. ASSUME \A s \in Servers : serving[s] = c => server[s] # "write"
      PROVE  Held[c] = << >>
  BY <1>2, <1>4
<1>5. Held[c] \in Strings
  BY <1>1, <1>3, <1>4, FlatFacts
<1>. QED
  BY <1>3, <1>4, <1>5

LEMMA HeldNext == StreamTypes' /\ Connections' => HeldIs'
BY HeldNow, PTL

LEMMA DataSame ==
  ASSUME lengths' = lengths, NEW c \in Clients
  PROVE  /\ Texts' = Texts /\ Fitting' = Fitting
         /\ Written[c] = Flat[SubSeq(Texts[c], 1,
                              IF client[c] = "read" THEN next[c] ELSE next[c] - 1)]
         /\ Written'[c] = Flat[SubSeq(Texts[c], 1,
                               IF client'[c] = "read" THEN next'[c] ELSE next'[c] - 1)]
<1>1. Texts' = Texts
  BY DEF Texts, Stream!Bytes
<1>2. Fitting' = Fitting
  BY DEF Fitting, Stream!Fits
<1>3. Written = [d \in Clients |->
        Flat[SubSeq(Texts[d], 1, IF client[d] = "read" THEN next[d] ELSE next[d] - 1)]]
  BY DEF Written
<1>4. Written' = [d \in Clients |->
        Flat[SubSeq(Texts'[d], 1, IF client'[d] = "read" THEN next'[d] ELSE next'[d] - 1)]]
  BY DEF Written, Flat
<1>. QED
  BY <1>1, <1>2, <1>3, <1>4

\* A client none of whose data has changed.
LEMMA ClientSame ==
  ASSUME lengths' = lengths, kind' = kind, NEW c \in Clients, ClientOk(c),
         got'[c] = got[c], next'[c] = next[c], client'[c] = client[c], link'[c] = link[c],
         up'[c] = up[c], down'[c] = down[c], Held'[c] = Held[c],
         c \in killed' <=> c \in killed, SomeEnded => SomeEnded'
  PROVE  ClientOk(c)'
<1>1. Texts' = Texts /\ Fitting' = Fitting /\ Written'[c] = Written[c]
  BY DataSame
<1>2. TurnOf(c)'
  BY DEF ClientOk, TurnOf
<1>3. ConservedOf(c)'
  BY <1>1 DEF ClientOk, ConservedOf, Flat
<1>4. WholeOf(c)'
  BY <1>1 DEF ClientOk, WholeOf, InOnePiece, Empty
<1>5. ClosedOf(c)'
  BY DEF ClientOk, ClosedOf, Answered
<1>. QED
  BY <1>2, <1>3, <1>4, <1>5 DEF ClientOk

LEMMA ServerSame ==
  ASSUME lengths' = lengths, kind' = kind, NEW s \in Servers, ServerOk(s),
         StreamTypes, Connections,
         server'[s] = server[s], serving'[s] = serving[s], buf'[s] = buf[s],
         backlog'[s] = backlog[s], s \in killed' <=> s \in killed,
         \A c \in Clients : c = serving[s] \/ c \in Waiting[s] =>
             /\ client'[c] = client[c] /\ down'[c] = down[c] /\ next'[c] = next[c]
             /\ got'[c] = got[c] /\ (c \in killed' <=> c \in killed)
  PROVE  ServerOk(s)'
<1>1. Waiting'[s] = Waiting[s]
  BY DEF Waiting
<1>2. Waiting[s] \subseteq Clients
  <2>1. backlog[s] \in Seq(Clients)
    BY DEF StreamTypes
  <2>2. \A i \in 1 .. Len(backlog[s]) : backlog[s][i] \in Clients
    BY <2>1, ElementOfSeq
  <2>. QED
    BY <2>2 DEF Waiting
<1>3. Fitting' = Fitting
  BY DEF Fitting, Stream!Fits
<1>4. serving[s] \in Clients => Written'[serving[s]] = Written[serving[s]]
  BY DataSame
<1>5. serving[s] \in Clients \/ serving[s] = None
  BY DEF StreamTypes
<1>6. server[s] \in {"read", "write", "close"} => serving[s] \in Clients
  BY <1>5 DEF Connections
<1>7. ServingOf(s)'
  BY <1>1, <1>2, <1>6 DEF ServerOk, ServingOf, Pending, Answered
<1>8. EndOf(s)'
  <2>1. ASSUME server'[s] = "ended", s \notin killed'
        PROVE  /\ serving'[s] # None
               /\ serving'[s] \notin killed' =>
                   /\ client'[serving'[s]] = "ended" /\ serving'[s] \notin Fitting'
                   /\ Flat[got'[serving'[s]]] # Written'[serving'[s]]
    BY <1>3, <1>4, <1>5, <2>1 DEF ServerOk, EndOf
  <2>. QED
    BY <2>1 DEF EndOf, Flat
<1>. QED
  BY <1>7, <1>8 DEF ServerOk

LEMMA WaitingFacts ==
  ASSUME StreamTypes, Connections, NEW s \in Servers
  PROVE  /\ Waiting[s] \subseteq Clients
         /\ \A c \in Waiting[s] : link[c] = "open"
         /\ serving[s] \in Clients \cup {None}
         /\ server[s] \in {"read", "write", "close"} =>
              serving[s] \in Clients /\ link[serving[s]] = "open"
         /\ \A c \in Clients : serving[s] = c /\ link[c] # "open" => server[s] = "ended"
         /\ \A t \in Servers : serving[s] = serving[t] /\ serving[s] \in Clients => s = t
<1>1. Waiting[s] \subseteq Clients
  <2>1. backlog[s] \in Seq(Clients)
    BY DEF StreamTypes
  <2>2. \A i \in 1 .. Len(backlog[s]) : backlog[s][i] \in Clients
    BY <2>1, ElementOfSeq
  <2>. QED
    BY <2>2 DEF Waiting
<1>2. serving[s] \in Clients \cup {None} /\ None \notin Clients
  BY StreamConstants DEF StreamTypes
<1>. QED
  BY <1>1, <1>2 DEF Connections

\* Steps of the servers that open and close no connection.
Serving3 == {"read", "write", "close"}
LEMMA ConnectionsSame ==
  ASSUME Connections, backlog' = backlog, serving' = serving, link' = link,
         \A s \in Servers :
            \/ server'[s] = server[s]
            \/ server[s] \in Serving3 /\ server'[s] \in Serving3
            \/ /\ server[s] \in {"remove", "bind", "listen"}
               /\ server'[s] \in {"bind", "listen", "accept", "failed"}
  PROVE  Connections'
<1>1. Waiting' = Waiting
  BY DEF Waiting
<1>2. \A s \in Servers :
        /\ server'[s] \in Serving3 => serving'[s] # None
        /\ server'[s] \in {"remove", "bind", "listen", "accept", "failed"} =>
             serving'[s] = None
        /\ backlog'[s] # << >> => server'[s] \in {"accept", "read", "write", "close"}
        /\ \A i, k \in 1 .. Len(backlog'[s]) : backlog'[s][i] = backlog'[s][k] => i = k
  BY DEF Connections, Serving3
<1>3. \A s, t \in Servers :
        /\ serving'[s] = serving'[t] /\ serving'[s] # None => s = t
        /\ s # t => Waiting'[s] \cap Waiting'[t] = {}
        /\ serving'[t] \notin Waiting'[s]
  BY <1>1 DEF Connections
<1>4. \A s \in Servers : server'[s] = "ended" <=> server[s] = "ended"
  BY DEF Serving3
<1>5. \A c \in Clients :
        link'[c] = "open" <=> \E s \in Servers :
            c \in Waiting'[s] \/ (serving'[s] = c /\ server'[s] # "ended")
  BY <1>1, <1>4 DEF Connections
<1>6. \A s \in Servers : \A c \in Clients : serving'[s] = c => link'[c] # "none"
  BY DEF Connections
<1>. QED
  BY <1>2, <1>3, <1>5, <1>6 DEF Connections, Serving3

LEMMA HeldSame ==
  ASSUME StreamTypes, Connections, StreamTypes', Connections', NEW c \in Clients,
         \A s \in Servers :
            (serving'[s] = c /\ server'[s] = "write") <=> (serving[s] = c /\ server[s] = "write"),
         \A s \in Servers : serving[s] = c => buf'[s] = buf[s]
  PROVE  Held'[c] = Held[c]
<1>1. HeldIs /\ HeldIs'
  BY HeldNow, HeldNext
<1>2. CASE \E s \in Servers : serving[s] = c /\ server[s] = "write"
  <2>1. PICK s \in Servers : serving[s] = c /\ server[s] = "write"
    BY <1>2
  <2>2. Held[c] = buf[s] /\ Held'[c] = buf'[s]
    BY <1>1, <2>1 DEF HeldIs
  <2>. QED
    BY <2>1, <2>2
<1>3. CASE \A s \in Servers : serving[s] = c => server[s] # "write"
  BY <1>1, <1>3 DEF HeldIs
<1>. QED
  BY <1>2, <1>3

\* What the server of a client, or the one it waits for, can rely on after a
\* step of the client.
LEMMA ServerAfterClient ==
  ASSUME StreamInv, NEW c \in Clients, client[c] # "ended", NEW s \in Servers,
         server' = server, serving' = serving, buf' = buf, backlog' = backlog,
         kind' = kind, lengths' = lengths,
         killed' = killed \/ killed' = killed \cup {c},
         \A d \in Clients : d # c =>
            client'[d] = client[d] /\ down'[d] = down[d] /\ next'[d] = next[d] /\ got'[d] = got[d],
         kind = "average" /\ (c \in Waiting[s] \/ (serving[s] = c /\ server[s] \in {"read", "write"}))
            => Pending(c)',
         server[s] = "close" /\ serving[s] = c => client'[c] = "ended" \/ Answered(c)'
  PROVE  ServerOk(s)'
<1>0. StreamTypes /\ Connections /\ TurnOf(c) /\ ServerOk(s)
  BY DEF StreamInv, ClientOk
<1>1. s # c /\ (s \in killed' <=> s \in killed)
  BY StreamConstants
<1>2. c \notin killed
  BY <1>0 DEF TurnOf
<1>3. CASE serving[s] # c /\ c \notin Waiting[s]
  <2>1. \A d \in Clients : d = serving[s] \/ d \in Waiting[s] =>
             /\ client'[d] = client[d] /\ down'[d] = down[d] /\ next'[d] = next[d]
             /\ got'[d] = got[d] /\ (d \in killed' <=> d \in killed)
    BY <1>3
  <2>. QED
    BY <1>0, <1>1, <2>1, ServerSame
<1>4. Waiting'[s] = Waiting[s] /\ Waiting[s] \subseteq Clients
  BY <1>0, WaitingFacts DEF Waiting
<1>5. \A d \in Clients : d # c /\ Pending(d) => Pending(d)'
  BY DEF Pending
<1>6. serving[s] \in Clients \cup {None}
  BY <1>0, WaitingFacts
<1>7. CASE serving[s] = c
  <2>1. server[s] # "ended" \/ s \in killed
    BY <1>0, <1>2, <1>7 DEF ServerOk, EndOf
  <2>2. EndOf(s)'
    BY <1>1, <2>1 DEF EndOf
  <2>3. kind = "average" => \A d \in Waiting[s] : Pending(d)'
    BY <1>0, <1>4, <1>5 DEF ServerOk, ServingOf
  <2>4. kind = "average" /\ server[s] \in {"read", "write"} => Pending(c)'
    BY <1>7
  <2>5. server'[s] = "write" /\ serving'[s] \notin killed' => buf'[s] # << >>
    BY <1>0, <1>7 DEF ServerOk, ServingOf
  <2>6. server[s] = "close" => client'[c] = "ended" \/ Answered(c)'
    BY <1>7
  <2>7. ServingOf(s)'
    BY <1>4, <1>7, <2>3, <2>4, <2>5, <2>6 DEF ServingOf, Pending, Answered
  <2>. QED
    BY <2>2, <2>7 DEF ServerOk
<1>8. CASE c \in Waiting[s] /\ serving[s] # c
  <2>1. kind = "average" => \A d \in Waiting[s] : Pending(d)'
    BY <1>0, <1>4, <1>5 DEF ServerOk, ServingOf
  <2>2. server[s] \in {"read", "write", "close"} => serving[s] \in Clients
    BY <1>0, WaitingFacts
  <2>3. ServingOf(s)'
    BY <1>0, <1>4, <1>8, <2>1, <2>2 DEF ServerOk, ServingOf, Pending, Answered
  <2>4. serving[s] \in Clients => Written'[serving[s]] = Written[serving[s]]
    BY <1>8, DataSame
  <2>5. Fitting' = Fitting
    BY DEF Fitting, Stream!Fits
  <2>6. ASSUME server'[s] = "ended", s \notin killed'
        PROVE  /\ serving'[s] # None
               /\ serving'[s] \notin killed' =>
                   /\ client'[serving'[s]] = "ended" /\ serving'[s] \notin Fitting'
                   /\ Flat[got'[serving'[s]]] # Written'[serving'[s]]
    BY <1>0, <1>1, <1>6, <1>8, <2>4, <2>5, <2>6 DEF ServerOk, EndOf
  <2>7. EndOf(s)'
    BY <2>6 DEF EndOf, Flat
  <2>. QED
    BY <2>3, <2>7 DEF ServerOk
<1>. QED
  BY <1>3, <1>7, <1>8

-----------------------------------------------------------------------------
(* The actions of a client, once it is connected *)

LEMMA HeldByServers ==
  ASSUME server' = server, serving' = serving, buf' = buf
  PROVE  Held' = Held
BY DEF Held, Stream!AtServer

LEMMA ClientStepKeeps ==
  ASSUME StreamInv, NEW c \in Clients, client[c] # "ended", StreamTypes',
         server' = server, serving' = serving, buf' = buf, backlog' = backlog,
         link' = link, kind' = kind, lengths' = lengths,
         killed' = killed \/ killed' = killed \cup {c},
         \A d \in Clients : d # c =>
            /\ client'[d] = client[d] /\ down'[d] = down[d] /\ next'[d] = next[d]
            /\ got'[d] = got[d] /\ up'[d] = up[d],
         ClientOk(c)',
         kind = "average" /\ link[c] = "open" /\ Pending(c) => Pending(c)',
         kind = "average" /\ link[c] = "open" /\ Answered(c) =>
            client'[c] = "ended" \/ Answered(c)'
  PROVE  StreamInv'
<1>0. StreamTypes /\ Connections
  BY DEF StreamInv
<1>1. Connections'
  BY <1>0, ConnectionsSame
<1>2. ASSUME NEW d \in Clients PROVE ClientOk(d)'
  <2>1. Held'[d] = Held[d] /\ (SomeEnded => SomeEnded')
    BY HeldByServers DEF SomeEnded
  <2>2. ClientOk(d)
    BY DEF StreamInv
  <2>3. CASE d # c
    BY <2>1, <2>2, <2>3, ClientSame
  <2>. QED
    BY <2>3
<1>3. ASSUME NEW s \in Servers PROVE ServerOk(s)'
  <2>1. ServerOk(s)
    BY DEF StreamInv
  <2>2. kind = "average" /\ (c \in Waiting[s] \/ (serving[s] = c /\ server[s] \in {"read", "write"}))
            => Pending(c)'
    BY <1>0, <2>1, WaitingFacts DEF ServerOk, ServingOf
  <2>3. server[s] = "close" /\ serving[s] = c => client'[c] = "ended" \/ Answered(c)'
    BY <1>0, <2>1, WaitingFacts DEF ServerOk, ServingOf, Answered
  <2>. QED
    BY <2>2, <2>3, ServerAfterClient
<1>. QED
  BY <1>1, <1>2, <1>3 DEF StreamInv

\* The client ends, for whatever reason, without another read().
LEMMA StreamGivesUp ==
  ASSUME StreamInv, NEW c \in Clients,
         client[c] # "ended", client' = [client EXCEPT ![c] = "ended"],
         (killed' = killed /\ link[c] # "open") \/ killed' = killed \cup {c},
         UNCHANGED <<kind, path, server, backlog, serving, buf, lengths, next, up, down,
                     link, got>>
  PROVE  StreamInv'
<1>0. StreamTypes /\ Connections /\ ClientOk(c)
  BY DEF StreamInv
<1>1. client'[c] = "ended" /\ \A d \in Clients : d # c => client'[d] = client[d]
  BY <1>0 DEF StreamTypes
<1>2. StreamTypes'
  BY <1>0 DEF StreamTypes
<1>3. Held' = Held /\ Texts' = Texts /\ Fitting' = Fitting
  BY HeldByServers, DataSame
<1>4. TurnOf(c)'
  BY <1>0, <1>1 DEF ClientOk, TurnOf
<1>5. ConservedOf(c)'
  BY DEF ConservedOf
<1>6. WholeOf(c)'
  BY <1>0, <1>1, <1>3 DEF ClientOk, WholeOf
<1>7. ClosedOf(c)'
  BY <1>0, <1>1 DEF ClientOk, ClosedOf, SomeEnded
<1>8. ClientOk(c)'
  BY <1>4, <1>5, <1>6, <1>7 DEF ClientOk
<1>9. link[c] = "open" /\ Pending(c) => Pending(c)'
  BY DEF Pending
<1>. QED
  BY <1>1, <1>2, <1>8, <1>9, ClientStepKeeps

LEMMA StreamRefused ==
  ASSUME StreamInv, NEW c \in Clients,
         \/ Stream!Refused(c) \/ Stream!ClientBrokenPipe(c)
         \/ Stream!ClientReadFails(c) \/ Stream!KillClient(c)
  PROVE  StreamInv'
<1>1. client[c] = "connect" => link[c] # "open"
  BY DEF StreamInv, ClientOk, TurnOf
<1>2. client[c] # "ended" /\ client' = [client EXCEPT ![c] = "ended"]
  BY DEF Stream!Refused, Stream!ClientBrokenPipe, Stream!ClientReadFails,
         Stream!KillClient, Stream!Move
<1>3. (killed' = killed /\ link[c] # "open") \/ killed' = killed \cup {c}
  BY <1>1 DEF Stream!Refused, Stream!ClientBrokenPipe, Stream!ClientReadFails,
              Stream!KillClient, Stream!Move
<1>4. UNCHANGED <<kind, path, server, backlog, serving, buf, lengths, next, up, down,
                  link, got>>
  BY DEF Stream!Refused, Stream!ClientBrokenPipe, Stream!ClientReadFails,
         Stream!KillClient, Stream!ClientRest
<1>. QED
  BY <1>2, <1>3, <1>4, StreamGivesUp

LEMMA StreamClientWrite ==
  ASSUME StreamInv, NEW c \in Clients, Stream!ClientWrite(c)
  PROVE  StreamInv'
<1>0. StreamTypes /\ Connections /\ TurnOf(c) /\ ConservedOf(c) /\ WholeOf(c) /\ ClosedOf(c)
  BY DEF StreamInv, ClientOk
<1>1. /\ client[c] = "write" /\ client' = [client EXCEPT ![c] = "read"] /\ link[c] = "open"
      /\ up' = [up EXCEPT ![c] = @ \o Stream!Bytes(c, next[c])]
      /\ UNCHANGED <<kind, path, server, backlog, serving, buf, lengths, killed, next,
                     down, link, got>>
  BY DEF Stream!ClientWrite, Stream!Move, Stream!ClientRest
<1>2. next[c] \in 1 .. Len(lengths[c]) /\ c \notin killed /\ next[c] \in Nat
  BY <1>0, <1>1, TextFacts DEF TurnOf, StreamTypes
<1> DEFINE text == Texts[c][next[c]]
<1>3. /\ text \in Strings /\ text = Stream!Bytes(c, next[c])
      /\ Texts[c] \in Seq(Strings) /\ next[c] \in 1 .. Len(Texts[c])
  BY <1>0, <1>2, TextFacts
<1>4. up[c] \in Strings /\ down[c] \in Strings /\ Held[c] \in Strings /\ got[c] \in Seq(Strings)
  BY <1>0, HeldNow DEF StreamTypes, HeldIs
<1>5. Then(up[c], text) \in Strings /\ text \in Strings
  BY <1>3, <1>4, StringFacts
<1>6. /\ client'[c] = "read" /\ up'[c] = Then(up[c], text)
      /\ \A d \in Clients : d # c => client'[d] = client[d] /\ up'[d] = up[d]
  BY <1>0, <1>1, <1>3 DEF StreamTypes, Then
<1>7. StreamTypes'
  <2>1. up' \in [Clients -> Strings]
    BY <1>0, <1>1, <1>3, <1>5 DEF StreamTypes, Then
  <2>2. client' \in [Clients -> {"connect", "write", "read", "ended"}]
    BY <1>0, <1>1 DEF StreamTypes
  <2> HIDE DEF text
  <2>. QED
    BY <1>0, <1>1, <2>1, <2>2 DEF StreamTypes
<1>8. Held' = Held /\ Texts' = Texts /\ Fitting' = Fitting
  BY <1>1, HeldByServers, DataSame
<1>9. Written'[c] = Then(Written[c], text)
  <2>1. Written[c] = Flat[SubSeq(Texts[c], 1, next[c] - 1)]
    BY <1>1, DataSame
  <2>2. Written'[c] = Flat[SubSeq(Texts[c], 1, next[c])]
    BY <1>1, <1>6, DataSame
  <2>3. Flat[SubSeq(Texts[c], 1, next[c])] = Then(Flat[SubSeq(Texts[c], 1, next[c] - 1)], text)
    BY <1>3, WrittenNext
  <2>. QED
    BY <2>1, <2>2, <2>3
<1> HIDE DEF text
<1>10. TurnOf(c)'
  BY <1>0, <1>1, <1>2, <1>6 DEF TurnOf
<1>11. ConservedOf(c)'
  <2> DEFINE f == Flat[got[c]]
             w == OnTheWay(down[c], Held[c], up[c])
  <2>1. Then(f, w) = Written[c]
    BY <1>0, <1>1, <1>2 DEF ConservedOf
  <2>2. f \in Strings /\ w \in Strings
    BY <1>4, FlatFacts, OnTheWayFacts
  <2>3. OnTheWay(down[c], Held[c], Then(up[c], text)) = Then(w, text)
    <3>1. /\ up[c] \in Strings /\ down[c] \in Strings /\ Held[c] \in Strings
          /\ text \in Strings
      BY <1>4, <1>5
    <3>2. \A d, h, u, t \in Strings : OnTheWay(d, h, Then(u, t)) = Then(OnTheWay(d, h, u), t)
      BY OnTheWayFacts
    <3>. QED
      BY <3>1, <3>2
  <2> HIDE DEF f, w
  <2>6. text \in Strings
    BY <1>5
  <2>4. Then(f, Then(w, text)) = Then(Then(f, w), text)
    BY <2>6, <2>2, StringFacts
  <2>5. Then(f, OnTheWay(down[c], Held[c], Then(up[c], text))) = Then(Written[c], text)
    BY <2>1, <2>3, <2>4
  <2>. QED
    BY <1>1, <1>6, <1>8, <1>9, <2>5 DEF f, ConservedOf, Flat
<1>12. WholeOf(c)'
  <2>1. ASSUME c \in Fitting PROVE Empty(c)
    BY <1>0, <1>1, <1>2, <2>1 DEF WholeOf
  <2>2. Then(<< >>, text) = text
    BY <1>5, StringFacts
  <2>3. Texts'[c][next'[c]] = text
    BY <1>1, <1>8 DEF text
  <2>4. ASSUME c \in Fitting PROVE InOnePiece(c, text)'
    BY <1>1, <1>6, <1>8, <2>1, <2>2, <2>4 DEF InOnePiece, Empty, text
  <2>. QED
    BY <1>0, <1>1, <1>6, <1>8, <2>3, <2>4 DEF WholeOf, text
<1>13. ClosedOf(c)'
  BY <1>0, <1>1, <1>6 DEF ClosedOf, SomeEnded
<1>14. ClientOk(c)'
  BY <1>10, <1>11, <1>12, <1>13 DEF ClientOk
<1>15. Pending(c)  => Pending(c)'
  BY <1>1, <1>6 DEF Pending
<1>16. ~Answered(c)
  BY <1>1 DEF Answered
<1>. QED
  BY <1>1, <1>6, <1>7, <1>14, <1>15, <1>16, ClientStepKeeps

\* After a read() that returned r.
LEMMA AfterReadFacts ==
  ASSUME StreamTypes, NEW c \in Clients, TurnOf(c), NEW r \in Strings, client[c] = "read",
         client' = [client EXCEPT ![c] = IF next[c] < Len(lengths[c]) THEN "write" ELSE "ended"],
         next' = [next EXCEPT ![c] = @ + 1],
         got' = [got EXCEPT ![c] = Append(@, r)],
         lengths' = lengths, killed' = killed, link' = link,
         UNCHANGED <<kind, path, server, backlog, serving, buf, up>>,
         down' \in [Clients -> Strings]
  PROVE  /\ StreamTypes' /\ c \notin killed
         /\ next[c] \in 1 .. Len(lengths[c]) /\ next'[c] = next[c] + 1
         /\ next'[c] - 1 = next[c]
         /\ client'[c] \in {"write", "ended"}
         /\ client'[c] = "write" => next'[c] <= Len(lengths[c])
         /\ Len(lengths[c]) = 1 => client'[c] = "ended"
         /\ got'[c] = Append(got[c], r) /\ Len(got'[c]) = next[c]
         /\ got'[c][next[c]] = r
         /\ \A i \in 1 .. Len(got[c]) : got'[c][i] = got[c][i]
         /\ \A i \in 1 .. Len(got'[c]) : i \in 1 .. Len(got[c]) \/ i = next[c]
         /\ Written'[c] = Written[c]
         /\ TurnOf(c)'
         /\ \A d \in Clients : d # c =>
              client'[d] = client[d] /\ next'[d] = next[d] /\ got'[d] = got[d]
<1>1. Len(lengths[c]) \in Nat \ {0} /\ next[c] \in Nat \ {0} /\ got[c] \in Seq(Strings)
  BY TextFacts DEF StreamTypes
<1>2. next[c] <= Len(lengths[c]) /\ Len(got[c]) = next[c] - 1 /\ c \notin killed /\ link[c] # "none"
  BY DEF TurnOf
<1>3. /\ Append(got[c], r) \in Seq(Strings) /\ Len(Append(got[c], r)) = next[c]
      /\ Append(got[c], r)[next[c]] = r
      /\ \A i \in 1 .. Len(got[c]) : Append(got[c], r)[i] = got[c][i]
  BY <1>1, <1>2, AppendProperties
<1>4. /\ client'[c] = IF next[c] < Len(lengths[c]) THEN "write" ELSE "ended"
      /\ next'[c] = next[c] + 1 /\ got'[c] = Append(got[c], r)
      /\ \A d \in Clients : d # c =>
           client'[d] = client[d] /\ next'[d] = next[d] /\ got'[d] = got[d]
  BY DEF StreamTypes
<1>5. /\ client' \in [Clients -> {"connect", "write", "read", "ended"}]
      /\ next' \in [Clients -> Nat \ {0}]
      /\ got' \in [Clients -> Seq(Strings)]
  <2>1. got' \in [Clients -> Seq(Strings)]
    BY <1>3 DEF StreamTypes
  <2>2. next' \in [Clients -> Nat \ {0}]
    BY <1>1 DEF StreamTypes
  <2>3. client' \in [Clients -> {"connect", "write", "read", "ended"}]
    BY DEF StreamTypes
  <2>. QED
    BY <2>1, <2>2, <2>3
<1>6. StreamTypes'
  BY <1>5 DEF StreamTypes
<1>7. client'[c] \in {"write", "ended"}
  BY <1>4
<1>8. \A n, m \in Nat \ {0} : n <= m =>
        /\ n \in 1 .. m /\ n + 1 - 1 = n /\ (n < m => n + 1 <= m) /\ n + 1 <= m + 1
        /\ (m = 1 => ~(n < m)) /\ \A i \in 1 .. n : i \in 1 .. n - 1 \/ i = n
  OBVIOUS
<1>9. /\ next[c] \in 1 .. Len(lengths[c]) /\ next'[c] - 1 = next[c]
      /\ client'[c] = "write" => next'[c] <= Len(lengths[c])
      /\ next'[c] <= Len(lengths[c]) + 1
      /\ Len(lengths[c]) = 1 => client'[c] = "ended"
      /\ \A i \in 1 .. next[c] : i \in 1 .. Len(got[c]) \/ i = next[c]
  <2> DEFINE n == next[c]
             m == Len(lengths[c])
  <2>1. n \in Nat \ {0} /\ m \in Nat \ {0} /\ n <= m
    BY <1>1, <1>2
  <2> HIDE DEF n, m
  <2>2. /\ n \in 1 .. m /\ n + 1 - 1 = n /\ (n < m => n + 1 <= m) /\ n + 1 <= m + 1
        /\ (m = 1 => ~(n < m)) /\ \A i \in 1 .. n : i \in 1 .. n - 1 \/ i = n
    BY <2>1, <1>8
  <2>3. \A i \in 1 .. next[c] : i \in 1 .. Len(got[c]) \/ i = next[c]
    BY <1>2, <2>2 DEF n
  <2>. QED
    BY <1>4, <2>2, <2>3 DEF n, m
<1>10. Written'[c] = Written[c]
  BY <1>7, <1>9, DataSame
<1>11. TurnOf(c)'
  BY <1>2, <1>3, <1>4, <1>7, <1>9 DEF TurnOf
<1>. QED
  BY <1>2, <1>3, <1>4, <1>6, <1>7, <1>9, <1>10, <1>11

LEMMA StreamClientEOF ==
  ASSUME StreamInv, NEW c \in Clients, Stream!ClientEOF(c)
  PROVE  StreamInv'
<1>0. StreamTypes /\ Connections /\ TurnOf(c) /\ WholeOf(c) /\ ClosedOf(c)
  BY DEF StreamInv, ClientOk
<1>1. /\ client[c] = "read" /\ down[c] = << >> /\ link[c] = "closed"
      /\ client' = [client EXCEPT ![c] = IF next[c] < Len(lengths[c]) THEN "write" ELSE "ended"]
      /\ next' = [next EXCEPT ![c] = @ + 1]
      /\ got' = [got EXCEPT ![c] = Append(@, << >>)]
      /\ UNCHANGED <<kind, path, server, backlog, serving, buf, lengths, killed, up, down, link>>
  BY DEF Stream!ClientEOF, Stream!AfterRead, Stream!Move, Stream!ClientRest
<1>2. << >> \in Strings /\ down' \in [Clients -> Strings]
  BY <1>0, <1>1, FlatFacts DEF StreamTypes
<1>3. /\ StreamTypes' /\ c \notin killed /\ TurnOf(c)'
      /\ next[c] \in 1 .. Len(lengths[c])
      /\ client'[c] \in {"write", "ended"}
      /\ got'[c][next[c]] = << >>
      /\ \A i \in 1 .. Len(got[c]) : got'[c][i] = got[c][i]
      /\ \A i \in 1 .. Len(got'[c]) : i \in 1 .. Len(got[c]) \/ i = next[c]
      /\ \A d \in Clients : d # c =>
           client'[d] = client[d] /\ next'[d] = next[d] /\ got'[d] = got[d]
  BY <1>0, <1>1, <1>2, AfterReadFacts
<1>4. Held' = Held /\ Texts' = Texts /\ Fitting' = Fitting
  BY <1>1, HeldByServers, DataSame
<1>5. ConservedOf(c)'
  BY <1>1 DEF ConservedOf
<1>6. Held[c] = << >>
  <2>1. \A s \in Servers : serving[s] = c => server[s] = "ended"
    BY <1>0, <1>1, WaitingFacts
  <2>. QED
    BY <1>0, <2>1, HeldNow DEF HeldIs
<1>7. WholeOf(c)'
  <2>1. Empty(c)'
    BY <1>0, <1>1, <1>4, <1>6 DEF Empty, ClosedOf
  <2>2. ASSUME c \in Fitting, NEW i \in 1 .. Len(got'[c])
        PROVE  got'[c][i] \in {<< >>, Texts[c][i]}
    BY <1>0, <1>3, <2>2 DEF WholeOf
  <2>. QED
    BY <1>3, <1>4, <2>1, <2>2 DEF WholeOf
<1>8. SomeEnded
  BY <1>0, <1>1 DEF ClosedOf, Answered
<1>9. ClosedOf(c)'
  BY <1>0, <1>1, <1>8 DEF ClosedOf, SomeEnded
<1>10. ClientOk(c)'
  BY <1>3, <1>5, <1>7, <1>9 DEF ClientOk
<1>. QED
  BY <1>1, <1>3, <1>10, ClientStepKeeps

LEMMA StreamClientRead ==
  ASSUME StreamInv, NEW c \in Clients, Stream!ClientRead(c)
  PROVE  StreamInv'
<1>0. StreamTypes /\ Connections /\ TurnOf(c) /\ ConservedOf(c) /\ WholeOf(c) /\ ClosedOf(c)
  BY DEF StreamInv, ClientOk
<1> DEFINE chunk == Stream!Chunk(down[c], BUF_SIZE - 1)
           rest == Stream!Rest(down[c], BUF_SIZE - 1)
<1>1. /\ client[c] = "read" /\ down[c] # << >>
      /\ client' = [client EXCEPT ![c] = IF next[c] < Len(lengths[c]) THEN "write" ELSE "ended"]
      /\ next' = [next EXCEPT ![c] = @ + 1]
      /\ got' = [got EXCEPT ![c] = Append(@, chunk)]
      /\ down' = [down EXCEPT ![c] = rest]
      /\ UNCHANGED <<kind, path, server, backlog, serving, buf, lengths, killed, up, link>>
  BY DEF Stream!ClientRead, Stream!AfterRead, Stream!Move, Stream!ClientRest, StreamTypes
<1>2. /\ got[c] \in Seq(Strings) /\ down[c] \in Strings /\ up[c] \in Strings
      /\ Held[c] \in Strings
  BY <1>0, HeldNow DEF StreamTypes, HeldIs
<1>3. /\ chunk \in Strings /\ rest \in Strings
      /\ down[c] = Then(chunk, rest) /\ chunk # << >>
      /\ Len(down[c]) <= BUF_SIZE - 1 => chunk = down[c] /\ rest = << >>
  <2>1. BUF_SIZE - 1 \in Nat \ {0}
    BY StreamConstants
  <2>. QED
    BY <1>1, <1>2, <2>1, ReadBytes
<1> HIDE DEF chunk, rest
<1>4. /\ down'[c] = rest /\ down' \in [Clients -> Strings]
      /\ \A d \in Clients : d # c => down'[d] = down[d]
  BY <1>0, <1>1, <1>3 DEF StreamTypes
<1>5. /\ StreamTypes' /\ c \notin killed /\ TurnOf(c)'
      /\ next[c] \in 1 .. Len(lengths[c])
      /\ client'[c] \in {"write", "ended"}
      /\ Len(lengths[c]) = 1 => client'[c] = "ended"
      /\ got'[c][next[c]] = chunk /\ got'[c] = Append(got[c], chunk)
      /\ \A i \in 1 .. Len(got[c]) : got'[c][i] = got[c][i]
      /\ \A i \in 1 .. Len(got'[c]) : i \in 1 .. Len(got[c]) \/ i = next[c]
      /\ Written'[c] = Written[c]
      /\ \A d \in Clients : d # c =>
           client'[d] = client[d] /\ next'[d] = next[d] /\ got'[d] = got[d]
  BY <1>0, <1>1, <1>3, <1>4, AfterReadFacts
<1>6. Held' = Held /\ Texts' = Texts /\ Fitting' = Fitting
  BY <1>1, HeldByServers, DataSame
<1>7. ConservedOf(c)'
  <2> SUFFICES ASSUME link[c] = "open"
               PROVE  Then(Flat[got'[c]], OnTheWay(rest, Held[c], up[c])) = Written[c]
    BY <1>1, <1>4, <1>5, <1>6 DEF ConservedOf, Flat
  <2>1. Then(Flat[got[c]], OnTheWay(down[c], Held[c], up[c])) = Written[c]
    BY <1>0, <1>5 DEF ConservedOf
  <2>2. Flat[got'[c]] = Then(Flat[got[c]], chunk) /\ Flat[got[c]] \in Strings
    BY <1>2, <1>3, <1>5, FlatFacts
  <2> DEFINE f == Flat[got[c]]
             h == Held[c]
             u == up[c]
             w == OnTheWay(rest, h, u)
  <2>3. f \in Strings /\ h \in Strings /\ u \in Strings
    BY <1>2, <2>2
  <2>4. chunk \in Strings /\ rest \in Strings
    BY <1>3
  <2> HIDE DEF f, h, u
  <2>5. w \in Strings
    BY <2>3, <2>4, OnTheWayFacts
  <2>6. OnTheWay(Then(chunk, rest), h, u) = Then(chunk, w)
    <3>1. \A x, y, m, n \in Strings :
            OnTheWay(Then(x, y), m, n) = Then(x, OnTheWay(y, m, n))
      BY OnTheWayFacts
    <3>. QED
      BY <2>3, <2>4, <3>1
  <2> HIDE DEF w
  <2>7. Then(Then(f, chunk), w) = Then(f, Then(chunk, w))
    BY <2>3, <2>4, <2>5, StringFacts
  <2>8. Then(f, OnTheWay(down[c], h, u)) = Written[c]
    BY <2>1 DEF f, h, u
  <2>9. Then(Then(f, chunk), w) = Written[c]
    BY <1>3, <2>6, <2>7, <2>8
  <2>. QED
    BY <2>2, <2>9 DEF f, h, u, w
<1>8. ASSUME c \in Fitting
      PROVE  /\ up[c] = << >> /\ Held[c] = << >> /\ chunk = Texts[c][next[c]]
             /\ rest = << >>
  <2>1. InOnePiece(c, Texts[c][next[c]])
    BY <1>0, <1>1, <1>5, <1>8 DEF WholeOf
  <2>2. up[c] = << >> /\ Held[c] = << >> /\ down[c] = Texts[c][next[c]]
    BY <1>1, <2>1 DEF InOnePiece, Empty
  <2>3. Len(Texts[c][next[c]]) <= BUF_SIZE - 1
    BY <1>0, <1>5, <1>8, FitFacts
  <2>. QED
    BY <1>3, <2>2, <2>3
<1>9. WholeOf(c)'
  <2>1. ASSUME c \in Fitting PROVE Empty(c)'
    BY <1>1, <1>4, <1>6, <1>8, <2>1 DEF Empty
  <2>2. ASSUME c \in Fitting, NEW i \in 1 .. Len(got'[c])
        PROVE  got'[c][i] \in {<< >>, Texts[c][i]}
    BY <1>0, <1>5, <1>8, <2>2 DEF WholeOf
  <2>. QED
    BY <1>5, <1>6, <2>1, <2>2 DEF WholeOf
<1>10. kind = "average" => client'[c] = "ended"
  BY <1>0, <1>5, FitFacts
<1>11. ClosedOf(c)'
  <2>1. ASSUME NEW i \in 1 .. Len(got'[c]), got'[c][i] = << >> PROVE SomeEnded
    BY <1>0, <1>3, <1>5, <2>1 DEF ClosedOf
  <2>. QED
    BY <1>0, <1>1, <1>10, <2>1 DEF ClosedOf, SomeEnded, Answered
<1>12. ClientOk(c)'
  BY <1>5, <1>7, <1>9, <1>11 DEF ClientOk
<1>13. ~Pending(c)
  BY <1>1 DEF Pending
<1>. QED
  BY <1>1, <1>4, <1>5, <1>10, <1>12, <1>13, ClientStepKeeps

LEMMA StreamConnect ==
  ASSUME StreamInv, NEW c \in Clients, Stream!Connect(c)
  PROVE  StreamInv'
<1>0. StreamTypes /\ Connections /\ TurnOf(c) /\ WholeOf(c) /\ ClosedOf(c)
  BY DEF StreamInv, ClientOk
<1>1. /\ client[c] = "connect" /\ client' = [client EXCEPT ![c] = "write"]
      /\ path # None /\ server[path] \in {"accept", "read", "write", "close"}
      /\ backlog' = [backlog EXCEPT ![path] = Append(@, c)]
      /\ link' = [link EXCEPT ![c] = "open"]
      /\ UNCHANGED <<kind, path, server, killed, serving, buf, lengths, next, up, down, got>>
  BY DEF Stream!Connect, Stream!Move, Stream!Reachable
<1>2. PICK t \in Servers : path = t
  BY <1>0, <1>1 DEF StreamTypes
<1>3. /\ link[c] = "none" /\ next[c] = 1 /\ up[c] = << >> /\ down[c] = << >>
      /\ Len(got[c]) = 0 /\ c \notin killed
  BY <1>0, <1>1 DEF TurnOf
<1>4. /\ backlog[t] \in Seq(Clients)
      /\ Append(backlog[t], c) \in Seq(Clients)
      /\ Len(backlog[t]) \in Nat
      /\ Len(Append(backlog[t], c)) = Len(backlog[t]) + 1
      /\ \A i \in 1 .. Len(backlog[t]) : Append(backlog[t], c)[i] = backlog[t][i]
      /\ Append(backlog[t], c)[Len(backlog[t]) + 1] = c
  BY <1>0, AppendProperties, LenProperties DEF StreamTypes
<1>5. /\ client'[c] = "write" /\ link'[c] = "open" /\ backlog'[t] = Append(backlog[t], c)
      /\ \A d \in Clients : d # c => client'[d] = client[d] /\ link'[d] = link[d]
      /\ \A s \in Servers : s # t => backlog'[s] = backlog[s]
  BY <1>0, <1>1, <1>2 DEF StreamTypes
<1>6. StreamTypes'
  <2>1. /\ client' \in [Clients -> {"connect", "write", "read", "ended"}]
        /\ link' \in [Clients -> {"none", "open", "closed", "reset"}]
        /\ backlog' \in [Servers -> Seq(Clients)]
    BY <1>0, <1>1, <1>2, <1>4 DEF StreamTypes
  <2>. QED
    BY <1>0, <1>1, <2>1 DEF StreamTypes
<1>7. \A s \in Servers : c \notin Waiting[s] /\ serving[s] # c
  <2>1. link[c] # "open"
    BY <1>3
  <2>2. ASSUME NEW s \in Servers PROVE c \notin Waiting[s]
    BY <1>0, <2>1, WaitingFacts
  <2>3. ASSUME NEW s \in Servers PROVE serving[s] # c
    BY <1>0, <1>3 DEF Connections
  <2>. QED
    BY <2>2, <2>3
<1>8. Waiting'[t] = Waiting[t] \cup {c}
  <2>1. \A i \in 1 .. Len(backlog[t]) + 1 : i \in 1 .. Len(backlog[t]) \/ i = Len(backlog[t]) + 1
    BY <1>4
  <2>2. \A i \in 1 .. Len(backlog[t]) : i \in 1 .. Len(backlog[t]) + 1
    BY <1>4
  <2>3. Len(backlog[t]) + 1 \in 1 .. Len(backlog[t]) + 1
    BY <1>4
  <2>4. /\ Waiting'[t] = {backlog'[t][i] : i \in 1 .. Len(backlog[t]) + 1}
        /\ Waiting[t] = {backlog[t][i] : i \in 1 .. Len(backlog[t])}
    BY <1>4, <1>5 DEF Waiting
  <2>5. ASSUME NEW d PROVE d \in Waiting'[t] <=> d \in Waiting[t] \cup {c}
    BY <1>4, <1>5, <2>1, <2>2, <2>3, <2>4
  <2>. QED
    BY <2>5
<1>9. \A s \in Servers : s # t => Waiting'[s] = Waiting[s]
  BY <1>5 DEF Waiting
<1>10. Connections'
  <2>1. ASSUME NEW s \in Servers
        PROVE  /\ server'[s] \in {"read", "write", "close"} => serving'[s] # None
               /\ server'[s] \in {"remove", "bind", "listen", "accept", "failed"} =>
                    serving'[s] = None
               /\ backlog'[s] # << >> => server'[s] \in {"accept", "read", "write", "close"}
    BY <1>0, <1>1, <1>2, <1>5 DEF Connections
  <2>2. ASSUME NEW s \in Servers,
               NEW i \in 1 .. Len(backlog'[s]), NEW k \in 1 .. Len(backlog'[s]),
               backlog'[s][i] = backlog'[s][k]
        PROVE  i = k
    <3>1. CASE s # t
      BY <1>0, <1>5, <2>2, <3>1 DEF Connections
    <3>2. CASE s = t
      <4>1. \A j \in 1 .. Len(backlog[t]) + 1 : j \in 1 .. Len(backlog[t]) \/ j = Len(backlog[t]) + 1
        BY <1>4
      <4>2. \A j \in 1 .. Len(backlog[t]) : backlog[t][j] # c
        BY <1>7 DEF Waiting
      <4>3. \A x, y \in 1 .. Len(backlog[t]) : backlog[t][x] = backlog[t][y] => x = y
        BY <1>0 DEF Connections
      <4>. QED
        BY <1>4, <1>5, <2>2, <3>2, <4>1, <4>2, <4>3
    <3>. QED
      BY <3>1, <3>2
  <2>3. ASSUME NEW s \in Servers, NEW r \in Servers
        PROVE  /\ serving'[s] = serving'[r] /\ serving'[s] # None => s = r
               /\ s # r => Waiting'[s] \cap Waiting'[r] = {}
               /\ serving'[r] \notin Waiting'[s]
    <3>1. /\ serving[s] = serving[r] /\ serving[s] # None => s = r
          /\ s # r => Waiting[s] \cap Waiting[r] = {}
          /\ serving[r] \notin Waiting[s]
      BY <1>0 DEF Connections
    <3>2. Waiting'[s] = Waiting[s] \/ (s = t /\ Waiting'[s] = Waiting[s] \cup {c})
      BY <1>8, <1>9
    <3>3. Waiting'[r] = Waiting[r] \/ (r = t /\ Waiting'[r] = Waiting[r] \cup {c})
      BY <1>8, <1>9
    <3>4. c \notin Waiting[s] /\ c \notin Waiting[r] /\ serving[r] # c
      BY <1>7
    <3>. QED
      BY <1>1, <3>1, <3>2, <3>3, <3>4
  <2>4. ASSUME NEW d \in Clients
        PROVE  link'[d] = "open" <=> \E s \in Servers :
                 d \in Waiting'[s] \/ (serving'[s] = d /\ server'[s] # "ended")
    <3>1. CASE d = c
      BY <1>5, <1>8, <3>1
    <3>2. CASE d # c
      <4>1. \A s \in Servers : d \in Waiting'[s] <=> d \in Waiting[s]
        BY <1>8, <1>9, <3>2
      <4>2. link[d] = "open" <=> \E s \in Servers :
                 d \in Waiting[s] \/ (serving[s] = d /\ server[s] # "ended")
        BY <1>0 DEF Connections
      <4>. QED
        BY <1>1, <1>5, <3>2, <4>1, <4>2
    <3>. QED
      BY <3>1, <3>2
  <2>5. \A s \in Servers : \A d \in Clients : serving'[s] = d => link'[d] # "none"
    BY <1>0, <1>1, <1>5 DEF Connections
  <2>. QED
    BY <2>1, <2>2, <2>3, <2>4, <2>5 DEF Connections
<1>11. Held' = Held /\ Texts' = Texts /\ Fitting' = Fitting
  BY <1>1, HeldByServers, DataSame
<1>12. Held[c] = << >>
  BY <1>0, <1>7, HeldNow DEF HeldIs
<1>13. TurnOf(c)'
  <2>1. Len(lengths[c]) \in Nat \ {0}
    BY <1>0, TextFacts
  <2>2. \A n \in Nat \ {0} : 1 <= n /\ 1 <= n + 1 /\ 0 = 1 - 1
    OBVIOUS
  <2>. QED
    BY <1>1, <1>3, <1>5, <2>1, <2>2 DEF TurnOf
<1>14. ConservedOf(c)'
  <2>1. got[c] = << >>
    BY <1>0, <1>3, EmptySeq DEF StreamTypes
  <2>2. Written'[c] = << >>
    <3>1. Written'[c] = Flat[SubSeq(Texts[c], 1, 1 - 1)]
      BY <1>1, <1>3, <1>5, DataSame
    <3>2. SubSeq(Texts[c], 1, 0) = << >>
      BY <1>0, TextFacts, WrittenNext
    <3>3. 1 - 1 = 0
      OBVIOUS
    <3>. QED
      BY <3>1, <3>2, <3>3, FlatFacts
  <2>3. Then(<< >>, << >>) = << >>
    BY FlatFacts, StringFacts
  <2>4. Then(Flat[got[c]], OnTheWay(down[c], Held[c], up[c])) = << >>
    BY <1>3, <1>12, <2>1, <2>3, FlatFacts, OnTheWayFacts
  <2>. QED
    BY <1>1, <1>11, <2>2, <2>4 DEF ConservedOf, Flat
<1>15. WholeOf(c)'
  BY <1>0, <1>1, <1>3, <1>5, <1>11, <1>12 DEF WholeOf, Empty
<1>16. ClosedOf(c)'
  BY <1>0, <1>1, <1>5 DEF ClosedOf, SomeEnded
<1>17. ASSUME NEW d \in Clients PROVE ClientOk(d)'
  <2>1. CASE d = c
    BY <1>13, <1>14, <1>15, <1>16, <2>1 DEF ClientOk
  <2>2. CASE d # c
    <3>1. ClientOk(d) /\ (SomeEnded => SomeEnded')
      BY <1>1 DEF StreamInv, SomeEnded
    <3>. QED
      BY <1>1, <1>5, <1>11, <2>2, <3>1, ClientSame
  <2>. QED
    BY <2>1, <2>2
<1>18. ASSUME NEW s \in Servers PROVE ServerOk(s)'
  <2>0. ServerOk(s)
    BY DEF StreamInv
  <2>1. \A d \in Clients : d = serving[s] \/ d \in Waiting[s] =>
             /\ client'[d] = client[d] /\ down'[d] = down[d] /\ next'[d] = next[d]
             /\ got'[d] = got[d] /\ (d \in killed' <=> d \in killed)
    BY <1>1, <1>5, <1>7
  <2>2. CASE s # t
    BY <1>0, <1>1, <1>5, <2>0, <2>1, <2>2, ServerSame
  <2>3. CASE s = t
    <3>1. server[s] # "ended"
      BY <1>1, <1>2, <2>3
    <3>2. EndOf(s)'
      BY <1>1, <3>1 DEF EndOf
    <3>3. server[s] \in {"read", "write", "close"} => serving[s] \in Clients
      BY <1>0, WaitingFacts
    <3>4. Waiting[s] \subseteq Clients
      BY <1>0, WaitingFacts
    <3>5. Pending(c)'
      BY <1>1, <1>3, <1>5 DEF Pending
    <3>6. ASSUME kind = "average", NEW d \in Waiting'[s] PROVE Pending(d)'
      <4>1. CASE d = c
        BY <3>5, <4>1
      <4>2. CASE d \in Waiting[s]
        BY <1>1, <2>0, <2>1, <3>4, <3>6, <4>2 DEF ServerOk, ServingOf, Pending
      <4>. QED
        BY <1>8, <2>3, <3>6, <4>1, <4>2
    <3>7. ServingOf(s)'
      BY <1>1, <2>0, <2>1, <3>3, <3>6 DEF ServerOk, ServingOf, Pending, Answered
    <3>. QED
      BY <3>2, <3>7 DEF ServerOk
  <2>. QED
    BY <2>2, <2>3
<1>. QED
  BY <1>6, <1>10, <1>17, <1>18 DEF StreamInv

-----------------------------------------------------------------------------
(* The actions of a server *)

\* A step of s that leaves alone what the other servers rely on.
LEMMA OtherServers ==
  ASSUME StreamInv, NEW s \in Servers, NEW t \in Servers, s # t,
         server'[t] = server[t], serving'[t] = serving[t], buf'[t] = buf[t],
         backlog'[t] = backlog[t],
         UNCHANGED <<kind, lengths, client, next, got>>,
         killed' = killed \/ killed' = killed \cup {s},
         \A d \in Clients : d # serving[s] => down'[d] = down[d]
  PROVE  ServerOk(t)'
<1>1. StreamTypes /\ Connections /\ ServerOk(t)
  BY DEF StreamInv
<1>2. (t \in killed' <=> t \in killed) /\ \A d \in Clients : d \in killed' <=> d \in killed
  BY StreamConstants
<1>3. serving[t] # serving[s] \/ serving[s] \notin Clients
  BY <1>1, WaitingFacts
<1>4. serving[s] \notin Waiting[t]
  BY <1>1 DEF Connections
<1>5. \A d \in Clients : d = serving[t] \/ d \in Waiting[t] => down'[d] = down[d]
  BY <1>3, <1>4
<1>. QED
  BY <1>1, <1>2, <1>5, ServerSame

LEMMA StreamQuiet ==
  ASSUME StreamInv, NEW s \in Servers,
         Stream!RemovePath(s) \/ Stream!Bind(s) \/ Stream!BindFails(s) \/ Stream!Listen(s)
  PROVE  StreamInv'
<1>0. StreamTypes /\ Connections
  BY DEF StreamInv
<1>1. PICK place \in {"bind", "listen", "accept", "failed"} :
        /\ server[s] \in {"remove", "bind", "listen"}
        /\ server' = [server EXCEPT ![s] = place]
        /\ UNCHANGED <<kind, client, killed, backlog, serving, buf, lengths, next, up, down,
                       link, got>>
  BY DEF Stream!RemovePath, Stream!Bind, Stream!BindFails, Stream!Listen, Stream!Goto,
         Stream!streamVars
<1>2. path' \in Servers \cup {None}
  BY <1>0 DEF Stream!RemovePath, Stream!Bind, Stream!BindFails, Stream!Listen, StreamTypes
<1>3. server'[s] = place /\ \A t \in Servers : t # s => server'[t] = server[t]
  BY <1>0, <1>1 DEF StreamTypes
<1>4. StreamTypes'
  <2>1. server' \in [Servers -> StreamServerPlaces]
    BY <1>0, <1>1 DEF StreamTypes, StreamServerPlaces
  <2>. QED
    BY <1>0, <1>1, <1>2, <2>1 DEF StreamTypes
<1>5. Connections'
  BY <1>0, <1>1, <1>3, ConnectionsSame
<1>6. ASSUME NEW c \in Clients PROVE ClientOk(c)'
  <2>1. Held'[c] = Held[c]
    BY <1>0, <1>1, <1>3, <1>4, <1>5, HeldSame
  <2>2. SomeEnded => SomeEnded'
    BY <1>1, <1>3 DEF SomeEnded
  <2>. QED
    BY <1>1, <2>1, <2>2, ClientSame DEF StreamInv
<1>7. ASSUME NEW t \in Servers PROVE ServerOk(t)'
  <2>1. CASE t # s
    BY <1>1, <1>3, <2>1, OtherServers
  <2>2. CASE t = s
    <3>1. EndOf(s)'
      BY <1>3 DEF EndOf
    <3>2. Waiting'[s] = Waiting[s]
      BY <1>1 DEF Waiting
    <3>3. ServingOf(s)
      BY DEF StreamInv, ServerOk
    <3>4. ServingOf(s)'
      BY <1>1, <1>3, <3>2, <3>3 DEF ServingOf, Pending
    <3>. QED
      BY <2>2, <3>1, <3>4 DEF ServerOk
  <2>. QED
    BY <2>1, <2>2
<1>. QED
  BY <1>4, <1>5, <1>6, <1>7 DEF StreamInv

LEMMA StreamServerRead ==
  ASSUME StreamInv, NEW s \in Servers, Stream!ServerRead(s)
  PROVE  StreamInv'
<1>0. StreamTypes /\ Connections /\ ServerOk(s)
  BY DEF StreamInv
<1> DEFINE chunk == Stream!Chunk(up[serving[s]], BUF_SIZE)
           rest == Stream!Rest(up[serving[s]], BUF_SIZE)
<1>1. /\ server[s] = "read" /\ server' = [server EXCEPT ![s] = "write"]
      /\ up[serving[s]] # << >>
      /\ buf' = [buf EXCEPT ![s] = chunk]
      /\ up' = [up EXCEPT ![serving[s]] = rest]
      /\ UNCHANGED <<kind, path, client, killed, backlog, serving, lengths, next, down,
                     link, got>>
  BY <1>0 DEF Stream!ServerRead, Stream!Goto, StreamTypes
<1>2. serving[s] \in Clients /\ link[serving[s]] = "open"
  BY <1>0, <1>1, WaitingFacts
<1>3. PICK c \in Clients : serving[s] = c
  BY <1>2
<1>4. /\ chunk \in Strings /\ rest \in Strings
      /\ up[c] = Then(chunk, rest) /\ chunk # << >>
      /\ Len(up[c]) <= BUF_SIZE => chunk = up[c] /\ rest = << >>
  <2>1. BUF_SIZE \in Nat \ {0} /\ up[c] \in Strings
    BY <1>0, StreamConstants DEF StreamTypes
  <2>. QED
    BY <1>1, <1>3, <2>1, ReadBytes
<1> HIDE DEF chunk, rest
<1>5. /\ server'[s] = "write" /\ buf'[s] = chunk /\ up'[c] = rest
      /\ \A t \in Servers : t # s => server'[t] = server[t] /\ buf'[t] = buf[t]
      /\ \A d \in Clients : d # c => up'[d] = up[d]
  BY <1>0, <1>1, <1>3, <1>4 DEF StreamTypes
<1>6. StreamTypes'
  <2>1. server' \in [Servers -> StreamServerPlaces]
    BY <1>0, <1>1 DEF StreamTypes, StreamServerPlaces
  <2>2. buf' \in [Servers -> Strings] /\ up' \in [Clients -> Strings]
    BY <1>0, <1>1, <1>4 DEF StreamTypes
  <2>. QED
    BY <1>0, <1>1, <2>1, <2>2 DEF StreamTypes
<1>7. Connections'
  BY <1>0, <1>1, <1>5, ConnectionsSame DEF Serving3
<1>8. Held[c] = << >> /\ Held'[c] = chunk
  <2>1. HeldIs /\ HeldIs'
    BY <1>0, <1>6, <1>7, HeldNow, HeldNext
  <2>2. \A t \in Servers : serving[t] = c => t = s
    BY <1>0, <1>3, WaitingFacts
  <2>3. Held[c] = << >>
    BY <1>1, <2>1, <2>2 DEF HeldIs
  <2>4. Held'[c] = chunk
    BY <1>1, <1>3, <1>5, <2>1 DEF HeldIs
  <2>. QED
    BY <2>3, <2>4
<1>9. \A d \in Clients : d # c => Held'[d] = Held[d]
  <2>1. ASSUME NEW d \in Clients, d # c PROVE Held'[d] = Held[d]
    <3>1. \A t \in Servers : serving[t] = d => t # s
      BY <1>3, <2>1
    <3>2. \A t \in Servers :
            (serving'[t] = d /\ server'[t] = "write") <=> (serving[t] = d /\ server[t] = "write")
      BY <1>1, <1>3, <1>5, <2>1
    <3>3. \A t \in Servers : serving[t] = d => buf'[t] = buf[t]
      BY <1>5, <3>1
    <3>. QED
      BY <1>0, <1>6, <1>7, <3>2, <3>3, HeldSame
  <2>. QED
    BY <2>1
<1>10. Texts' = Texts /\ Fitting' = Fitting /\ Written'[c] = Written[c]
  BY <1>1, DataSame
<1>11. TurnOf(c) /\ ConservedOf(c) /\ WholeOf(c) /\ ClosedOf(c) /\ link[c] = "open"
  BY <1>2, <1>3 DEF StreamInv, ClientOk
<1>12. TurnOf(c)'
  BY <1>1, <1>11 DEF TurnOf
<1>13. ConservedOf(c)'
  <2>1. OnTheWay(down[c], << >>, Then(chunk, rest)) = OnTheWay(down[c], chunk, rest)
    <3>1. down[c] \in Strings /\ chunk \in Strings /\ rest \in Strings
      BY <1>0, <1>4 DEF StreamTypes
    <3>2. \A m, x, y \in Strings : OnTheWay(m, << >>, Then(x, y)) = OnTheWay(m, x, y)
      BY OnTheWayFacts
    <3>. QED
      BY <3>1, <3>2
  <2>. QED
    BY <1>1, <1>4, <1>5, <1>8, <1>10, <1>11, <2>1 DEF ConservedOf, Flat
<1>14. WholeOf(c)'
  <2>1. ASSUME c \in Fitting, c \notin killed
        PROVE  client[c] = "read" /\ InOnePiece(c, Texts[c][next[c]])'
    <3>1. ~Empty(c)
      BY <1>1, <1>3 DEF Empty
    <3>2. client[c] = "read" /\ InOnePiece(c, Texts[c][next[c]])
      BY <1>0, <1>11, <2>1, <3>1 DEF WholeOf, StreamTypes
    <3>3. up[c] = Texts[c][next[c]] /\ down[c] = << >>
      BY <1>1, <1>3, <3>1, <3>2 DEF InOnePiece
    <3>4. Len(up[c]) <= BUF_SIZE
      <4>1. next[c] \in 1 .. Len(lengths[c])
        BY <1>0, <1>11, <3>2, TextFacts DEF TurnOf, StreamTypes
      <4>2. Len(up[c]) <= BUF_SIZE - 1
        BY <1>0, <2>1, <3>3, <4>1, FitFacts
      <4>3. up[c] \in Seq(Byte)
        BY <1>0 DEF StreamTypes, Strings
      <4>4. Len(up[c]) \in Nat
        BY <4>3, LenProperties
      <4>5. \A m, b \in Nat : m <= b - 1 => m <= b
        OBVIOUS
      <4>. QED
        BY <4>2, <4>4, <4>5, StreamConstants
    <3>. QED
      BY <1>1, <1>4, <1>5, <1>8, <1>10, <3>2, <3>3, <3>4 DEF InOnePiece
  <2>2. ASSUME c \in Fitting PROVE \A i \in 1 .. Len(got[c]) : got[c][i] \in {<< >>, Texts[c][i]}
    BY <1>11, <2>2 DEF WholeOf
  <2>. QED
    BY <1>1, <1>10, <2>1, <2>2 DEF WholeOf
<1>15. SomeEnded => SomeEnded'
  BY <1>1, <1>5 DEF SomeEnded
<1>16. ClosedOf(c)'
  BY <1>1, <1>11, <1>15 DEF ClosedOf
<1>17. ASSUME NEW d \in Clients PROVE ClientOk(d)'
  <2>1. CASE d = c
    BY <1>12, <1>13, <1>14, <1>16, <2>1 DEF ClientOk
  <2>2. CASE d # c
    BY <1>1, <1>5, <1>9, <1>15, <2>2, ClientSame DEF StreamInv
  <2>. QED
    BY <2>1, <2>2
<1>18. ASSUME NEW t \in Servers PROVE ServerOk(t)'
  <2>1. CASE t # s
    BY <1>1, <1>5, <2>1, OtherServers
  <2>2. CASE t = s
    <3>1. EndOf(s)'
      BY <1>5 DEF EndOf
    <3>2. Waiting'[s] = Waiting[s] /\ ServingOf(s)
      BY <1>0, <1>1 DEF Waiting, ServerOk
    <3>3. ServingOf(s)'
      BY <1>1, <1>4, <1>5, <3>2 DEF ServingOf, Pending
    <3>. QED
      BY <2>2, <3>1, <3>3 DEF ServerOk
  <2>. QED
    BY <2>1, <2>2
<1>. QED
  BY <1>6, <1>7, <1>17, <1>18 DEF StreamInv

LEMMA StreamServerWrite ==
  ASSUME StreamInv, NEW s \in Servers, Stream!ServerWrite(s)
  PROVE  StreamInv'
<1>0. StreamTypes /\ Connections /\ ServingOf(s)
  BY DEF StreamInv, ServerOk
<1> DEFINE place == IF kind = "echo" THEN "read" ELSE "close"
<1>1. /\ server[s] = "write" /\ server' = [server EXCEPT ![s] = place]
      /\ client[serving[s]] # "ended"
      /\ UNCHANGED <<kind, path, client, killed, backlog, serving, buf, lengths, next, up,
                     link, got>>
  BY DEF Stream!ServerWrite, Stream!Goto, Stream!Ended
<1>2. serving[s] \in Clients /\ link[serving[s]] = "open"
  BY <1>0, <1>1, WaitingFacts
<1>3. PICK c \in Clients : serving[s] = c
  BY <1>2
<1> DEFINE answer == Then(down[c], buf[s])
<1>4. /\ down' = [down EXCEPT ![c] = answer]
      /\ buf[s] \in Strings /\ down[c] \in Strings /\ up[c] \in Strings
      /\ answer \in Strings /\ (buf[s] # << >> => answer # << >>)
  <2>1. buf[s] \in Strings /\ down[c] \in Strings /\ up[c] \in Strings
    BY <1>0 DEF StreamTypes
  <2>2. answer \in Strings /\ (buf[s] # << >> => answer # << >>)
    BY <2>1, StringFacts
  <2>3. down' = [down EXCEPT ![c] = answer]
    BY <1>0, <1>3 DEF Stream!ServerWrite, StreamTypes, Then
  <2>. QED
    BY <2>1, <2>2, <2>3
<1>5. /\ server'[s] = place /\ down'[c] = answer
      /\ \A t \in Servers : t # s => server'[t] = server[t]
      /\ \A d \in Clients : d # c => down'[d] = down[d]
  BY <1>0, <1>1, <1>4 DEF StreamTypes
<1>6. place \in {"read", "close"} /\ (place = "close" <=> kind = "average")
  BY <1>0 DEF StreamTypes
<1> HIDE DEF answer, place
<1>7. StreamTypes'
  <2>1. server' \in [Servers -> StreamServerPlaces] /\ down' \in [Clients -> Strings]
    BY <1>0, <1>1, <1>4, <1>6 DEF StreamTypes, StreamServerPlaces
  <2>. QED
    BY <1>0, <1>1, <2>1 DEF StreamTypes
<1>8. Connections'
  BY <1>0, <1>1, <1>5, <1>6, ConnectionsSame DEF Serving3
<1>9. Held[c] = buf[s] /\ Held'[c] = << >>
  <2>1. HeldIs /\ HeldIs'
    BY <1>0, <1>7, <1>8, HeldNow, HeldNext
  <2>2. \A t \in Servers : serving[t] = c => t = s
    BY <1>0, <1>3, WaitingFacts
  <2>3. Held[c] = buf[s]
    BY <1>1, <1>3, <2>1 DEF HeldIs
  <2>4. \A t \in Servers : serving'[t] = c => server'[t] # "write"
    BY <1>1, <1>5, <1>6, <2>2
  <2>5. Held'[c] = << >>
    BY <2>1, <2>4 DEF HeldIs
  <2>. QED
    BY <2>3, <2>5
<1>10. \A d \in Clients : d # c => Held'[d] = Held[d]
  <2>1. ASSUME NEW d \in Clients, d # c PROVE Held'[d] = Held[d]
    <3>1. \A t \in Servers :
            (serving'[t] = d /\ server'[t] = "write") <=> (serving[t] = d /\ server[t] = "write")
      BY <1>1, <1>3, <1>5, <2>1
    <3>. QED
      BY <1>0, <1>1, <1>7, <1>8, <3>1, HeldSame
  <2>. QED
    BY <2>1
<1>11. Texts' = Texts /\ Fitting' = Fitting /\ Written'[c] = Written[c]
  BY <1>1, DataSame
<1>12. TurnOf(c) /\ ConservedOf(c) /\ WholeOf(c) /\ ClosedOf(c) /\ link[c] = "open"
  BY <1>2, <1>3 DEF StreamInv, ClientOk
<1>13. c \notin killed /\ buf[s] # << >>
  BY <1>0, <1>1, <1>3, <1>12 DEF TurnOf, ServingOf
<1>14. TurnOf(c)'
  BY <1>1, <1>12 DEF TurnOf
<1>15. ConservedOf(c)'
  <2>1. OnTheWay(answer, << >>, up[c]) = OnTheWay(down[c], buf[s], up[c])
    <3>1. \A d, h, u \in Strings : OnTheWay(Then(d, h), << >>, u) = OnTheWay(d, h, u)
      BY OnTheWayFacts
    <3>. QED
      BY <1>4, <3>1 DEF answer
  <2>. QED
    BY <1>1, <1>5, <1>9, <1>11, <1>12, <2>1 DEF ConservedOf, Flat
<1>16. ASSUME c \in Fitting
       PROVE  client[c] = "read" /\ InOnePiece(c, Texts[c][next[c]])'
  <2>1. ~Empty(c)
    BY <1>9, <1>13 DEF Empty
  <2>2. client[c] = "read" /\ InOnePiece(c, Texts[c][next[c]])
    BY <1>0, <1>1, <1>3, <1>12, <1>13, <1>16, <2>1 DEF WholeOf, StreamTypes
  <2>3. up[c] = << >> /\ buf[s] = Texts[c][next[c]] /\ down[c] = << >>
    BY <1>9, <1>13, <2>2 DEF InOnePiece, Empty
  <2>4. answer = buf[s]
    BY <1>4, <2>3, StringFacts DEF answer
  <2>. QED
    BY <1>1, <1>5, <1>9, <1>11, <2>2, <2>3, <2>4 DEF InOnePiece
<1>17. WholeOf(c)'
  <2>1. ASSUME c \in Fitting PROVE \A i \in 1 .. Len(got[c]) : got[c][i] \in {<< >>, Texts[c][i]}
    BY <1>12, <2>1 DEF WholeOf
  <2>. QED
    BY <1>1, <1>11, <1>16, <2>1 DEF WholeOf
<1>18. SomeEnded => SomeEnded'
  BY <1>1, <1>5 DEF SomeEnded
<1>19. ClosedOf(c)'
  BY <1>1, <1>12, <1>18 DEF ClosedOf
<1>20. ASSUME NEW d \in Clients PROVE ClientOk(d)'
  <2>1. CASE d = c
    BY <1>14, <1>15, <1>17, <1>19, <2>1 DEF ClientOk
  <2>2. CASE d # c
    BY <1>1, <1>5, <1>10, <1>18, <2>2, ClientSame DEF StreamInv
  <2>. QED
    BY <2>1, <2>2
<1>21. ASSUME NEW t \in Servers PROVE ServerOk(t)'
  <2>1. CASE t # s
    BY <1>1, <1>3, <1>5, <2>1, OtherServers
  <2>2. CASE t = s
    <3>1. EndOf(s)'
      BY <1>5, <1>6 DEF EndOf
    <3>2. Waiting'[s] = Waiting[s] /\ c \notin Waiting[s] /\ Waiting[s] \subseteq Clients
      <4>1. Waiting'[s] = Waiting[s]
        BY <1>1 DEF Waiting
      <4>2. c \notin Waiting[s]
        BY <1>0, <1>3 DEF Connections
      <4>3. Waiting[s] \subseteq Clients
        BY <1>0, WaitingFacts
      <4>. QED
        BY <4>1, <4>2, <4>3
    <3>3. ASSUME kind = "average"
          PROVE  Answered(c)' /\ \A d \in Waiting[s] : Pending(d)'
      <4>1. client[c] = "read"
        BY <1>0, <1>16, <3>3, FitFacts
      <4>2. Answered(c)'
        BY <1>1, <1>4, <1>5, <1>13, <3>3, <4>1 DEF Answered
      <4>3. ASSUME NEW d \in Waiting[s] PROVE Pending(d)'
        BY <1>0, <1>1, <1>5, <3>2, <3>3, <4>3 DEF ServingOf, Pending
      <4>. QED
        BY <4>2, <4>3
    <3>4. ServingOf(s)'
      BY <1>1, <1>3, <1>5, <1>6, <3>2, <3>3 DEF ServingOf
    <3>. QED
      BY <2>2, <3>1, <3>4 DEF ServerOk
  <2>. QED
    BY <2>1, <2>2
<1>. QED
  BY <1>7, <1>8, <1>20, <1>21 DEF StreamInv

LEMMA StreamServerEOF ==
  ASSUME StreamInv, NEW s \in Servers, Stream!ServerEOF(s)
  PROVE  StreamInv'
<1>0. StreamTypes /\ Connections /\ ServingOf(s)
  BY DEF StreamInv, ServerOk
<1> DEFINE place == IF kind = "echo" THEN "close" ELSE "write"
<1>1. /\ server[s] = "read" /\ server' = [server EXCEPT ![s] = place]
      /\ client[serving[s]] = "ended"
      /\ UNCHANGED <<kind, path, client, killed, backlog, serving, buf, lengths, next, up,
                     down, link, got>>
  BY DEF Stream!ServerEOF, Stream!AtEOF, Stream!Goto, Stream!Ended, Stream!streamVars
<1>2. PICK c \in Clients : serving[s] = c
  BY <1>0, <1>1, WaitingFacts
<1>3. server'[s] = place /\ \A t \in Servers : t # s => server'[t] = server[t]
  BY <1>0, <1>1 DEF StreamTypes
<1>4. place \in {"write", "close"} /\ (place = "write" <=> kind = "average")
  BY <1>0 DEF StreamTypes
<1> HIDE DEF place
<1>5. StreamTypes'
  <2>1. server' \in [Servers -> StreamServerPlaces]
    BY <1>0, <1>1, <1>4 DEF StreamTypes, StreamServerPlaces
  <2>. QED
    BY <1>0, <1>1, <2>1 DEF StreamTypes
<1>6. Connections'
  BY <1>0, <1>1, <1>3, <1>4, ConnectionsSame DEF Serving3
<1>7. kind = "average" => c \in killed
  BY <1>0, <1>1, <1>2 DEF ServingOf, Pending
<1>8. SomeEnded => SomeEnded'
  BY <1>1, <1>3 DEF SomeEnded
<1>9. ASSUME NEW d \in Clients PROVE ClientOk(d)'
  <2>0. ClientOk(d)
    BY DEF StreamInv
  <2>1. CASE d # c \/ kind # "average"
    <3>1. \A t \in Servers :
            (serving'[t] = d /\ server'[t] = "write") <=> (serving[t] = d /\ server[t] = "write")
      BY <1>1, <1>2, <1>3, <1>4, <2>1
    <3>2. Held'[d] = Held[d]
      BY <1>0, <1>1, <1>5, <1>6, <3>1, HeldSame
    <3>. QED
      BY <1>1, <1>8, <2>0, <3>2, ClientSame
  <2>2. CASE d = c /\ kind = "average"
    <3>1. d \in killed /\ Texts' = Texts /\ Fitting' = Fitting
      BY <1>1, <1>7, <2>2, DataSame
    <3>2. ConservedOf(d)' /\ TurnOf(d)'
      BY <1>1, <2>0, <3>1 DEF ClientOk, ConservedOf, TurnOf
    <3>3. WholeOf(d)'
      BY <1>1, <2>0, <3>1 DEF ClientOk, WholeOf
    <3>4. ClosedOf(d)'
      BY <1>1, <1>8, <2>0 DEF ClientOk, ClosedOf, Answered
    <3>. QED
      BY <3>2, <3>3, <3>4 DEF ClientOk
  <2>. QED
    BY <2>1, <2>2
<1>10. ASSUME NEW t \in Servers PROVE ServerOk(t)'
  <2>1. CASE t # s
    BY <1>1, <1>3, <2>1, OtherServers
  <2>2. CASE t = s
    <3>1. EndOf(s)'
      BY <1>3, <1>4 DEF EndOf
    <3>2. Waiting'[s] = Waiting[s]
      BY <1>1 DEF Waiting
    <3>3. ServingOf(s)'
      BY <1>0, <1>1, <1>2, <1>3, <1>4, <1>7, <3>2 DEF ServingOf, Pending
    <3>. QED
      BY <2>2, <3>1, <3>3 DEF ServerOk
  <2>. QED
    BY <2>1, <2>2
<1>. QED
  BY <1>5, <1>6, <1>9, <1>10 DEF StreamInv

\* A client whose connection is closed at the other end.
LEMMA ClientClosed ==
  ASSUME StreamTypes, NEW c \in Clients, ClientOk(c), link[c] = "open",
         link'[c] \in {"closed", "reset"}, link'[c] = "closed" => up[c] = << >>,
         Held'[c] \in {Held[c], << >>},
         link'[c] = "closed" /\ client[c] # "ended" => SomeEnded' \/ Answered(c),
         SomeEnded => SomeEnded',
         kind' = kind, lengths' = lengths, c \in killed' <=> c \in killed,
         got'[c] = got[c], next'[c] = next[c], client'[c] = client[c],
         up'[c] = up[c], down'[c] = down[c]
  PROVE  ClientOk(c)'
<1>1. Texts' = Texts /\ Fitting' = Fitting
  BY DataSame
<1>2. TurnOf(c)'
  BY DEF ClientOk, TurnOf
<1>3. ConservedOf(c)'
  BY DEF ConservedOf
<1>4. Empty(c) => Empty(c)'
  BY DEF Empty
<1>5. ASSUME NEW text, InOnePiece(c, text)
      PROVE  \/ up'[c] = << >> /\ Held'[c] = << >> /\ down'[c] = << >>
             \/ up'[c] = text /\ Held'[c] = << >> /\ down'[c] = << >>
             \/ up'[c] = << >> /\ Held'[c] = text /\ down'[c] = << >>
             \/ up'[c] = << >> /\ Held'[c] = << >> /\ down'[c] = text
  BY <1>5 DEF InOnePiece, Empty
<1>6. InOnePiece(c, Texts[c][next[c]]) => InOnePiece(c, Texts[c][next[c]])'
  BY <1>1, <1>5 DEF InOnePiece, Empty
<1>7. WholeOf(c)'
  BY <1>1, <1>4, <1>6 DEF ClientOk, WholeOf
<1>8. ClosedOf(c)'
  BY DEF ClientOk, ClosedOf, Answered
<1>. QED
  BY <1>2, <1>3, <1>7, <1>8 DEF ClientOk

LEMMA StreamServerEnds ==
  ASSUME StreamInv, NEW s \in Servers, Stream!ServerEnds(s), server[s] # "ended",
         killed' = killed \/ killed' = killed \cup {s},
         s \notin killed' =>
            /\ serving[s] # None
            /\ serving[s] \notin killed =>
                /\ client[serving[s]] = "ended" /\ serving[s] \notin Fitting
                /\ Flat[got[serving[s]]] # Written[serving[s]]
  PROVE  StreamInv'
<1>0. StreamTypes /\ Connections
  BY DEF StreamInv
<1>1. /\ server' = [server EXCEPT ![s] = "ended"]
      /\ backlog' = [backlog EXCEPT ![s] = << >>]
      /\ UNCHANGED <<kind, path, client, serving, buf, lengths, next, up, down, got>>
  BY DEF Stream!ServerEnds
<1> DEFINE closed == Waiting[s] \cup ({serving[s]} \ {None})
<1>2. link' = [d \in Clients |->
                 IF d \notin closed THEN link[d]
                 ELSE IF d = serving[s] /\ up[d] = << >> THEN "closed" ELSE "reset"]
  <2>1. backlog[s] \in Seq(Clients)
    BY <1>0 DEF StreamTypes
  <2>2. DOMAIN backlog[s] = 1 .. Len(backlog[s])
    BY <2>1, LenProperties
  <2>3. Stream!ToSet(backlog[s]) = Waiting[s]
    BY <2>2 DEF Stream!ToSet, Waiting
  <2>. QED
    BY <2>3 DEF Stream!ServerEnds, Stream!CloseLinks
<1>3. closed \subseteq Clients /\ \A d \in closed : link[d] = "open"
  <2>1. /\ Waiting[s] \subseteq Clients /\ \A d \in Waiting[s] : link[d] = "open"
        /\ serving[s] \in Clients \cup {None}
    BY <1>0, WaitingFacts
  <2>2. serving[s] \in Clients => link[serving[s]] = "open"
    BY <1>0 DEF Connections
  <2>. QED
    BY <2>1, <2>2
<1>4. /\ \A d \in Clients : d \notin closed => link'[d] = link[d]
      /\ \A d \in closed : link'[d] \in {"closed", "reset"} /\
                           (link'[d] = "closed" => up[d] = << >>)
  <2> HIDE DEF closed
  <2>. QED
    BY <1>2, <1>3
<1>5. /\ server'[s] = "ended" /\ backlog'[s] = << >> /\ Len(backlog'[s]) = 0
      /\ \A t \in Servers : t # s => server'[t] = server[t] /\ backlog'[t] = backlog[t]
  BY <1>0, <1>1 DEF StreamTypes
<1>6. Waiting'[s] = {} /\ \A t \in Servers : t # s => Waiting'[t] = Waiting[t]
  BY <1>5 DEF Waiting
<1>7. /\ \A d \in Waiting[s] : d \in closed
      /\ \A d \in Clients : serving[s] = d => d \in closed
      /\ \A d \in closed : d \in Waiting[s] \/ d = serving[s]
  BY StreamConstants
<1> HIDE DEF closed
<1>8. StreamTypes'
  <2>1. server' \in [Servers -> StreamServerPlaces]
    BY <1>0, <1>1 DEF StreamTypes, StreamServerPlaces
  <2>2. backlog' \in [Servers -> Seq(Clients)]
    BY <1>0, <1>1, EmptySeq DEF StreamTypes
  <2>3. link' \in [Clients -> {"none", "open", "closed", "reset"}]
    BY <1>0, <1>2 DEF StreamTypes
  <2>4. killed' \subseteq Servers \cup Clients
    BY <1>0 DEF StreamTypes
  <2>. QED
    BY <1>0, <1>1, <2>1, <2>2, <2>3, <2>4 DEF StreamTypes
<1>9. Connections'
  <2>1. ASSUME NEW t \in Servers
        PROVE  /\ server'[t] \in {"read", "write", "close"} => serving'[t] # None
               /\ server'[t] \in {"remove", "bind", "listen", "accept", "failed"} =>
                    serving'[t] = None
               /\ backlog'[t] # << >> => server'[t] \in {"accept", "read", "write", "close"}
    BY <1>0, <1>1, <1>5 DEF Connections
  <2>2. ASSUME NEW t \in Servers
        PROVE  \A i, k \in 1 .. Len(backlog'[t]) : backlog'[t][i] = backlog'[t][k] => i = k
    BY <1>0, <1>5 DEF Connections
  <2>3. ASSUME NEW t \in Servers, NEW r \in Servers
        PROVE  /\ serving'[t] = serving'[r] /\ serving'[t] # None => t = r
               /\ t # r => Waiting'[t] \cap Waiting'[r] = {}
               /\ serving'[r] \notin Waiting'[t]
    <3>1. /\ serving[t] = serving[r] /\ serving[t] # None => t = r
          /\ t # r => Waiting[t] \cap Waiting[r] = {}
          /\ serving[r] \notin Waiting[t]
      BY <1>0 DEF Connections
    <3>2. Waiting'[t] \subseteq Waiting[t] /\ Waiting'[r] \subseteq Waiting[r]
      BY <1>6
    <3>. QED
      BY <1>1, <3>1, <3>2
  <2>4. ASSUME NEW d \in Clients
        PROVE  link'[d] = "open" <=> \E t \in Servers :
                 d \in Waiting'[t] \/ (serving'[t] = d /\ server'[t] # "ended")
    <3>1. link[d] = "open" <=> \E t \in Servers :
                 d \in Waiting[t] \/ (serving[t] = d /\ server[t] # "ended")
      BY <1>0 DEF Connections
    <3>2. CASE d \in closed
      <4>1. \A t \in Servers : t # s => d \notin Waiting[t] /\ serving[t] # d
        <5>1. ASSUME NEW t \in Servers, t # s
              PROVE  /\ serving[t] = serving[s] => serving[t] = None
                     /\ Waiting[t] \cap Waiting[s] = {}
                     /\ serving[t] \notin Waiting[s] /\ serving[s] \notin Waiting[t]
          BY <1>0, <5>1 DEF Connections
        <5>. QED
          BY <1>7, <3>2, <5>1, StreamConstants
      <4>. QED
        BY <1>1, <1>4, <1>5, <1>6, <3>2, <4>1
    <3>3. CASE d \notin closed
      <4>1. d \notin Waiting[s] /\ serving[s] # d
        BY <1>7, <3>3
      <4>. QED
        BY <1>1, <1>4, <1>5, <1>6, <3>1, <3>3, <4>1
    <3>. QED
      BY <3>2, <3>3
  <2>5. ASSUME NEW t \in Servers, NEW d \in Clients, serving'[t] = d PROVE link'[d] # "none"
    <3>1. link[d] # "none"
      BY <1>0, <1>1, <2>5 DEF Connections
    <3>. QED
      BY <1>4, <3>1
  <2>. QED
    BY <2>1, <2>2, <2>3, <2>4, <2>5 DEF Connections
<1>10. SomeEnded'
  BY <1>5 DEF SomeEnded
<1>11. \A d \in Clients : d \in killed' <=> d \in killed
  BY StreamConstants
<1>12. ASSUME NEW d \in Clients
       PROVE  Held'[d] = Held[d] \/ (d \in closed /\ Held'[d] = << >>)
  <2>1. CASE serving[s] # d
    <3>1. \A t \in Servers :
            (serving'[t] = d /\ server'[t] = "write") <=> (serving[t] = d /\ server[t] = "write")
      BY <1>1, <1>5, <2>1
    <3>. QED
      BY <1>0, <1>1, <1>8, <1>9, <3>1, HeldSame
  <2>2. CASE serving[s] = d
    <3>1. \A t \in Servers : serving[t] = d => t = s
      BY <1>0, <2>2, WaitingFacts
    <3>2. \A t \in Servers : serving'[t] = d => server'[t] # "write"
      BY <1>1, <1>5, <3>1
    <3>3. HeldIs'
      BY <1>8, <1>9, HeldNext
    <3>. QED
      BY <1>7, <2>2, <3>2, <3>3 DEF HeldIs
  <2>. QED
    BY <2>1, <2>2
<1>13. ASSUME NEW d \in Clients PROVE ClientOk(d)'
  <2>0. ClientOk(d)
    BY DEF StreamInv
  <2>1. CASE d \notin closed
    BY <1>1, <1>4, <1>10, <1>11, <1>12, <2>0, <2>1, ClientSame
  <2>2. CASE d \in closed
    BY <1>0, <1>1, <1>3, <1>4, <1>10, <1>11, <1>12, <2>0, <2>2, ClientClosed
  <2>. QED
    BY <2>1, <2>2
<1>14. ASSUME NEW t \in Servers PROVE ServerOk(t)'
  <2>1. CASE t # s
    BY <1>1, <1>5, <2>1, OtherServers
  <2>2. CASE t = s
    <3>1. ServingOf(s)'
      BY <1>5, <1>6 DEF ServingOf
    <3>2. EndOf(s)'
      <4>1. Fitting' = Fitting
        BY <1>1, DataSame DEF Fitting, Stream!Fits
      <4>2. serving[s] \in Clients => Written'[serving[s]] = Written[serving[s]]
        BY <1>1, DataSame
      <4>3. serving[s] \in Clients \cup {None}
        BY <1>0, WaitingFacts
      <4>4. ASSUME s \notin killed'
            PROVE  /\ serving[s] # None
                   /\ serving[s] \notin killed' =>
                        /\ client[serving[s]] = "ended" /\ serving[s] \notin Fitting'
                        /\ Flat[got[serving[s]]] # Written'[serving[s]]
        BY <4>1, <4>2, <4>3, <4>4
      <4>. QED
        BY <1>1, <4>4 DEF EndOf, Flat
    <3>. QED
      BY <2>2, <3>1, <3>2 DEF ServerOk
  <2>. QED
    BY <2>1, <2>2
<1>. QED
  BY <1>8, <1>9, <1>13, <1>14 DEF StreamInv

\* A client that has ended in order while a byte of its strings was on its way.
LEMMA ClosedEarly ==
  ASSUME StreamInv, NEW c \in Clients, link[c] = "open", c \notin killed,
         client[c] = "ended", ~Empty(c)
  PROVE  c \notin Fitting /\ Flat[got[c]] # Written[c]
<1>0. StreamTypes /\ Connections /\ ConservedOf(c) /\ WholeOf(c)
  BY DEF StreamInv, ClientOk
<1>1. c \notin Fitting
  BY <1>0 DEF WholeOf
<1> DEFINE f == Flat[got[c]]
           w == OnTheWay(down[c], Held[c], up[c])
<1>2. Then(f, w) = Written[c]
  BY <1>0 DEF ConservedOf
<1>3. /\ f \in Strings /\ down[c] \in Strings /\ up[c] \in Strings /\ Held[c] \in Strings
  BY <1>0, FlatFacts, HeldNow DEF StreamTypes, HeldIs
<1>4. w \in Strings /\ w # << >>
  <2>1. \A d, h, u \in Strings :
          /\ OnTheWay(d, h, u) \in Strings
          /\ OnTheWay(d, h, u) = << >> => d = << >> /\ h = << >> /\ u = << >>
    BY OnTheWayFacts
  <2>2. ~(down[c] = << >> /\ Held[c] = << >> /\ up[c] = << >>)
    BY DEF Empty
  <2>. QED
    BY <1>3, <2>1, <2>2
<1> HIDE DEF f, w
<1>5. f # Written[c]
  <2>1. f \in Strings
    BY <1>3
  <2>2. \A x, y \in Strings : Then(x, y) = x => y = << >>
    BY StringFacts
  <2>. QED
    BY <1>2, <1>4, <2>1, <2>2
<1>. QED
  BY <1>1, <1>5 DEF f

LEMMA StreamServerStops ==
  ASSUME StreamInv, NEW s \in Servers,
         Stream!ReadFails(s) \/ Stream!ServerBrokenPipe(s) \/ Stream!KillServer(s)
  PROVE  StreamInv'
<1>0. StreamTypes /\ Connections /\ ServingOf(s)
  BY DEF StreamInv, ServerOk
<1>1. CASE Stream!KillServer(s)
  <2>1. Stream!ServerEnds(s) /\ server[s] # "ended" /\ killed' = killed \cup {s}
    BY <1>1 DEF Stream!KillServer, Stream!Up
  <2>. QED
    BY <2>1, StreamServerEnds
<1>2. CASE Stream!ReadFails(s) \/ Stream!ServerBrokenPipe(s)
  <2>1. /\ Stream!ServerEnds(s) /\ killed' = killed
        /\ server[s] \in {"read", "write"} /\ client[serving[s]] = "ended"
        /\ server[s] = "read" => down[serving[s]] # << >>
    BY <1>2 DEF Stream!ReadFails, Stream!ServerBrokenPipe, Stream!Ended
  <2>2. serving[s] \in Clients /\ link[serving[s]] = "open" /\ serving[s] # None
    BY <1>0, <2>1, WaitingFacts, StreamConstants
  <2>3. ASSUME serving[s] \notin killed PROVE ~Empty(serving[s])
    <3>1. CASE server[s] = "read"
      BY <2>1, <3>1 DEF Empty
    <3>2. CASE server[s] = "write"
      <4>1. Held[serving[s]] = buf[s]
        BY <1>0, <2>2, <3>2, HeldNow DEF HeldIs
      <4>2. buf[s] # << >>
        BY <1>0, <2>3, <3>2 DEF ServingOf
      <4>. QED
        BY <4>1, <4>2 DEF Empty
    <3>. QED
      BY <2>1, <3>1, <3>2
  <2>4. serving[s] \notin killed =>
          serving[s] \notin Fitting /\ Flat[got[serving[s]]] # Written[serving[s]]
    BY <2>1, <2>2, <2>3, ClosedEarly
  <2>5. server[s] # "ended"
    BY <2>1
  <2>. QED
    BY <2>1, <2>2, <2>4, <2>5, StreamServerEnds
<1>. QED
  BY <1>1, <1>2

LEMMA StreamCloseConnection ==
  ASSUME StreamInv, NEW s \in Servers, Stream!CloseConnection(s)
  PROVE  StreamInv'
<1>0. StreamTypes /\ Connections /\ ServingOf(s)
  BY DEF StreamInv, ServerOk
<1>1. /\ server[s] = "close" /\ server' = [server EXCEPT ![s] = "accept"]
      /\ serving' = [serving EXCEPT ![s] = None]
      /\ UNCHANGED <<kind, path, client, killed, backlog, buf, lengths, next, up, down, got>>
  BY DEF Stream!CloseConnection, Stream!Goto
<1>2. serving[s] \in Clients /\ link[serving[s]] = "open"
  BY <1>0, <1>1, WaitingFacts
<1>3. PICK c \in Clients : serving[s] = c
  BY <1>2
<1>4. link' = [d \in Clients |->
                 IF d # c THEN link[d] ELSE IF up[c] = << >> THEN "closed" ELSE "reset"]
  BY <1>3 DEF Stream!CloseConnection, Stream!CloseLinks
<1>5. /\ link'[c] \in {"closed", "reset"} /\ (link'[c] = "closed" => up[c] = << >>)
      /\ \A d \in Clients : d # c => link'[d] = link[d]
  BY <1>4
<1>6. /\ server'[s] = "accept" /\ serving'[s] = None
      /\ \A t \in Servers : t # s => server'[t] = server[t] /\ serving'[t] = serving[t]
  BY <1>0, <1>1 DEF StreamTypes
<1>7. StreamTypes'
  <2>1. server' \in [Servers -> StreamServerPlaces]
    BY <1>0, <1>1 DEF StreamTypes, StreamServerPlaces
  <2>2. serving' \in [Servers -> Clients \cup {None}]
    BY <1>0, <1>1 DEF StreamTypes
  <2>3. link' \in [Clients -> {"none", "open", "closed", "reset"}]
    BY <1>0, <1>4 DEF StreamTypes
  <2>. QED
    BY <1>0, <1>1, <2>1, <2>2, <2>3 DEF StreamTypes
<1>8. Waiting' = Waiting
  BY <1>1 DEF Waiting
<1>9. \A t \in Servers : c \notin Waiting[t] /\ (t # s => serving[t] # c)
  BY <1>0, <1>3, WaitingFacts DEF Connections
<1>10. Connections'
  <2>1. ASSUME NEW t \in Servers
        PROVE  /\ server'[t] \in {"read", "write", "close"} => serving'[t] # None
               /\ server'[t] \in {"remove", "bind", "listen", "accept", "failed"} =>
                    serving'[t] = None
               /\ backlog'[t] # << >> => server'[t] \in {"accept", "read", "write", "close"}
    BY <1>0, <1>1, <1>6 DEF Connections
  <2>2. ASSUME NEW t \in Servers
        PROVE  \A i, k \in 1 .. Len(backlog'[t]) : backlog'[t][i] = backlog'[t][k] => i = k
    BY <1>0, <1>1 DEF Connections
  <2>3. ASSUME NEW t \in Servers, NEW r \in Servers
        PROVE  /\ serving'[t] = serving'[r] /\ serving'[t] # None => t = r
               /\ t # r => Waiting'[t] \cap Waiting'[r] = {}
               /\ serving'[r] \notin Waiting'[t]
    <3>1. /\ serving[t] = serving[r] /\ serving[t] # None => t = r
          /\ t # r => Waiting[t] \cap Waiting[r] = {}
          /\ serving[r] \notin Waiting[t]
      BY <1>0 DEF Connections
    <3>2. None \notin Waiting[t]
      BY <1>0, WaitingFacts, StreamConstants
    <3>. QED
      BY <1>6, <1>8, <3>1, <3>2
  <2>4. ASSUME NEW d \in Clients
        PROVE  link'[d] = "open" <=> \E t \in Servers :
                 d \in Waiting'[t] \/ (serving'[t] = d /\ server'[t] # "ended")
    <3>1. link[d] = "open" <=> \E t \in Servers :
                 d \in Waiting[t] \/ (serving[t] = d /\ server[t] # "ended")
      BY <1>0 DEF Connections
    <3>2. CASE d = c
      BY <1>5, <1>6, <1>8, <1>9, <3>2, StreamConstants
    <3>3. CASE d # c
      <4>1. \A t \in Servers : (serving'[t] = d /\ server'[t] # "ended")
                                 <=> (serving[t] = d /\ server[t] # "ended")
        BY <1>1, <1>3, <1>6, <3>3, StreamConstants
      <4>. QED
        BY <1>5, <1>8, <3>1, <3>3, <4>1
    <3>. QED
      BY <3>2, <3>3
  <2>5. ASSUME NEW t \in Servers, NEW d \in Clients, serving'[t] = d PROVE link'[d] # "none"
    <3>1. t # s /\ serving[t] = d
      BY <1>6, <2>5, StreamConstants
    <3>. QED
      BY <1>0, <1>5, <3>1 DEF Connections
  <2>. QED
    BY <2>1, <2>2, <2>3, <2>4, <2>5 DEF Connections
<1>11. Held' = Held
  <2>1. ASSUME NEW d \in Clients PROVE Held'[d] = Held[d]
    <3>1. \A t \in Servers :
            (serving'[t] = d /\ server'[t] = "write") <=> (serving[t] = d /\ server[t] = "write")
      BY <1>1, <1>6
    <3>. QED
      BY <1>0, <1>1, <1>7, <1>10, <3>1, HeldSame
  <2>2. /\ Held = [d \in Clients |-> Held[d]]
        /\ Held' = [d \in Clients |-> Held'[d]]
    BY DEF Held
  <2>. QED
    BY <2>1, <2>2, Zenon
<1>12. SomeEnded => SomeEnded'
  BY <1>1, <1>6 DEF SomeEnded
<1>13. client[c] = "ended" \/ Answered(c)
  BY <1>0, <1>1, <1>3 DEF ServingOf
<1>14. ASSUME NEW d \in Clients PROVE ClientOk(d)'
  <2>0. ClientOk(d)
    BY DEF StreamInv
  <2>1. CASE d # c
    BY <1>1, <1>5, <1>11, <1>12, <2>0, <2>1, ClientSame
  <2>2. CASE d = c
    BY <1>0, <1>1, <1>2, <1>3, <1>5, <1>11, <1>12, <1>13, <2>0, <2>2, ClientClosed
  <2>. QED
    BY <2>1, <2>2
<1>15. ASSUME NEW t \in Servers PROVE ServerOk(t)'
  <2>1. CASE t # s
    BY <1>1, <1>6, <2>1, OtherServers
  <2>2. CASE t = s
    <3>1. EndOf(s)'
      BY <1>6 DEF EndOf
    <3>2. ServingOf(s)'
      BY <1>0, <1>1, <1>6, <1>8 DEF ServingOf, Pending
    <3>. QED
      BY <2>2, <3>1, <3>2 DEF ServerOk
  <2>. QED
    BY <2>1, <2>2
<1>. QED
  BY <1>7, <1>10, <1>14, <1>15 DEF StreamInv

LEMMA StreamAccept ==
  ASSUME StreamInv, NEW s \in Servers, Stream!Accept(s)
  PROVE  StreamInv'
<1>0. StreamTypes /\ Connections /\ ServingOf(s)
  BY DEF StreamInv, ServerOk
<1> DEFINE c == Head(backlog[s])
<1>1. /\ server[s] = "accept" /\ server' = [server EXCEPT ![s] = "read"]
      /\ backlog[s] # << >>
      /\ serving' = [serving EXCEPT ![s] = c]
      /\ backlog' = [backlog EXCEPT ![s] = Tail(backlog[s])]
      /\ UNCHANGED <<kind, path, client, killed, buf, lengths, next, up, down, link, got>>
  BY <1>0 DEF Stream!Accept, Stream!Goto, StreamTypes
<1>2. /\ backlog[s] \in Seq(Clients) /\ Len(backlog[s]) \in Nat \ {0}
      /\ c \in Clients /\ c = backlog[s][1]
      /\ Tail(backlog[s]) \in Seq(Clients)
      /\ Len(Tail(backlog[s])) = Len(backlog[s]) - 1
      /\ \A i \in 1 .. Len(Tail(backlog[s])) : Tail(backlog[s])[i] = backlog[s][i + 1]
  <2>1. backlog[s] \in Seq(Clients)
    BY <1>0 DEF StreamTypes
  <2>2. Len(backlog[s]) \in Nat \ {0}
    BY <1>1, <2>1, LenProperties, EmptySeq
  <2>3. /\ c \in Clients /\ Tail(backlog[s]) \in Seq(Clients)
        /\ Len(Tail(backlog[s])) = Len(backlog[s]) - 1
        /\ \A i \in 1 .. Len(Tail(backlog[s])) : Tail(backlog[s])[i] = backlog[s][i + 1]
    BY <1>1, <2>1, HeadTailProperties
  <2>4. c = backlog[s][1]
    OBVIOUS
  <2>. QED
    BY <2>1, <2>2, <2>3, <2>4
<1> HIDE DEF c
<1>3. /\ server'[s] = "read" /\ serving'[s] = c /\ backlog'[s] = Tail(backlog[s])
      /\ \A t \in Servers : t # s =>
           server'[t] = server[t] /\ serving'[t] = serving[t] /\ backlog'[t] = backlog[t]
  BY <1>0, <1>1 DEF StreamTypes
<1>4. StreamTypes'
  <2>1. server' \in [Servers -> StreamServerPlaces]
    BY <1>0, <1>1 DEF StreamTypes, StreamServerPlaces
  <2>2. serving' \in [Servers -> Clients \cup {None}] /\ backlog' \in [Servers -> Seq(Clients)]
    BY <1>0, <1>1, <1>2 DEF StreamTypes
  <2>. QED
    BY <1>0, <1>1, <2>1, <2>2 DEF StreamTypes
<1>5. \A n \in Nat \ {0} : \A i \in 1 .. n - 1 : i + 1 \in 1 .. n /\ i + 1 # 1 /\ 1 \in 1 .. n
  OBVIOUS
<1>6. \A n \in Nat \ {0} : 1 \in 1 .. n /\ \A i \in 1 .. n : i = 1 \/ (i - 1 \in 1 .. n - 1 /\ i - 1 + 1 = i)
  OBVIOUS
<1>7. Waiting'[s] = Waiting[s] \ {c} /\ c \in Waiting[s]
  <2>1. /\ Waiting[s] = {backlog[s][i] : i \in 1 .. Len(backlog[s])}
        /\ Waiting'[s] = {backlog'[s][i] : i \in 1 .. Len(backlog'[s])}
    BY DEF Waiting
  <2>2. \A i, k \in 1 .. Len(backlog[s]) : backlog[s][i] = backlog[s][k] => i = k
    BY <1>0 DEF Connections
  <2>3. c \in Waiting[s]
    BY <1>2, <1>6, <2>1
  <2>4. ASSUME NEW d \in Waiting'[s] PROVE d \in Waiting[s] /\ d # c
    <3>1. PICK i \in 1 .. Len(Tail(backlog[s])) : d = Tail(backlog[s])[i]
      BY <1>3, <2>1, <2>4
    <3>2. d = backlog[s][i + 1]
      BY <1>2, <3>1
    <3>3. i + 1 \in 1 .. Len(backlog[s]) /\ i + 1 # 1 /\ 1 \in 1 .. Len(backlog[s])
      BY <1>2, <1>5, <3>1
    <3>. QED
      BY <1>2, <2>1, <2>2, <3>2, <3>3
  <2>5. ASSUME NEW d \in Waiting[s], d # c PROVE d \in Waiting'[s]
    <3>1. PICK i \in 1 .. Len(backlog[s]) : d = backlog[s][i]
      BY <2>1, <2>5
    <3>2. i # 1
      BY <1>2, <2>5, <3>1
    <3>3. i - 1 \in 1 .. Len(Tail(backlog[s])) /\ i - 1 + 1 = i
      BY <1>2, <1>6, <3>1, <3>2
    <3>4. Tail(backlog[s])[i - 1] = d
      BY <1>2, <3>1, <3>3
    <3>. QED
      BY <1>3, <2>1, <3>3, <3>4
  <2>. QED
    BY <2>3, <2>4, <2>5
<1>8. \A t \in Servers : t # s => Waiting'[t] = Waiting[t]
  BY <1>3 DEF Waiting
<1>9. Connections'
  <2>1. ASSUME NEW t \in Servers
        PROVE  /\ server'[t] \in {"read", "write", "close"} => serving'[t] # None
               /\ server'[t] \in {"remove", "bind", "listen", "accept", "failed"} =>
                    serving'[t] = None
               /\ backlog'[t] # << >> => server'[t] \in {"accept", "read", "write", "close"}
    BY <1>0, <1>1, <1>2, <1>3, StreamConstants DEF Connections
  <2>2. ASSUME NEW t \in Servers, NEW i \in 1 .. Len(backlog'[t]),
               NEW k \in 1 .. Len(backlog'[t]), backlog'[t][i] = backlog'[t][k]
        PROVE  i = k
    <3>1. CASE t # s
      BY <1>0, <1>3, <2>2, <3>1 DEF Connections
    <3>2. CASE t = s
      <4>1. i \in 1 .. Len(Tail(backlog[s])) /\ k \in 1 .. Len(Tail(backlog[s]))
        BY <1>3, <3>2
      <4>2. backlog[s][i + 1] = backlog[s][k + 1]
        BY <1>2, <1>3, <2>2, <3>2, <4>1
      <4>3. i + 1 \in 1 .. Len(backlog[s]) /\ k + 1 \in 1 .. Len(backlog[s])
        BY <1>2, <1>5, <4>1
      <4>4. i + 1 = k + 1
        BY <1>0, <4>2, <4>3 DEF Connections
      <4>. QED
        BY <4>1, <4>4
    <3>. QED
      BY <3>1, <3>2
  <2>3. ASSUME NEW t \in Servers, NEW r \in Servers
        PROVE  /\ serving'[t] = serving'[r] /\ serving'[t] # None => t = r
               /\ t # r => Waiting'[t] \cap Waiting'[r] = {}
               /\ serving'[r] \notin Waiting'[t]
    <3>1. /\ serving[t] = serving[r] /\ serving[t] # None => t = r
          /\ t # r => Waiting[t] \cap Waiting[r] = {}
          /\ serving[r] \notin Waiting[t] /\ serving[t] \notin Waiting[r]
          /\ t # s => Waiting[t] \cap Waiting[s] = {}
          /\ serving[t] \notin Waiting[s] /\ serving[r] \notin Waiting[s]
      BY <1>0 DEF Connections
    <3>2. Waiting'[t] \subseteq Waiting[t] /\ Waiting'[r] \subseteq Waiting[r]
      BY <1>7, <1>8
    <3>3. serving'[t] = serving'[r] /\ serving'[t] # None => t = r
      BY <1>3, <1>7, <3>1
    <3>4. t # r => Waiting'[t] \cap Waiting'[r] = {}
      BY <3>1, <3>2
    <3>5. serving'[r] \notin Waiting'[t]
      <4>1. CASE r = s
        <5>1. c \notin Waiting'[t]
          BY <1>7, <1>8, <3>1
        <5>. QED
          BY <1>3, <4>1, <5>1
      <4>2. CASE r # s
        BY <1>3, <3>1, <3>2, <4>2
      <4>. QED
        BY <4>1, <4>2
    <3>. QED
      BY <3>3, <3>4, <3>5
  <2>4. ASSUME NEW d \in Clients
        PROVE  link'[d] = "open" <=> \E t \in Servers :
                 d \in Waiting'[t] \/ (serving'[t] = d /\ server'[t] # "ended")
    <3>1. link[d] = "open" <=> \E t \in Servers :
                 d \in Waiting[t] \/ (serving[t] = d /\ server[t] # "ended")
      BY <1>0 DEF Connections
    <3>2. serving[s] = None
      BY <1>0, <1>1 DEF Connections
    <3>3. ASSUME NEW t \in Servers
          PROVE  d \in Waiting'[t] \/ (serving'[t] = d /\ server'[t] # "ended")
                   <=> d \in Waiting[t] \/ (serving[t] = d /\ server[t] # "ended")
      <4>1. CASE t # s
        BY <1>3, <1>8, <4>1
      <4>2. CASE t = s
        BY <1>3, <1>7, <3>2, <4>2, StreamConstants
      <4>. QED
        BY <4>1, <4>2
    <3>. QED
      BY <1>1, <3>1, <3>3
  <2>5. ASSUME NEW t \in Servers, NEW d \in Clients, serving'[t] = d PROVE link'[d] # "none"
    <3>1. CASE t = s
      <4>1. link[c] = "open"
        BY <1>0, <1>7, WaitingFacts
      <4>. QED
        BY <1>1, <1>3, <2>5, <3>1, <4>1
    <3>2. CASE t # s
      BY <1>0, <1>1, <1>3, <2>5, <3>2 DEF Connections
    <3>. QED
      BY <3>1, <3>2
  <2>. QED
    BY <2>1, <2>2, <2>3, <2>4, <2>5 DEF Connections
<1>10. SomeEnded => SomeEnded'
  BY <1>1, <1>3 DEF SomeEnded
<1>11. ASSUME NEW d \in Clients PROVE ClientOk(d)'
  <2>0. ClientOk(d)
    BY DEF StreamInv
  <2>1. \A t \in Servers :
            (serving'[t] = d /\ server'[t] = "write") <=> (serving[t] = d /\ server[t] = "write")
    BY <1>1, <1>3
  <2>2. Held'[d] = Held[d]
    BY <1>0, <1>1, <1>4, <1>9, <2>1, HeldSame
  <2>. QED
    BY <1>1, <1>10, <2>0, <2>2, ClientSame
<1>12. ASSUME NEW t \in Servers PROVE ServerOk(t)'
  <2>1. CASE t # s
    BY <1>1, <1>3, <2>1, OtherServers
  <2>2. CASE t = s
    <3>1. EndOf(s)'
      BY <1>3 DEF EndOf
    <3>2. ServingOf(s)'
      BY <1>0, <1>1, <1>3, <1>7 DEF ServingOf, Pending
    <3>. QED
      BY <2>2, <3>1, <3>2 DEF ServerOk
  <2>. QED
    BY <2>1, <2>2
<1>. QED
  BY <1>4, <1>9, <1>11, <1>12 DEF StreamInv

-----------------------------------------------------------------------------
(* The invariant, and what follows from it *)

LEMMA StreamInit == Stream!Init => StreamInv
<1> SUFFICES ASSUME Stream!Init PROVE StreamInv
  OBVIOUS
<1>1. /\ kind \in {"echo", "average"} /\ path = None
      /\ server = [s \in Servers |-> "remove"]
      /\ client = [c \in Clients |-> "connect"]
      /\ killed = {}
      /\ backlog = [s \in Servers |-> << >>]
      /\ serving = [s \in Servers |-> None]
      /\ buf = [s \in Servers |-> << >>]
      /\ next = [c \in Clients |-> 1]
      /\ up = [c \in Clients |-> << >>]
      /\ down = [c \in Clients |-> << >>]
      /\ link = [c \in Clients |-> "none"]
      /\ got = [c \in Clients |-> << >>]
  BY DEF Stream!Init
<1>2. /\ lengths \in [Clients -> Seq(Nat) \ {<< >>}]
      /\ kind = "average" => \A c \in Clients : lengths[c] = <<1>>
  <2>1. lengths \in [Clients -> IF kind = "echo" THEN Arguments ELSE {<<1>>}]
    BY DEF Stream!Init, Stream!OneRequest
  <2>2. <<1>> \in Seq(Nat) /\ <<1>> # << >>
    OBVIOUS
  <2>3. CASE kind = "echo"
    BY <2>1, <2>3, StreamConstants
  <2>4. CASE kind = "average"
    BY <2>1, <2>2, <2>4
  <2>. QED
    BY <1>1, <2>3, <2>4
<1>3. StreamTypes
  <2>1. << >> \in Strings /\ << >> \in Seq(Strings) /\ << >> \in Seq(Clients)
    BY FlatFacts, EmptySeq
  <2>2. 1 \in Nat \ {0}
    OBVIOUS
  <2>3. server \in [Servers -> StreamServerPlaces]
    BY <1>1 DEF StreamServerPlaces
  <2>4. /\ backlog \in [Servers -> Seq(Clients)] /\ buf \in [Servers -> Strings]
        /\ up \in [Clients -> Strings] /\ down \in [Clients -> Strings]
        /\ got \in [Clients -> Seq(Strings)] /\ next \in [Clients -> Nat \ {0}]
    BY <1>1, <2>1, <2>2
  <2>. QED
    BY <1>1, <1>2, <2>3, <2>4 DEF StreamTypes
<1>4. \A s \in Servers : backlog[s] = << >> /\ Waiting[s] = {} /\ Len(backlog[s]) = 0
  <2>1. Len(<< >>) = 0 /\ 1 .. 0 = {}
    OBVIOUS
  <2>2. \A s \in Servers : backlog[s] = << >>
    BY <1>1
  <2>3. \A s \in Servers : Len(backlog[s]) = 0
    BY <2>1, <2>2
  <2>4. \A s \in Servers : Waiting[s] = {backlog[s][i] : i \in 1 .. Len(backlog[s])}
    BY DEF Waiting
  <2>. QED
    BY <2>1, <2>2, <2>3, <2>4
<1>5. Connections
  BY <1>1, <1>4, StreamConstants DEF Connections
<1>6. ASSUME NEW c \in Clients PROVE ClientOk(c)
  <2>1. /\ client[c] = "connect" /\ link[c] = "none" /\ next[c] = 1 /\ got[c] = << >>
        /\ Len(got[c]) = 0 /\ up[c] = << >> /\ down[c] = << >> /\ c \notin killed
    BY <1>1
  <2>2. Held[c] = << >>
    BY <1>1, <1>3, <1>5, HeldNow DEF HeldIs
  <2>3. TurnOf(c)
    <3>1. Len(lengths[c]) \in Nat \ {0}
      BY <1>3, TextFacts
    <3>2. \A n \in Nat \ {0} : 1 <= n /\ 1 <= n + 1 /\ 0 = 1 - 1
      OBVIOUS
    <3>. QED
      BY <2>1, <3>1, <3>2 DEF TurnOf
  <2>4. ConservedOf(c) /\ ClosedOf(c)
    BY <2>1 DEF ConservedOf, ClosedOf
  <2>5. WholeOf(c)
    BY <2>1, <2>2 DEF WholeOf, Empty
  <2>. QED
    BY <2>3, <2>4, <2>5 DEF ClientOk
<1>7. ASSUME NEW s \in Servers PROVE ServerOk(s)
  BY <1>1, <1>4 DEF ServerOk, ServingOf, EndOf
<1>. QED
  BY <1>3, <1>5, <1>6, <1>7 DEF StreamInv

LEMMA StreamStep == StreamInv /\ Stream!Next => StreamInv'
<1> SUFFICES ASSUME StreamInv, Stream!Next PROVE StreamInv'
  OBVIOUS
<1>1. ASSUME NEW s \in Servers, Stream!RemovePath(s) \/ Stream!ServerStep(s) \/ Stream!KillServer(s)
      PROVE  StreamInv'
  BY <1>1, StreamQuiet, StreamAccept, StreamServerRead, StreamServerEOF, StreamServerStops,
     StreamServerWrite, StreamCloseConnection DEF Stream!ServerStep
<1>2. ASSUME NEW c \in Clients, Stream!ClientStep(c) \/ Stream!KillClient(c)
      PROVE  StreamInv'
  BY <1>2, StreamConnect, StreamRefused, StreamClientWrite, StreamClientRead, StreamClientEOF
     DEF Stream!ClientStep
<1>. QED
  BY <1>1, <1>2 DEF Stream!Next

LEMMA SentIsWritten ==
  ASSUME StreamInv, NEW c \in Clients
  PROVE  Stream!Sent(c) = Written[c]
<1>0. StreamTypes /\ TurnOf(c)
  BY DEF StreamInv, ClientOk
<1> DEFINE n == IF client[c] = "read" THEN next[c] ELSE next[c] - 1
           sent == [i \in 1 .. n |-> Stream!Bytes(c, i)]
           part == SubSeq(Texts[c], 1, n)
<1>1. /\ Texts[c] \in Seq(Strings) /\ Len(Texts[c]) = Len(lengths[c])
      /\ Len(lengths[c]) \in Nat
      /\ \A i \in 1 .. Len(lengths[c]) :
           Texts[c][i] = Stream!Bytes(c, i) /\ Texts[c][i] \in Strings
  BY <1>0, TextFacts
<1>2. n \in 0 .. Len(lengths[c])
  <2>1. next[c] \in Nat \ {0} /\ next[c] <= Len(lengths[c]) + 1
    BY <1>0 DEF TurnOf, StreamTypes
  <2>2. client[c] = "read" => next[c] <= Len(lengths[c])
    BY <1>0 DEF TurnOf
  <2>3. \A m \in Nat \ {0} : \A k \in Nat :
          /\ m <= k => m \in 0 .. k
          /\ m <= k + 1 => m - 1 \in 0 .. k
    OBVIOUS
  <2>. QED
    BY <1>1, <2>1, <2>2, <2>3
<1>3. Written[c] = Flat[part]
  BY DEF Written
<1>4. Stream!Sent(c) = Stream!FlattenSeq(sent)
  BY DEF Stream!Sent
<1> HIDE DEF n
<1>5. /\ n \in Nat /\ 1 \in Int /\ n \in Int
      /\ \A i \in 1 .. n : i \in 1 .. Len(lengths[c])
      /\ n - 1 + 1 = n /\ (IF 1 <= n THEN n - 1 + 1 ELSE 0) = n
      /\ \A i \in 1 .. n : 1 + i - 1 = i
  <2>1. \A k \in Nat : \A m \in 0 .. k :
          /\ m \in Nat /\ m - 1 + 1 = m /\ (IF 1 <= m THEN m - 1 + 1 ELSE 0) = m
          /\ \A i \in 1 .. m : i \in 1 .. k /\ 1 + i - 1 = i
    OBVIOUS
  <2>. QED
    BY <1>1, <1>2, <2>1
<1>6. sent \in [1 .. n -> Strings]
  BY <1>1, <1>5
<1>7. sent \in Seq(Strings) /\ Len(sent) = n
  <2>1. sent \in Seq(Strings)
    BY <1>5, <1>6, SeqDef
  <2>2. Len(sent) \in Nat /\ DOMAIN sent = 1 .. Len(sent) /\ DOMAIN sent = 1 .. n
    BY <2>1, LenProperties
  <2> HIDE DEF sent
  <2>3. \A k, m \in Nat : 1 .. k = 1 .. m => k = m
    OBVIOUS
  <2>4. Len(sent) = n
    BY <1>5, <2>2, <2>3
  <2>. QED
    BY <2>1, <2>4
<1>8. part \in Seq(Strings) /\ Len(part) = n /\ \A i \in 1 .. n : part[i] = Texts[c][i]
  <2>1. \A i \in 1 .. n : Texts[c][i] \in Strings
    BY <1>1, <1>5
  <2>2. /\ part \in Seq(Strings)
        /\ Len(part) = IF 1 <= n THEN n - 1 + 1 ELSE 0
        /\ \A i \in 1 .. n - 1 + 1 : part[i] = Texts[c][1 + i - 1]
    BY <1>5, <2>1, SubSeqProperties
  <2> HIDE DEF part
  <2>. QED
    BY <1>5, <2>2
<1>9. \A i \in 1 .. n : sent[i] = part[i]
  BY <1>1, <1>5, <1>8
<1> HIDE DEF sent, part
<1>10. sent = part
  BY <1>7, <1>8, <1>9, SeqEqual
<1>11. Flat[part] = Stream!FlattenSeq(part)
  BY <1>8 DEF Flat
<1>. QED
  BY <1>3, <1>4, <1>10, <1>11

LEMMA StreamDelivered == StreamInv => Stream!Delivered
<1> SUFFICES ASSUME StreamInv, NEW c \in Clients
             PROVE  /\ Stream!Connected(c) =>
                         Stream!FlattenSeq(got[c]) \o down[c] \o Stream!AtServer(c) \o up[c]
                           = Stream!Sent(c)
                    /\ Stream!Fits(c) =>
                         \A i \in 1 .. Len(got[c]) : got[c][i] \in {<< >>, Stream!Bytes(c, i)}
                    /\ << >> \in Stream!ToSet(got[c]) => \E s \in Servers : server[s] = "ended"
  BY DEF Stream!Delivered
<1>0. /\ StreamTypes /\ Connections /\ TurnOf(c) /\ ConservedOf(c) /\ WholeOf(c) /\ ClosedOf(c)
  BY DEF StreamInv, ClientOk
<1>1. /\ got[c] \in Seq(Strings) /\ down[c] \in Strings /\ up[c] \in Strings
      /\ Held[c] \in Strings /\ Flat[got[c]] \in Strings
      /\ Flat[got[c]] = Stream!FlattenSeq(got[c]) /\ Held[c] = Stream!AtServer(c)
  <2>1. got[c] \in Seq(Strings) /\ down[c] \in Strings /\ up[c] \in Strings
    BY <1>0 DEF StreamTypes
  <2>2. Held[c] \in Strings /\ Flat[got[c]] \in Strings
    BY <1>0, <2>1, HeldNow, FlatFacts DEF HeldIs
  <2>. QED
    BY <2>1, <2>2 DEF Flat, Held
<1>2. ASSUME Stream!Connected(c)
      PROVE  Stream!FlattenSeq(got[c]) \o down[c] \o Stream!AtServer(c) \o up[c] = Stream!Sent(c)
  <2>1. link[c] = "open" /\ c \notin killed
    BY <1>0, <1>2 DEF Stream!Connected, Stream!Ended, TurnOf
  <2>2. Then(Flat[got[c]], OnTheWay(down[c], Held[c], up[c])) = Written[c]
    BY <1>0, <2>1 DEF ConservedOf
  <2>3. ASSUME NEW f \in Strings, NEW d \in Strings, NEW h \in Strings, NEW u \in Strings
        PROVE  Then(f, OnTheWay(d, h, u)) = Then(Then(Then(f, d), h), u)
    <3>1. \A x, y, z \in Strings : Then(x, y) \in Strings /\ Then(Then(x, y), z) = Then(x, Then(y, z))
      BY StringFacts
    <3>2. Then(Then(f, d), Then(h, u)) = Then(f, Then(d, Then(h, u)))
      BY <3>1
    <3>3. Then(Then(Then(f, d), h), u) = Then(Then(f, d), Then(h, u))
      BY <3>1
    <3>. QED
      BY <3>2, <3>3 DEF OnTheWay
  <2>4. Then(Flat[got[c]], OnTheWay(down[c], Held[c], up[c]))
          = Then(Then(Then(Flat[got[c]], down[c]), Held[c]), up[c])
    BY <1>1, <2>3
  <2>5. Then(Then(Then(Flat[got[c]], down[c]), Held[c]), up[c])
          = Stream!FlattenSeq(got[c]) \o down[c] \o Stream!AtServer(c) \o up[c]
    BY <1>1 DEF Then
  <2>6. Stream!Sent(c) = Written[c]
    BY SentIsWritten
  <2>. QED
    BY <2>2, <2>4, <2>5, <2>6
<1>3. ASSUME Stream!Fits(c), NEW i \in 1 .. Len(got[c])
      PROVE  got[c][i] \in {<< >>, Stream!Bytes(c, i)}
  <2>1. c \in Fitting
    BY <1>3 DEF Fitting
  <2>2. got[c][i] \in {<< >>, Texts[c][i]}
    BY <1>0, <1>3, <2>1 DEF WholeOf
  <2>3. i \in 1 .. Len(lengths[c])
    <3>1. Len(lengths[c]) \in Nat /\ next[c] \in Nat \ {0}
      BY <1>0, TextFacts DEF StreamTypes
    <3>2. Len(got[c]) = next[c] - 1 /\ next[c] <= Len(lengths[c]) + 1
      BY <1>0 DEF TurnOf
    <3>3. \A k \in Nat : \A m \in Nat \ {0} : m <= k + 1 => \A j \in 1 .. m - 1 : j \in 1 .. k
      OBVIOUS
    <3>. QED
      BY <1>3, <3>1, <3>2, <3>3
  <2>. QED
    BY <1>0, <2>2, <2>3, TextFacts
<1>4. ASSUME << >> \in Stream!ToSet(got[c]) PROVE \E s \in Servers : server[s] = "ended"
  <2>1. DOMAIN got[c] = 1 .. Len(got[c])
    BY <1>1, LenProperties
  <2>2. PICK i \in 1 .. Len(got[c]) : got[c][i] = << >>
    BY <1>4, <2>1 DEF Stream!ToSet
  <2>. QED
    BY <1>0, <2>2 DEF ClosedOf, SomeEnded
<1>. QED
  BY <1>2, <1>3, <1>4

LEMMA StreamEndsExplained == StreamInv => Stream!EndsExplained
<1> SUFFICES ASSUME StreamInv, NEW s \in Servers, server[s] = "ended", s \notin killed,
                    serving[s] \notin killed
             PROVE  Stream!LeftUnread(serving[s]) /\ ~Stream!Fits(serving[s])
  BY DEF Stream!EndsExplained
<1>0. StreamTypes /\ Connections /\ EndOf(s)
  BY DEF StreamInv, ServerOk
<1>1. /\ serving[s] # None /\ client[serving[s]] = "ended" /\ serving[s] \notin Fitting
      /\ Flat[got[serving[s]]] # Written[serving[s]]
  BY <1>0 DEF EndOf
<1>2. PICK c \in Clients : serving[s] = c
  BY <1>0, <1>1, WaitingFacts
<1>3. ~Stream!Fits(c)
  BY <1>1, <1>2 DEF Fitting
<1>4. Stream!FlattenSeq(got[c]) # Stream!Sent(c)
  <2>1. got[c] \in Seq(Strings)
    BY <1>0 DEF StreamTypes
  <2>2. Flat[got[c]] = Stream!FlattenSeq(got[c])
    BY <2>1 DEF Flat
  <2>. QED
    BY <1>1, <1>2, <2>2, SentIsWritten
<1>. QED
  BY <1>1, <1>2, <1>3, <1>4 DEF Stream!LeftUnread, Stream!Ended

(***************************************************************************)
(* The theorems                                                             *)
(***************************************************************************)

\* The invariant of the programs: that of the service that is run.
SocketInv ==
    /\ kind = "datagram" => DatagramInv
    /\ kind # "datagram" => StreamInv

LEMMA DatagramKind ==
  ASSUME Datagram!Next
  PROVE  kind' = kind
<1>1. ASSUME NEW s \in Servers,
             Datagram!RemovePath(s) \/ Datagram!ServerStep(s) \/ Datagram!KillServer(s)
      PROVE  kind' = kind
  BY <1>1 DEF Datagram!RemovePath, Datagram!ServerStep, Datagram!KillServer, Datagram!Bind,
     Datagram!BindFails, Datagram!ReceiveMessage, Datagram!SendAnswer,
     Datagram!SendAnswerFails
<1>2. ASSUME NEW c \in Clients,
             \/ Datagram!ClientBind(c) \/ Datagram!ClientBindFails(c)
             \/ Datagram!ClientStep(c) \/ Datagram!KillClient(c)
      PROVE  kind' = kind
  BY <1>2 DEF Datagram!ClientBind, Datagram!ClientBindFails, Datagram!ClientStep,
     Datagram!Send, Datagram!SendFails, Datagram!Receive, Datagram!RemoveName,
     Datagram!KillClient
<1>. QED
  BY <1>1, <1>2 DEF Datagram!Next

LEMMA DatagramUnchanged ==
  ASSUME DatagramInv, UNCHANGED vars
  PROVE  DatagramInv'
<1>0. /\ DatagramTypes /\ Sockets /\ Names /\ OnTheirWay /\ AtMostOne
      /\ OneUnlessDead /\ InTurn
  BY DEF DatagramInv
<1>1. UNCHANGED <<path, server, client, killed, buf, lengths, next, got, pid, name, inbox,
                  replies, asked>>
  BY DEF vars, datagramOnly
<1>2. DatagramTypes'
  BY <1>0, <1>1 DEF DatagramTypes, Messages
<1>3. Sockets'
  BY <1>0, <1>1 DEF Sockets, Messages
<1>4. Names'
  BY <1>0, <1>1 DEF Names, Datagram!Living
<1>5. Awaited' = Awaited
  BY <1>1 DEF Awaited, Messages, Cut, Expects
<1>6. OnTheirWay'
  BY <1>0, <1>1, <1>5 DEF OnTheirWay, Datagram!Up
<1>7. \A c \in Clients : \A s \in Servers : \A i \in Nat : Holds(c, s, i)' <=> Holds(c, s, i)
  BY <1>1 DEF Holds, Datagram!Up
<1>8. AtMostOne'
  BY <1>0, <1>1, <1>7 DEF AtMostOne, Datagram!Living
<1>9. OneUnlessDead'
  BY <1>0, <1>1, <1>7 DEF OneUnlessDead
<1>10. InTurn'
  BY <1>0, <1>1 DEF InTurn, Cut
<1>. QED
  BY <1>2, <1>3, <1>4, <1>6, <1>8, <1>9, <1>10 DEF DatagramInv

LEMMA StreamUnchanged ==
  ASSUME StreamInv, UNCHANGED vars
  PROVE  StreamInv'
<1>0. StreamTypes /\ Connections
  BY DEF StreamInv
<1>1. UNCHANGED <<kind, path, server, client, killed, buf, lengths, next, got, backlog,
                  serving, up, down, link>>
  BY DEF vars, streamOnly
<1>2. StreamTypes'
  BY <1>0, <1>1 DEF StreamTypes
<1>3. Connections'
  BY <1>0, <1>1, ConnectionsSame
<1>4. Held' = Held /\ SomeEnded' = SomeEnded
  BY <1>1, HeldByServers DEF SomeEnded
<1>5. ASSUME NEW c \in Clients PROVE ClientOk(c)'
  BY <1>1, <1>4, ClientSame DEF StreamInv
<1>6. ASSUME NEW s \in Servers PROVE ServerOk(s)'
  BY <1>0, <1>1, ServerSame DEF StreamInv
<1>. QED
  BY <1>2, <1>3, <1>5, <1>6 DEF StreamInv

\* The invariant holds in every state: a step is one of the service that is run.
THEOREM SocketInvHolds == Spec => []SocketInv
<1>1. Init => SocketInv
  BY DatagramInit, StreamInit DEF Init, SocketInv, Stream!Init, Datagram!Init
<1>2. SocketInv /\ [Next]_vars => SocketInv'
  <2> SUFFICES ASSUME SocketInv, [Next]_vars PROVE SocketInv'
    OBVIOUS
  <2>1. CASE StreamOnly /\ Stream!Next
    <3>1. kind # "datagram" /\ StreamInv'
      BY <2>1, StreamStep DEF SocketInv, StreamOnly
    <3>2. kind' # "datagram"
      BY <3>1 DEF StreamInv, StreamTypes
    <3>. QED
      BY <3>1, <3>2 DEF SocketInv
  <2>2. CASE DatagramOnly /\ Datagram!Next
    <3>1. kind = "datagram" /\ DatagramInv'
      BY <2>2, DatagramStep DEF SocketInv, DatagramOnly
    <3>2. kind' = kind
      BY <2>2, DatagramKind
    <3>. QED
      BY <3>1, <3>2 DEF SocketInv
  <2>3. CASE UNCHANGED vars
    <3>1. kind' = kind
      BY <2>3 DEF vars
    <3>. QED
      BY <2>3, <3>1, DatagramUnchanged, StreamUnchanged DEF SocketInv
  <2>. QED
    BY <2>1, <2>2, <2>3 DEF Next
<1>. QED
  BY <1>1, <1>2, PTL DEF Spec

\* Over a stream that is open every byte a client has written is in one place and
\* in its order, a read() returns the answer just asked for if the strings fit,
\* and none is made up unless a server was ended; over datagrams every answer is
\* to the message its client was waiting for (socketStreamServer.c:61-73,
\* datagramServer.c:43-58).
THEOREM DeliveredHolds == Spec => []Delivered
<1>1. SocketInv => Delivered
  BY DatagramDelivered, StreamDelivered DEF SocketInv, Delivered
<1>. QED
  BY <1>1, SocketInvHolds, PTL

\* A server that was not killed was ended by a client that was killed, or that
\* closed its stream with strings in it too long for its buffer
\* (socketStreamServer.c:75-78); a datagram server goes on.
THEOREM EndsExplainedHolds == Spec => []EndsExplained
<1>1. SocketInv => EndsExplained
  BY DatagramEndsExplained, StreamEndsExplained DEF SocketInv, EndsExplained
<1>. QED
  BY <1>1, SocketInvHolds, PTL
=============================================================================

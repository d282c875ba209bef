---------------------------- MODULE Socks5Proofs ----------------------------
(***************************************************************************)
(* Proofs about Socks5, for any number of packages.                        *)
(*                                                                         *)
(* ToldMeansTarget is not inductive: the source takes whatever comes in    *)
(* the state tunnel for the reply, so one has to know that nothing else    *)
(* can come.  During the handshake one package at most is on its way, and  *)
(* what it says fits the proxy's state (Handshake); in the state tunnel a  *)
(* package, for a BIND a second one, has been sent only by a proxy whose   *)
(* target or relay is there (Tunnel).                                      *)
(*                                                                         *)
(* StreamIntact needs what is on the way: from the source to the target    *)
(* one run of numbers (Forward), on the way back the same behind the       *)
(* replies the source still waits for (FarBack, NearBack), each as long as *)
(* no ::recv has written over that way's bytes, and of each datagram whose *)
(* it is and whether it is still as it was sent (DatagramsKnown).          *)
(*                                                                         *)
(* The second part is about UdpChannel, by which the datagrams go.         *)
(***************************************************************************)
EXTENDS Socks5, UdpChannel, SequenceTheorems, TLAPS

Stands == valid \/ relay \in {"open", "closed"}

\* The types the argument needs.
LinksTyped ==
  /\ near \in Links /\ far \in Links
  /\ said \in 0 .. MaxData /\ tsaid \in 0 .. MaxData

Handshake ==
  open /\ shake \in {"method", "auth"} =>
    /\ head = "init" /\ trs = "none"
    /\ near.fwd = << >> \/ near.back = << >>
    /\ Len(near.fwd) <= 1 /\ Len(near.back) <= 1
    /\ sshake = "tunnel" => near.fwd = << >>
    /\ near.back # << >> =>
         /\ Head(near.back).is = "granted" => sshake = "tunnel" /\ sock # "none"
         /\ Head(near.back).is = "userpsw" => sshake # "tunnel"

Tunnel ==
  open /\ shake = "tunnel" =>
    /\ sock # "none"
    /\ head = "init" => near.back = << >> /\ trs = "none" /\ sshake \notin {"method", "auth"}
    /\ ~Stands /\ cmd # "bind" => near.back = << >>
    /\ ~Stands /\ cmd = "bind" => Len(near.back) <= 1 /\ (trs # "none" => near.back = << >>)

TargetOfTunnel == (tun = "open" => valid) /\ (valid => target # "none")

\* Before the request the proxy has nothing but the connection to the source.
Fresh == head = "init" => relay = "none" /\ tun = "none" /\ target = "none"

ToldIsNormal == (told /\ open => shake = "normal") /\ (told => Stands)

IInv == LinksTyped /\ Handshake /\ Tunnel /\ Fresh /\ TargetOfTunnel /\ ToldIsNormal

\* In a CONNECT the tunnel is closed with the connection to the source.
TunnelFollows ==
  cmd = "connect" =>
    /\ tun \in {"connecting", "listening", "open"} => sock = "normal"
    /\ ~aborted

-----------------------------------------------------------------------------
(* What StreamIntact rests on                                               *)

\* What the other commands have is not there; whoever is in the tunnel has been told.
ByCommand ==
  /\ cmd # "associate" => udp = "none" /\ relay = "none" /\ air = {} /\ heard = {}
  /\ cmd = "associate" => tun = "none" /\ target = "none"
  /\ cmd # "bind" => trs = "none"
  /\ head = "term" => sock # "none"
  /\ open => shake # "none"
  /\ shake = "tunnel" => trs # "target"
  /\ udp = "normal" => told
  /\ valid => tun \notin {"connecting", "listening"}
  /\ tun = "connecting" => cmd = "connect"
  /\ shake = "normal" => told
  /\ (said # 0 \/ got # << >>) => told

EndsTyped == got \in Seq(Nat) /\ tgot \in Seq(Nat) /\ target \in {"none", "open", "closed"}

\* A datagram says where it comes from, on each leg; what the relay sends on is whole
\* as long as it has taken one at most.
DatagramsKnown ==
  /\ relayThunk \in 0 .. 2
  /\ \A d \in air :
       \/ d.from = "source" /\ d.to = "relay" /\ d.header = "target" /\ d.n \in 1 .. said /\ d.whole
       \/ /\ d.from = "relay" /\ d.to = "target" /\ d.header = "none" /\ d.n \in 1 .. said
          /\ relayThunk <= 1 => d.whole
       \/ d.from = "relay" /\ d.to = "source" /\ d.header = "target" /\ d.n \in 1 .. tsaid
       \/ d.from = "target" /\ d.to = "relay" /\ d.header = "none" /\ d.n \in 1 .. tsaid
  /\ \A h \in heard : h.n \in 1 .. said /\ (relayThunk <= 1 => h.whole)
  /\ \A a \in answers : a.from = "target" /\ a.n \in 1 .. tsaid

\* Behind the first a elements the packages are numbered on from k.
Numbered(s, a, k) == \A i \in 1 .. Len(s) : i > a => s[i].n = k + i - a

\* The way from the source to the target: what is received, what the tunnel holds and
\* what the proxy has not read are one run of numbers.
Forward ==
  /\ \A i \in 1 .. Len(tgot) : tgot[i] = i
  /\ Numbered(far.fwd, 0, Len(tgot))
  /\ head = "init" => Len(near.fwd) <= 1 /\ far.fwd = << >> /\ tgot = << >>
  /\ head = "term" /\ ~valid => near.fwd = << >>
  /\ head = "term" /\ sock = "normal" /\ target # "closed" =>
       /\ Numbered(near.fwd, 0, Len(tgot) + Len(far.fwd))
       /\ cmd # "associate" => said = Len(tgot) + Len(far.fwd) + Len(near.fwd)

\* How many replies the source waits for.
Ahead == IF shake = "normal" THEN 0 ELSE IF cmd = "bind" /\ trs = "none" THEN 2 ELSE 1

\* The way back, before the tunnel stands.
FarBack ==
  ~valid =>
    /\ Numbered(far.back, 0, 0)
    /\ tun # "closed" /\ cmd # "associate" => tsaid = Len(far.back)

\* From then on: the replies the source waits for come before the data.
NearBack ==
  open /\ shake \in {"tunnel", "normal"} =>
    /\ Numbered(near.back, Ahead, Len(got))
    /\ cmd = "associate" => Len(near.back) <= Ahead
    /\ cmd = "bind" /\ tun = "listening" => Len(near.back) = Ahead - 1
    /\ valid /\ ~aborted =>
         /\ Ahead <= Len(near.back)
         /\ Numbered(far.back, 0, Len(got) + Len(near.back) - Ahead)
         /\ tun # "closed" => tsaid = Len(got) + Len(near.back) - Ahead + Len(far.back)

Backward == (\A i \in 1 .. Len(got) : got[i] = i) /\ FarBack /\ NearBack

-----------------------------------------------------------------------------
(* The operations on a connection                                           *)

LEMMA PkgType ==
  ASSUME NEW is \in {"method", "auth", "request", "userpsw", "refused", "granted", "denied", "reply"}
  PROVE  Pkg(is) \in Packages /\ Pkg(is).is = is
BY DEF Pkg, Packages

LEMMA DataType ==
  ASSUME NEW n \in 1 .. MaxData
  PROVE  Data(n) \in Packages
BY DEF Data, Packages

LEMMA SendKeeps ==
  ASSUME NEW link \in Links, NEW m \in Packages, NEW there
  PROVE  /\ SendFwd(link, m, there) \in Links
         /\ SendFwd(link, m, there).back = link.back
         /\ SendFwd(link, m, there).fwd \in {link.fwd, Append(link.fwd, m)}
         /\ SendBack(link, m, there) \in Links
         /\ SendBack(link, m, there).fwd = link.fwd
         /\ SendBack(link, m, there).back \in {link.back, Append(link.back, m)}
<1>1. Append(link.fwd, m) \in Seq(Packages) /\ Append(link.back, m) \in Seq(Packages)
  BY AppendProperties DEF Links
<1>2. CASE there
  BY <1>1, <1>2 DEF SendFwd, SendBack, Links
<1>3. CASE ~there
  BY <1>3 DEF SendFwd, SendBack, Reset, Links
<1> QED
  BY <1>2, <1>3

LEMMA MarkKeeps ==
  ASSUME NEW link \in Links
  PROVE  /\ Reset(link) \in Links /\ Reset(link).fwd = link.fwd /\ Reset(link).back = link.back
         /\ EndFwd(link) \in Links /\ EndFwd(link).fwd = link.fwd /\ EndFwd(link).back = link.back
         /\ EndBack(link) \in Links /\ EndBack(link).fwd = link.fwd /\ EndBack(link).back = link.back
BY DEF Reset, EndFwd, EndBack, Links

LEMMA CloseKeeps ==
  ASSUME NEW link \in Links
  PROVE  /\ CloseFwd(link) \in Links /\ CloseFwd(link).fwd = link.fwd /\ CloseFwd(link).back = link.back
         /\ CloseBack(link) \in Links /\ CloseBack(link).fwd = link.fwd /\ CloseBack(link).back = link.back
BY MarkKeeps DEF CloseFwd, CloseBack

LEMMA OneIsShort ==
  ASSUME NEW m \in Packages
  PROVE  Append(<< >>, m) = <<m>> /\ Len(<<m>>) <= 1 /\ Len(<< >>) <= 1
BY EmptySeq, AppendProperties

LEMMA Rest ==
  ASSUME NEW s \in Seq(Packages), s # << >>
  PROVE  /\ SubSeq(s, 2, Len(s)) \in Seq(Packages)
         /\ Len(SubSeq(s, 2, Len(s))) = Len(s) - 1
         /\ Len(s) <= 1 => SubSeq(s, 2, Len(s)) = << >>
         /\ Head(s) \in Packages
<1>1. Tail(s) = SubSeq(s, 2, Len(s))
  BY TailIsSubSeq
<1>2. Tail(s) \in Seq(Packages) /\ Len(Tail(s)) = Len(s) - 1 /\ Head(s) \in Packages
  BY HeadTailProperties
<1>3. Len(s) <= 1 => Tail(s) = << >>
  BY <1>2, EmptySeq
<1> QED
  BY <1>1, <1>2, <1>3

LEMMA TakeFwdKeeps ==
  ASSUME NEW link \in Links, link.fwd # << >>
  PROVE  /\ TakeFwd(link, 1) \in Links /\ TakeFwd(link, 1).back = link.back
         /\ Head(link.fwd) \in Packages
         /\ Len(link.fwd) <= 1 => TakeFwd(link, 1).fwd = << >>
<1>1. link.fwd \in Seq(Packages)
  BY DEF Links
<1>2. TakeFwd(link, 1) = [link EXCEPT !.fwd = SubSeq(link.fwd, 2, Len(link.fwd))]
  BY DEF TakeFwd
<1>3. SubSeq(link.fwd, 2, Len(link.fwd)) \in Seq(Packages)
  BY <1>1, Rest
<1>4. /\ TakeFwd(link, 1) \in Links /\ TakeFwd(link, 1).back = link.back
      /\ TakeFwd(link, 1).fwd = SubSeq(link.fwd, 2, Len(link.fwd))
  BY <1>2, <1>3 DEF Links
<1> QED
  BY <1>1, <1>4, Rest

LEMMA TakeBackKeeps ==
  ASSUME NEW link \in Links, link.back # << >>
  PROVE  /\ TakeBack(link, 1) \in Links /\ TakeBack(link, 1).fwd = link.fwd
         /\ Head(link.back) \in Packages
         /\ Len(link.back) <= 1 => TakeBack(link, 1).back = << >>
         /\ Len(TakeBack(link, 1).back) = Len(link.back) - 1
         /\ Len(link.back) \in Nat
<1>1. link.back \in Seq(Packages)
  BY DEF Links
<1>2. TakeBack(link, 1) = [link EXCEPT !.back = SubSeq(link.back, 2, Len(link.back))]
  BY DEF TakeBack
<1>3. SubSeq(link.back, 2, Len(link.back)) \in Seq(Packages)
  BY <1>1, Rest
<1>4. /\ TakeBack(link, 1) \in Links /\ TakeBack(link, 1).fwd = link.fwd
      /\ TakeBack(link, 1).back = SubSeq(link.back, 2, Len(link.back))
  BY <1>2, <1>3 DEF Links
<1> QED
  BY <1>1, <1>4, Rest, LenProperties

\* Bytes written over: no package is added, and none appears where there was none.
LEMMA JumbledKeeps ==
  ASSUME NEW q \in Seq(Packages), NEW i \in 1 .. Len(q), NEW j \in 1 .. Len(q), i <= j
  PROVE  /\ Jumbled(q, i, j) \in Seq(Packages)
         /\ Len(Jumbled(q, i, j)) <= Len(q) /\ q # << >>
         /\ Len(q) <= 1 => Head(Jumbled(q, i, j)).is = "garbled"
<1> DEFINE front == SubSeq(q, i + 1, j)
           bytes == <<Garbled>>
           behind == SubSeq(q, j + 1, Len(q))
<1>1. Garbled \in Packages /\ Garbled.is = "garbled"
  BY DEF Garbled, Pkg, Packages
<1>2. front \in Seq(Packages) /\ Len(front) = j - i
  BY SubSeqProperties
<1>3. behind \in Seq(Packages) /\ Len(behind) = Len(q) - j
  BY SubSeqProperties
<1>4. bytes \in Seq(Packages) /\ Len(bytes) = 1 /\ Head(bytes) = Garbled
  BY <1>1
<1>5. Len(q) \in Nat
  BY LenProperties
<1>8. Jumbled(q, i, j) = (front \o bytes) \o behind
  BY DEF Jumbled
<1> HIDE DEF front, bytes, behind
<1>6. front \o bytes \in Seq(Packages) /\ Len(front \o bytes) = Len(front) + Len(bytes)
  BY <1>2, <1>4, ConcatProperties
<1>7. /\ (front \o bytes) \o behind \in Seq(Packages)
      /\ Len((front \o bytes) \o behind) = Len(front) + Len(bytes) + Len(behind)
  <2> DEFINE before == front \o bytes
  <2> HIDE DEF before
  <2>1. before \in Seq(Packages) /\ Len(before) = Len(front) + Len(bytes)
    BY <1>6 DEF before
  <2>2. before \o behind \in Seq(Packages) /\ Len(before \o behind) = Len(before) + Len(behind)
    BY <1>3, <2>1, ConcatProperties
  <2> QED
    BY <2>1, <2>2 DEF before
<1>10. Len(front) + Len(bytes) + Len(behind) <= Len(q)
  BY <1>2, <1>3, <1>4, <1>5
<1>9. ASSUME Len(q) <= 1 PROVE Head(Jumbled(q, i, j)).is = "garbled"
  <2>1. Len(front) = 0 /\ Len(behind) = 0
    BY <1>2, <1>3, <1>5, <1>9
  <2>2. front = << >> /\ behind = << >>
    BY <1>2, <1>3, <2>1, EmptySeq
  <2>3. Jumbled(q, i, j) = bytes
    BY <1>4, <1>8, <2>2, ConcatEmptySeq
  <2> QED
    BY <1>1, <1>4, <2>3
<1>11. q # << >>
  BY <1>5, EmptySeq
<1> QED
  BY <1>7, <1>8, <1>9, <1>10, <1>11

\* An incomplete package stays where it is.
LEMMA LeaveKeeps ==
  ASSUME NEW q \in Seq(Packages), q # << >>
  PROVE  /\ <<Partial>> \o Tail(q) \in Seq(Packages)
         /\ Len(<<Partial>> \o Tail(q)) = Len(q)
         /\ Head(<<Partial>> \o Tail(q)).is = "partial"
         /\ \A k \in 1 .. Len(q) : k > 1 => (<<Partial>> \o Tail(q))[k] = q[k]
<1>1. Partial \in Packages /\ Partial.is = "partial"
  BY DEF Partial, Pkg, Packages
<1>2. /\ Tail(q) \in Seq(Packages) /\ Len(Tail(q)) = Len(q) - 1 /\ Len(q) \in Nat
      /\ \A k \in 1 .. Len(Tail(q)) : Tail(q)[k] = q[k + 1]
  BY HeadTailProperties, LenProperties
<1>3. <<Partial>> \in Seq(Packages) /\ Len(<<Partial>>) = 1 /\ <<Partial>>[1] = Partial
  BY <1>1
<1>4. /\ <<Partial>> \o Tail(q) \in Seq(Packages)
      /\ Len(<<Partial>> \o Tail(q)) = 1 + Len(Tail(q))
      /\ \A k \in 1 .. 1 + Len(Tail(q)) :
           (<<Partial>> \o Tail(q))[k] = IF k <= 1 THEN <<Partial>>[k] ELSE Tail(q)[k - 1]
  BY <1>2, <1>3, ConcatProperties
<1>5. (<<Partial>> \o Tail(q))[1] = Partial
  BY <1>2, <1>3, <1>4
<1>6. \A k \in 1 .. Len(q) : k > 1 => (<<Partial>> \o Tail(q))[k] = q[k]
  BY <1>2, <1>4
<1>7. Head(<<Partial>> \o Tail(q)) = (<<Partial>> \o Tail(q))[1]
  BY <1>2, <1>4
<1> QED
  BY <1>1, <1>2, <1>4, <1>5, <1>6, <1>7

LEMMA OverwriteTypes ==
  ASSUME NEW link \in Links
  PROVE  /\ \A i, j \in 1 .. Len(link.fwd) : i <= j =>
              /\ [link EXCEPT !.fwd = Jumbled(@, i, j)] \in Links
              /\ [link EXCEPT !.fwd = Jumbled(@, i, j)].fwd = Jumbled(link.fwd, i, j)
              /\ [link EXCEPT !.fwd = Jumbled(@, i, j)].back = link.back
         /\ \A i, j \in 1 .. Len(link.back) : i <= j =>
              /\ [link EXCEPT !.back = Jumbled(@, i, j)] \in Links
              /\ [link EXCEPT !.back = Jumbled(@, i, j)].back = Jumbled(link.back, i, j)
              /\ [link EXCEPT !.back = Jumbled(@, i, j)].fwd = link.fwd
<1>1. link.fwd \in Seq(Packages) /\ link.back \in Seq(Packages)
  BY DEF Links
<1>2. ASSUME NEW i \in 1 .. Len(link.fwd), NEW j \in 1 .. Len(link.fwd), i <= j
      PROVE  Jumbled(link.fwd, i, j) \in Seq(Packages)
  BY <1>1, <1>2, JumbledKeeps
<1>3. ASSUME NEW i \in 1 .. Len(link.back), NEW j \in 1 .. Len(link.back), i <= j
      PROVE  Jumbled(link.back, i, j) \in Seq(Packages)
  BY <1>1, <1>3, JumbledKeeps
<1> QED
  BY <1>2, <1>3 DEF Links

LEMMA LeaveTypes ==
  ASSUME NEW link \in Links
  PROVE  /\ link.fwd # << >> => LeaveFwd(link) \in Links /\ LeaveFwd(link).fwd = <<Partial>> \o Tail(link.fwd)
                                 /\ LeaveFwd(link).back = link.back
         /\ link.back # << >> => LeaveBack(link) \in Links /\ LeaveBack(link).back = <<Partial>> \o Tail(link.back)
                                 /\ LeaveBack(link).fwd = link.fwd
<1>1. link.fwd \in Seq(Packages) /\ link.back \in Seq(Packages)
  BY DEF Links
<1>2. link.fwd # << >> => <<Partial>> \o Tail(link.fwd) \in Seq(Packages)
  BY <1>1, LeaveKeeps
<1>3. link.back # << >> => <<Partial>> \o Tail(link.back) \in Seq(Packages)
  BY <1>1, LeaveKeeps
<1> QED
  BY <1>2, <1>3 DEF LeaveFwd, LeaveBack, Links

-----------------------------------------------------------------------------
(* The invariant                                                            *)

LEMMA InitInv == Init => IInv
<1> SUFFICES ASSUME Init
             PROVE  IInv
  OBVIOUS
<1> USE DEF Init
<1>1. near \in Links /\ near.fwd = <<Pkg("method")>> /\ near.back = << >> /\ far \in Links
  <2>1. NoLink \in Links /\ NoLink.back = << >> /\ near = [NoLink EXCEPT !.fwd = <<Pkg("method")>>]
    BY EmptySeq DEF NoLink, Links
  <2>2. <<Pkg("method")>> \in Seq(Packages)
    BY PkgType
  <2> HIDE DEF Init
  <2>3. near \in Links /\ near.fwd = <<Pkg("method")>> /\ near.back = << >>
    BY <2>1, <2>2 DEF Links
  <2> QED
    BY <2>1, <2>3 DEF Init
<1>2. LinksTyped
  BY <1>1, MaxDataAssumption DEF LinksTyped
<1> QED
  BY <1>1, <1>2 DEF IInv, Handshake, Tunnel, Fresh, TargetOfTunnel, ToldIsNormal

\* A step that leaves the handshake and what is on its way alone.
LEMMA QuietKeeps ==
  ASSUME IInv, LinksTyped',
         near'.fwd = near.fwd, near'.back = near.back,
         UNCHANGED <<cmd, shake, trs, told, open, sshake, head>>,
         sock # "none" => sock' # "none",
         Fresh', Stands => Stands', TargetOfTunnel'
  PROVE  IInv'
<1>1. Handshake'
  BY DEF IInv, Handshake
<1>2. Tunnel'
  BY DEF IInv, Tunnel
<1> QED
  BY <1>1, <1>2 DEF IInv, Fresh, TargetOfTunnel, ToldIsNormal, Stands

\* Packages that are no longer what they were: no more than before, and none of the
\* handshake among them.
LEMMA ShapeKeeps ==
  ASSUME IInv, LinksTyped',
         UNCHANGED <<cmd, shake, trs, told, open, sock, sshake, head, valid, tun, target, relay>>,
         near'.fwd = near.fwd \/ (near.fwd # << >> /\ Len(near'.fwd) <= Len(near.fwd)),
         \/ near'.back = near.back
         \/ /\ near.back # << >> /\ Len(near'.back) <= Len(near.back)
            /\ Len(near.back) <= 1 => Head(near'.back).is \in {"garbled", "partial"}
  PROVE  IInv'
<1>1. /\ near.fwd \in Seq(Packages) /\ near'.fwd \in Seq(Packages)
      /\ near.back \in Seq(Packages) /\ near'.back \in Seq(Packages)
  BY DEF IInv, LinksTyped, Links
<1>2. /\ Len(near.fwd) \in Nat /\ Len(near'.fwd) \in Nat /\ Len(near.back) \in Nat /\ Len(near'.back) \in Nat
  BY <1>1, LenProperties
<1>3. Len(near'.fwd) <= Len(near.fwd) /\ Len(near'.back) <= Len(near.back)
  BY <1>2
<1>4. (near.fwd = << >> => near'.fwd = << >>) /\ (near.back = << >> => near'.back = << >>)
  OBVIOUS
<1>5. Handshake'
  <2> SUFFICES ASSUME open', shake' \in {"method", "auth"}
               PROVE  Handshake'
    BY DEF Handshake
  <2>1. /\ head = "init" /\ trs = "none" /\ (near.fwd = << >> \/ near.back = << >>)
        /\ Len(near.fwd) <= 1 /\ Len(near.back) <= 1
        /\ sshake = "tunnel" => near.fwd = << >>
    BY DEF IInv, Handshake
  <2>2. near.back # << >> /\ near'.back # near.back => Head(near'.back).is \in {"garbled", "partial"}
    BY <2>1
  <2>3. near'.back # << >> =>
         /\ Head(near'.back).is = "granted" => sshake' = "tunnel" /\ sock' # "none"
         /\ Head(near'.back).is = "userpsw" => sshake' # "tunnel"
    BY <1>4, <2>2 DEF IInv, Handshake
  <2>4. Len(near'.fwd) <= 1 /\ Len(near'.back) <= 1
    BY <1>2, <1>3, <2>1
  <2> QED
    BY <1>4, <2>1, <2>3, <2>4 DEF Handshake
<1>6. Tunnel'
  <2>1. Stands' = Stands
    BY DEF Stands
  <2> QED
    BY <1>2, <1>3, <1>4, <2>1 DEF IInv, Tunnel
<1> QED
  BY <1>5, <1>6 DEF IInv, Fresh, TargetOfTunnel, ToldIsNormal, Stands

LEMMA OverwritesKeep ==
  ASSUME IInv, SourceOverwrites \/ ProxyOverwrites \/ TunnelOverwrites
  PROVE  IInv'
<1>1. UNCHANGED <<cmd, shake, trs, told, open, sock, sshake, head, valid, tun, target, relay, said, tsaid>>
  BY DEF SourceOverwrites, ProxyOverwrites, TunnelOverwrites, given, sourceVars, proxyVars, targetVars, udpVars
<1>2. /\ near \in Links /\ far \in Links /\ near.fwd \in Seq(Packages) /\ near.back \in Seq(Packages)
  BY DEF IInv, LinksTyped, Links
<1>3. CASE SourceOverwrites
  <2>1. PICK i \in 1 .. Len(near.back), j \in 1 .. Len(near.back) :
          i <= j /\ near' = [near EXCEPT !.back = Jumbled(@, i, j)]
    BY <1>3 DEF SourceOverwrites
  <2>2. near' \in Links /\ near'.back = Jumbled(near.back, i, j) /\ near'.fwd = near.fwd /\ far' = far
    BY <1>2, <1>3, <2>1, OverwriteTypes DEF SourceOverwrites
  <2>3. LinksTyped'
    BY <1>1, <2>2 DEF IInv, LinksTyped
  <2>4. /\ near.back # << >> /\ Len(near'.back) <= Len(near.back)
        /\ Len(near.back) <= 1 => Head(near'.back).is \in {"garbled", "partial"}
    BY <1>2, <2>1, <2>2, JumbledKeeps
  <2> QED
    BY <1>1, <2>2, <2>3, <2>4, ShapeKeeps
<1>4. CASE ProxyOverwrites
  <2>1. PICK i \in 1 .. Len(near.fwd), j \in 1 .. Len(near.fwd) :
          i <= j /\ near' = [near EXCEPT !.fwd = Jumbled(@, i, j)]
    BY <1>4 DEF ProxyOverwrites
  <2>2. near' \in Links /\ near'.fwd = Jumbled(near.fwd, i, j) /\ near'.back = near.back /\ far' = far
    BY <1>2, <1>4, <2>1, OverwriteTypes DEF ProxyOverwrites
  <2>3. LinksTyped'
    BY <1>1, <2>2 DEF IInv, LinksTyped
  <2>4. near.fwd # << >> /\ Len(near'.fwd) <= Len(near.fwd)
    BY <1>2, <2>1, <2>2, JumbledKeeps
  <2> QED
    BY <1>1, <2>2, <2>3, <2>4, ShapeKeeps
<1>5. CASE TunnelOverwrites
  <2>1. far' \in Links /\ near' = near
    BY <1>2, <1>5, OverwriteTypes DEF TunnelOverwrites
  <2>2. LinksTyped'
    BY <1>1, <1>2, <2>1 DEF IInv, LinksTyped
  <2> QED
    BY <1>1, <2>1, <2>2, ShapeKeeps
<1> QED
  BY <1>3, <1>4, <1>5

\* A source that closes has no handshake any more.
LEMMA ClosedKeeps ==
  ASSUME IInv, LinksTyped', ~open', told' = told, Fresh', Stands => Stands', TargetOfTunnel'
  PROVE  IInv'
BY DEF IInv, Handshake, Tunnel, Fresh, TargetOfTunnel, ToldIsNormal, Stands

-----------------------------------------------------------------------------
(* The source                                                               *)

LEMMA StandsStays ==
  ASSUME UNCHANGED <<valid, relay>>
  PROVE  Stands' = Stands
BY DEF Stands

\* A package of the handshake is answered with the next.
LEMMA SaysKeeps ==
  ASSUME IInv, open, open', shake \in {"method", "auth"}, near.back # << >>,
         UNCHANGED <<cmd, sock, sshake, head, tun, target, valid, relay, trs, told, said, tsaid, far>>,
         NEW is \in {"auth", "request"}, NEW there,
         near' = SendFwd(TakeBack(near, 1), Pkg(is), there),
         \/ is = "request" /\ shake' = "tunnel" /\ Head(near.back).is = "granted"
         \/ is = "auth" /\ shake' = "auth" /\ Head(near.back).is = "userpsw"
  PROVE  IInv'
<1> DEFINE rest == TakeBack(near, 1)
<1>1. near \in Links /\ Len(near.back) <= 1 /\ near.fwd = << >> /\ trs = "none" /\ head = "init"
  BY DEF IInv, LinksTyped, Handshake
<1>2. rest \in Links /\ rest.fwd = << >> /\ rest.back = << >>
  BY <1>1, TakeBackKeeps
<1>3. Pkg(is) \in Packages
  BY PkgType
<1>4. near' \in Links /\ near'.back = << >> /\ Len(near'.fwd) <= 1
  <2>1. near' \in Links /\ near'.back = rest.back /\ near'.fwd \in {rest.fwd, Append(rest.fwd, Pkg(is))}
    BY <1>2, <1>3, SendKeeps
  <2>2. Len(Append(<< >>, Pkg(is))) = 1 /\ Len(<< >>) = 0
    BY <1>3, EmptySeq, AppendProperties
  <2> QED
    BY <1>2, <2>1, <2>2
<1>5. LinksTyped'
  BY <1>4 DEF IInv, LinksTyped
<1>6. shake' = "auth" => sshake # "tunnel"
  BY <1>2 DEF IInv, Handshake
<1>7. shake' = "tunnel" => sshake = "tunnel" /\ sock # "none"
  BY <1>2 DEF IInv, Handshake
<1>8. Handshake'
  BY <1>1, <1>4, <1>6 DEF Handshake
<1>9. Tunnel'
  BY <1>1, <1>4, <1>7 DEF Tunnel
<1>10. ~told
  BY DEF IInv, ToldIsNormal
<1> QED
  BY <1>5, <1>8, <1>9, <1>10, StandsStays DEF IInv, Fresh, TargetOfTunnel, ToldIsNormal

\* The reply is taken: whoever has sent it has the target or the relay.
LEMMA ReplyKeeps ==
  ASSUME IInv, open, shake = "tunnel", near.back # << >>, TunnelPkg,
         UNCHANGED <<given, sock, sshake, head, tun, target, valid, relay, tsaid, far>>,
         near' = TakeBack(near, 1)
  PROVE  IInv'
<1>1. near \in Links /\ near' \in Links /\ near'.fwd = near.fwd /\ Len(near'.back) = Len(near.back) - 1
  BY TakeBackKeeps DEF IInv, LinksTyped
<1>2. Len(near.back) <= 1 => near'.back = << >>
  BY <1>1, TakeBackKeeps
<1>3. LinksTyped'
  BY <1>1 DEF IInv, LinksTyped, TunnelPkg
<1>4. open' /\ cmd' = cmd /\ Stands' = Stands
  BY StandsStays DEF TunnelPkg, given
<1>5. head # "init" /\ sock # "none" /\ ~told
  BY DEF IInv, Tunnel, ToldIsNormal
<1>6. CASE cmd = "bind" /\ trs = "none" /\ trs' = "listen" /\ UNCHANGED <<shake, told>>
  <2>1. ~Stands => near'.back = << >>
    BY <1>2, <1>6 DEF IInv, Tunnel
  <2>2. Tunnel' /\ Handshake'
    BY <1>4, <1>5, <1>6, <2>1 DEF Tunnel, Handshake
  <2> QED
    BY <1>3, <1>4, <1>5, <1>6, <2>2 DEF IInv, Fresh, TargetOfTunnel, ToldIsNormal
<1>7. CASE shake' = "normal" /\ told' /\ (cmd = "bind" => trs = "listen")
  <2>1. Stands
    BY <1>7 DEF IInv, Tunnel
  <2> QED
    BY <1>3, <1>4, <1>7, <2>1 DEF IInv, Tunnel, Handshake, Fresh, TargetOfTunnel, ToldIsNormal, Stands
<1> QED
  BY <1>6, <1>7 DEF TunnelPkg, ConnectPkg, BindPkg, AssociatePkg

LEMMA SourceRecvKeeps ==
  ASSUME IInv, SourceRecv
  PROVE  IInv'
<1> DEFINE taken == IF shake = "normal" THEN 1 ELSE Split(near.back)
           rest  == TakeBack(near, taken)
           there == sock \in {"none", "normal"}
<1>1. rest = TakeBack(near, 1) /\ near.back # << >> /\ open
  BY DEF SourceRecv, Split
<1>2. near \in Links /\ rest \in Links
  BY <1>1, TakeBackKeeps DEF IInv, LinksTyped
<1>3. UNCHANGED <<cmd, sock, sshake, head, tun, target, valid, relay, tsaid, far>> /\ UNCHANGED given
  BY DEF SourceRecv, given, proxyVars, targetVars
<1>4. CASE shake' = "tunnel" /\ shake \in {"method", "auth"} /\ Head(near.back).is = "granted"
             /\ near' = SendFwd(rest, Pkg("request"), there) /\ UNCHANGED <<trs, told, open, said, got>>
  BY <1>1, <1>3, <1>4, SaysKeeps
<1>5. CASE shake' = "auth" /\ shake = "method" /\ Head(near.back).is = "userpsw"
             /\ near' = SendFwd(rest, Pkg("auth"), there) /\ UNCHANGED <<trs, told, open, said, got>>
  BY <1>1, <1>3, <1>5, SaysKeeps
<1>6. CASE CloseSource(rest)
  <2>1. LinksTyped' /\ ~open' /\ told' = told
    BY <1>2, <1>3, <1>6, CloseKeeps DEF CloseSource, IInv, LinksTyped
  <2> QED
    BY <1>3, <2>1, ClosedKeeps, StandsStays DEF IInv, Fresh, TargetOfTunnel
<1>7. CASE shake = "tunnel" /\ near' = rest /\ TunnelPkg
  BY <1>1, <1>3, <1>7, ReplyKeeps
<1>9. CASE near' = LeaveBack(near) /\ UNCHANGED sourceVars
  <2>1. near' \in Links /\ near'.back = <<Partial>> \o Tail(near.back) /\ near'.fwd = near.fwd
    BY <1>1, <1>2, <1>9, LeaveTypes
  <2>2. LinksTyped' /\ UNCHANGED <<shake, trs, told, open>>
    BY <1>3, <1>9, <2>1 DEF IInv, LinksTyped, sourceVars
  <2>3. near.back \in Seq(Packages) /\ Len(near.back) \in Nat
    BY <1>2, LenProperties DEF Links
  <2>4. Len(near'.back) <= Len(near.back) /\ Head(near'.back).is \in {"garbled", "partial"}
    BY <1>1, <2>1, <2>3, LeaveKeeps
  <2> QED
    BY <1>1, <1>3, <2>1, <2>2, <2>4, ShapeKeeps
<1>8. CASE shake = "normal" /\ near' = rest /\ UNCHANGED <<shake, trs, told, open, said>>
  <2>1. LinksTyped'
    BY <1>2, <1>3, <1>8 DEF IInv, LinksTyped
  <2> QED
    BY <1>3, <1>8, <2>1, StandsStays
    DEF IInv, Handshake, Tunnel, Fresh, TargetOfTunnel, ToldIsNormal
<1> QED
  BY <1>4, <1>5, <1>6, <1>7, <1>8, <1>9 DEF SourceRecv, Refused, RequestMade, RequestFails, Split

LEMMA SourceKeeps ==
  ASSUME IInv, SourceEnd \/ SourceSend \/ SourceClose
  PROVE  IInv'
<1>1. CASE SourceEnd \/ SourceClose
  <2>1. near' = CloseFwd(near) /\ ~open' /\ UNCHANGED <<told, said, tsaid, far, target, valid, relay, tun, head>>
    BY <1>1 DEF SourceEnd, SourceClose, CloseSource, proxyVars, targetVars, udpVars
  <2>2. LinksTyped'
    BY <2>1, CloseKeeps DEF IInv, LinksTyped
  <2> QED
    BY <2>1, <2>2, ClosedKeeps, StandsStays DEF IInv, Fresh, TargetOfTunnel
<1>2. CASE SourceSend
  <2>1. said' = said + 1 /\ said' \in 1 .. MaxData /\ shake = "normal" /\ near \in Links
    BY <1>2, MaxDataAssumption DEF SourceSend, IInv, LinksTyped, ToldIsNormal
  <2>2. near' \in Links
    BY <1>2, <2>1, DataType, SendKeeps DEF SourceSend
  <2>3. UNCHANGED <<shake, told, open, tsaid, far, target, valid, relay, tun, head>>
    BY <1>2 DEF SourceSend, proxyVars, targetVars, udpVars
  <2>4. LinksTyped'
    BY <2>1, <2>2, <2>3, MaxDataAssumption DEF IInv, LinksTyped
  <2> QED
    BY <2>1, <2>3, <2>4, StandsStays
    DEF IInv, Handshake, Tunnel, Fresh, TargetOfTunnel, ToldIsNormal
<1> QED
  BY <1>1, <1>2

-----------------------------------------------------------------------------
(* The proxy                                                                *)

LEMMA AcceptKeeps ==
  ASSUME IInv, Accept
  PROVE  IInv'
<1>1. sock = "none" /\ sock' = "normal" /\ sshake' = "method"
      /\ UNCHANGED <<given, sourceVars, near, far, head, valid, tun, targetVars, udpVars>>
  BY DEF Accept
<1>2. UNCHANGED <<cmd, shake, trs, told, open, said, near, far, head, tun, target, valid, tsaid, relay>>
  BY <1>1 DEF given, sourceVars, targetVars, udpVars
<1>3. LinksTyped'
  BY <1>2 DEF IInv, LinksTyped
<1>4. Handshake' /\ Tunnel'
  BY <1>1, <1>2 DEF IInv, Handshake, Tunnel
<1> QED
  BY <1>2, <1>3, <1>4, StandsStays DEF IInv, Fresh, TargetOfTunnel, ToldIsNormal

\* What on_closed does to the connections and to what stands.
LEMMA OnClosedDoes ==
  ASSUME NEW link \in Links, IInv, OnClosed(link), UNCHANGED <<target, valid, said, tsaid>>
  PROVE  /\ LinksTyped' /\ near'.fwd = link.fwd /\ near'.back = link.back
         /\ Stands => Stands'
         /\ TargetOfTunnel'
<1>1. near' = CloseBack(link) /\ far' \in Links
  BY CloseKeeps DEF OnClosed, ConnectClosed, IInv, LinksTyped
<1>2. LinksTyped' /\ near'.fwd = link.fwd /\ near'.back = link.back
  BY <1>1, CloseKeeps DEF IInv, LinksTyped
<1>3. Stands => Stands'
  BY DEF OnClosed, AssociateClosed, Stands
<1>4. TargetOfTunnel'
  BY DEF OnClosed, ConnectClosed, IInv, TargetOfTunnel
<1> QED
  BY <1>2, <1>3, <1>4

\* The first packages are answered with one package.
LEMMA MethodAuthKeeps ==
  ASSUME IInv, sock = "normal", head = "init", sshake \in {"method", "auth"}, near.fwd # << >>,
         UNCHANGED <<given, sourceVars, sock, head, valid, tun, far, relay, targetVars>>,
         NEW is \in {"granted", "userpsw", "refused", "denied"},
         near' = SendBack(TakeFwd(near, 1), Pkg(is), open),
         is = "granted" => sshake' = "tunnel",
         is = "userpsw" => sshake' = "auth"
  PROVE  IInv'
<1> DEFINE rest == TakeFwd(near, 1)
<1>1. near \in Links
  BY DEF IInv, LinksTyped
<1>2. rest \in Links /\ rest.back = near.back /\ (Len(near.fwd) <= 1 => rest.fwd = << >>)
  BY <1>1, TakeFwdKeeps
<1>3. Pkg(is) \in Packages /\ Pkg(is).is = is
  BY PkgType
<1>4. near' \in Links /\ near'.fwd = rest.fwd /\ near'.back \in {near.back, Append(near.back, Pkg(is))}
  BY <1>2, <1>3, SendKeeps
<1>5. UNCHANGED <<cmd, shake, trs, told, open, said, tsaid, target, valid, tun, far, relay, sock, head>>
  BY DEF given, sourceVars, targetVars
<1>6. LinksTyped'
  BY <1>4, <1>5 DEF IInv, LinksTyped
<1>7. Handshake'
  <2> SUFFICES ASSUME open', shake' \in {"method", "auth"}
               PROVE  Handshake'
    BY DEF Handshake
  <2>1. near.back = << >> /\ Len(near.fwd) <= 1 /\ trs = "none"
    BY <1>5 DEF IInv, Handshake
  <2>2. near'.fwd = << >> /\ near'.back \in {<< >>, <<Pkg(is)>>}
    BY <1>2, <1>4, <2>1
  <2>3. near'.back # << >> => Head(near'.back).is = is
    BY <1>3, <2>2, HeadTailAppend
  <2>4. Len(near'.fwd) <= 1 /\ Len(near'.back) <= 1
    <3>1. Len(<<Pkg(is)>>) <= 1 /\ Len(<< >>) <= 1
      BY <1>3, OneIsShort
    <3> QED
      BY <2>2, <3>1
  <2> QED
    BY <1>5, <2>1, <2>2, <2>3, <2>4 DEF Handshake
<1>8. Tunnel'
  BY <1>5 DEF IInv, Tunnel
<1> QED
  BY <1>5, <1>6, <1>7, <1>8, StandsStays DEF IInv, Fresh, TargetOfTunnel, ToldIsNormal

\* The request: only an ASSOCIATE whose relay is open and a BIND reply at once.
LEMMA TunnelRequestKeeps ==
  ASSUME IInv, sock = "normal", head = "init", sshake = "tunnel", near.fwd # << >>,
         TunnelRequest(TakeFwd(near, 1)),
         UNCHANGED <<given, sourceVars, targetVars, valid>>
  PROVE  IInv'
<1> DEFINE rest == TakeFwd(near, 1)
<1>1. near \in Links
  BY DEF IInv, LinksTyped
<1>2. rest \in Links /\ rest.back = near.back
  BY <1>1, TakeFwdKeeps
<1>3. UNCHANGED <<cmd, shake, trs, told, open, said, tsaid, target, valid>>
  BY DEF given, sourceVars, targetVars
<1>4. ~(open /\ shake \in {"method", "auth"})
  BY DEF IInv, Handshake
<1>5. open /\ shake = "tunnel" => near.back = << >> /\ trs = "none"
  BY DEF IInv, Tunnel
<1>6. CASE ~AddrDecodes /\ sshake' = "none" /\ Release(rest) /\ head' = head
  <2>1. LinksTyped' /\ near'.back = rest.back /\ (Stands => Stands') /\ TargetOfTunnel'
    BY <1>2, <1>3, <1>6, OnClosedDoes DEF Release
  <2>2. sock' # "none" /\ Fresh'
    BY <1>3, <1>6 DEF Release, OnClosed, ConnectClosed, AssociateClosed, TunnelHas, IInv, Fresh
  <2>3. Handshake' /\ Tunnel'
    BY <1>2, <1>3, <1>4, <1>5, <1>6, <2>1, <2>2 DEF Handshake, Tunnel
  <2> QED
    BY <1>3, <2>1, <2>2, <2>3 DEF IInv, TargetOfTunnel, ToldIsNormal, Stands
<1>7. CASE /\ sshake' = "normal" /\ head' = "term" /\ UNCHANGED <<sock, far>>
           /\ \/ cmd = "connect" /\ ConnectInit(rest) /\ UNCHANGED relay
              \/ cmd = "bind" /\ BindInit(rest) /\ UNCHANGED relay
              \/ cmd = "associate" /\ AssociateInit(rest) /\ UNCHANGED tun
  <2>1. PICK replied \in BOOLEAN :
             /\ near' = IF replied THEN SendBack(rest, Pkg("reply"), open) ELSE rest
             /\ replied => cmd = "bind" \/ relay' = "open"
    BY <1>7 DEF ConnectInit, BindInit, AssociateInit, ToSource
  <2>2. Pkg("reply") \in Packages
    BY PkgType
  <2>3. near' \in Links /\ near'.back \in {near.back, Append(near.back, Pkg("reply"))}
        /\ (~replied => near'.back = near.back)
    BY <1>2, <2>1, <2>2, SendKeeps
  <2>4. LinksTyped'
    BY <1>3, <1>7, <2>3 DEF IInv, LinksTyped
  <2>5. ~told
    BY DEF IInv, Fresh, TargetOfTunnel, ToldIsNormal, Stands
  <2>6. TargetOfTunnel'
    BY <1>3, <1>7 DEF ConnectInit, BindInit, IInv, TargetOfTunnel
  <2>7. Handshake'
    BY <1>3, <1>4 DEF Handshake
  <2>8. Tunnel'
    <3> SUFFICES ASSUME open', shake' = "tunnel"
                 PROVE  Tunnel'
      BY DEF Tunnel
    <3>1. near'.back \in {<< >>, <<Pkg("reply")>>} /\ Len(near'.back) <= 1 /\ trs' = "none"
      <4>1. /\ Append(<< >>, Pkg("reply")) = <<Pkg("reply")>>
            /\ Len(<<Pkg("reply")>>) <= 1 /\ Len(<< >>) <= 1
        BY <2>2, OneIsShort
      <4>2. near.back = << >> /\ trs' = "none"
        BY <1>3, <1>5
      <4> QED
        BY <2>3, <4>1, <4>2
    <3>2. ~Stands' /\ cmd # "bind" => near'.back = << >>
      BY <1>3, <1>5, <2>1, <2>3 DEF Stands
    <3> QED
      BY <1>3, <1>7, <3>1, <3>2 DEF Tunnel
  <2> QED
    BY <1>3, <1>7, <2>4, <2>5, <2>6, <2>7, <2>8 DEF IInv, Fresh, TargetOfTunnel, ToldIsNormal
<1> QED
  BY <1>6, <1>7 DEF TunnelRequest

\* A package of the tunnel: its target is there, and the handshake is over.
LEMMA TunnelSends ==
  ASSUME IInv, tun \in {"connecting", "listening", "open"}, target # "none",
         NEW m \in Packages, ToSourceOrAbort(m), far' \in Links, valid',
         UNCHANGED <<given, sourceVars, sock, sshake, head, targetVars, udpVars>>
  PROVE  IInv'
<1>1. UNCHANGED <<cmd, shake, trs, told, open, said, tsaid, target, relay, sock, head>>
  BY DEF given, sourceVars, targetVars, udpVars
<1>2. near \in Links /\ head # "init"
  BY DEF IInv, LinksTyped, Fresh
<1>3. near' \in Links
  BY <1>2, SendKeeps DEF ToSourceOrAbort, ToSource
<1>4. LinksTyped'
  BY <1>1, <1>3 DEF IInv, LinksTyped
<1>5. Handshake' /\ Fresh'
  BY <1>1, <1>2 DEF IInv, Handshake, Fresh
<1>6. Tunnel'
  BY <1>1, <1>2 DEF IInv, Tunnel, Stands
<1> QED
  BY <1>1, <1>4, <1>5, <1>6 DEF IInv, TargetOfTunnel, ToldIsNormal, Stands

LEMMA ProxyRecvKeeps ==
  ASSUME IInv, ProxyRecv
  PROVE  IInv'
<1> DEFINE rest == TakeFwd(near, 1)
<1>1. sock = "normal" /\ near.fwd # << >> /\ UNCHANGED <<given, sourceVars, targetVars>>
  BY DEF ProxyRecv
<1>2. near \in Links /\ far \in Links
  BY DEF IInv, LinksTyped
<1>3. CASE head = "init" /\ sshake = "method" /\ MethodPkg(rest)
  BY <1>1, <1>3, MethodAuthKeeps DEF MethodPkg, ToSource
<1>4. CASE head = "init" /\ sshake = "auth" /\ AuthPkg(rest)
  BY <1>1, <1>4, MethodAuthKeeps DEF AuthPkg, ToSource
<1>5. CASE head = "init" /\ sshake = "tunnel" /\ TunnelRequest(rest)
  BY <1>1, <1>5, TunnelRequestKeeps DEF TunnelRequest
<1>7. CASE near' = LeaveFwd(near) /\ UNCHANGED <<far, sock, sshake, head, valid, eof, tun, relay, aborted>>
  <2>1. UNCHANGED <<cmd, shake, trs, told, open, said, tsaid, target>>
    BY <1>1 DEF given, sourceVars, targetVars
  <2>2. near' \in Links /\ near'.fwd = <<Partial>> \o Tail(near.fwd) /\ near'.back = near.back
    BY <1>1, <1>2, <1>7, LeaveTypes
  <2>3. near.fwd \in Seq(Packages) /\ Len(near.fwd) \in Nat
    BY <1>2, LenProperties DEF Links
  <2>4. LinksTyped' /\ Len(near'.fwd) <= Len(near.fwd)
    BY <1>1, <1>2, <1>7, <2>1, <2>2, <2>3, LeaveKeeps DEF IInv, LinksTyped
  <2> QED
    BY <1>1, <1>7, <2>1, <2>2, <2>4, ShapeKeeps
<1>8. CASE /\ head = "init" /\ sshake = "tunnel" /\ sshake' = "none" /\ Release(rest)
           /\ UNCHANGED <<head, valid, eof, aborted>>
  <2>1. UNCHANGED <<cmd, shake, trs, told, open, said, tsaid, target, valid, head>>
    BY <1>1, <1>8 DEF given, sourceVars, targetVars
  <2>2. rest \in Links /\ rest.back = near.back /\ (Len(near.fwd) <= 1 => rest.fwd = << >>)
    BY <1>1, <1>2, TakeFwdKeeps
  <2>3. OnClosed(rest) /\ sock' = "released"
    BY <1>8 DEF Release
  <2>4. /\ LinksTyped' /\ near'.fwd = rest.fwd /\ near'.back = near.back
        /\ (Stands => Stands') /\ TargetOfTunnel'
    BY <2>1, <2>2, <2>3, OnClosedDoes
  <2>5. Fresh'
    BY <1>8, <2>1, <2>3 DEF OnClosed, ConnectClosed, AssociateClosed, TunnelHas, IInv, Fresh
  <2>6. ~(open /\ shake \in {"method", "auth"})
    BY <1>1, <1>8 DEF IInv, Handshake
  <2>7. Handshake' /\ Tunnel'
    BY <1>8, <2>1, <2>3, <2>4, <2>6 DEF Handshake, Tunnel, IInv
  <2> QED
    BY <2>1, <2>4, <2>5, <2>7 DEF IInv, ToldIsNormal
<1>6. CASE head = "term" /\ Relay(rest, Head(near.fwd))
  <2>1. rest \in Links /\ rest.back = near.back /\ Head(near.fwd) \in Packages
    BY <1>1, <1>2, TakeFwdKeeps
  <2>2. far' \in Links
    BY <1>2, <1>6, <2>1, SendKeeps DEF Relay
  <2>3. near' = rest /\ UNCHANGED <<sock, head, valid, tun, relay>>
    BY <1>6 DEF Relay
  <2>4. UNCHANGED <<cmd, shake, trs, told, open, said, tsaid, target>>
    BY <1>1 DEF given, sourceVars, targetVars
  <2>5. LinksTyped'
    BY <2>1, <2>2, <2>3, <2>4 DEF IInv, LinksTyped
  <2>6. Handshake' /\ Fresh'
    BY <1>6, <2>3, <2>4 DEF IInv, Handshake, Fresh
  <2>7. Tunnel'
    <3>1. near'.back = near.back
      BY <2>1, <2>3
    <3> QED
      BY <1>6, <2>3, <2>4, <3>1, StandsStays DEF IInv, Tunnel
  <2> QED
    BY <2>3, <2>4, <2>5, <2>6, <2>7, StandsStays DEF IInv, TargetOfTunnel, ToldIsNormal
<1> QED
  BY <1>3, <1>4, <1>5, <1>6, <1>7, <1>8 DEF ProxyRecv, GarbledPkg

LEMMA ReleaseKeeps ==
  ASSUME IInv, Release(near), UNCHANGED <<given, sourceVars, sshake, head, valid, targetVars>>
  PROVE  IInv'
<1>1. UNCHANGED <<cmd, shake, trs, told, open, sshake, head, said, tsaid, target, valid>>
  BY DEF given, sourceVars, targetVars
<1>2. near \in Links /\ OnClosed(near) /\ sock' = "released"
  BY DEF IInv, LinksTyped, Release
<1>3. /\ LinksTyped' /\ near'.fwd = near.fwd /\ near'.back = near.back
      /\ (Stands => Stands') /\ TargetOfTunnel'
  BY <1>1, <1>2, OnClosedDoes
<1>4. Fresh'
  BY <1>1, <1>2 DEF OnClosed, ConnectClosed, AssociateClosed, TunnelHas, IInv, Fresh
<1> QED
  BY <1>1, <1>2, <1>3, <1>4, QuietKeeps

\* The rest of the proxy's steps.
LEMMA ProxyKeeps ==
  ASSUME IInv, ProxyEof \/ ProxyError \/ Recover \/ TunnelUp \/ TunnelRefused \/ TunnelRecv \/ TunnelEof \/ TunnelError
  PROVE  IInv'
<1>1. UNCHANGED <<given, sourceVars, sshake, head, targetVars>>
  BY DEF ProxyEof, ProxyError, Recover, TunnelUp, TunnelRefused, TunnelRecv, TunnelEof, TunnelError
<1>2. UNCHANGED <<cmd, shake, trs, told, open, said, tsaid, sshake, head, target>>
  BY <1>1 DEF given, sourceVars, targetVars
<1>3. near \in Links /\ far \in Links
  BY DEF IInv, LinksTyped
<1>4. CASE Release(near) /\ UNCHANGED valid
  BY <1>1, <1>4, ReleaseKeeps
<1>5. CASE /\ near' \in Links /\ near'.fwd = near.fwd /\ near'.back = near.back /\ far' \in Links
           /\ sock # "none" => sock' # "none"
           /\ UNCHANGED <<relay, valid>>
           /\ tun' # tun => tun # "none" /\ tun' # "open"
  <2>1. LinksTyped' /\ Fresh' /\ Stands' = Stands /\ TargetOfTunnel'
    BY <1>2, <1>5, StandsStays DEF IInv, LinksTyped, Fresh, TargetOfTunnel
  <2> QED
    BY <1>2, <1>5, <2>1, QuietKeeps
<1>6. CASE ProxyEof \/ ProxyError
  BY <1>3, <1>4, <1>5, <1>6, MarkKeeps DEF ProxyEof, ProxyError
<1>7. CASE Recover
  BY <1>3, <1>5, <1>7 DEF Recover, udpVars
<1>8. CASE TunnelRefused
  BY <1>3, <1>5, <1>8 DEF TunnelRefused, udpVars
<1>9. CASE TunnelEof
  BY <1>3, <1>5, <1>9, MarkKeeps DEF TunnelEof, PassEnd, udpVars
<1>10. CASE TunnelError
  BY <1>3, <1>5, <1>10, CloseKeeps DEF TunnelError, udpVars
<1>11. CASE TunnelUp
  BY <1>1, <1>3, <1>11, PkgType, TunnelSends DEF TunnelUp
<1>12. CASE TunnelRecv
  <2>1. Head(far.back) \in Packages /\ TakeBack(far, 1) \in Links
    BY <1>3, <1>12, TakeBackKeeps DEF TunnelRecv
  <2>2. target # "none" /\ valid
    BY <1>12 DEF TunnelRecv, IInv, TargetOfTunnel
  <2> QED
    BY <1>1, <1>12, <2>1, <2>2, TunnelSends DEF TunnelRecv
<1> QED
  BY <1>6, <1>7, <1>8, <1>9, <1>10, <1>11, <1>12

\* The target, the network and the datagrams.
LEMMA OutsideKeeps ==
  ASSUME IInv,
         \/ TargetOpens \/ TargetRecv \/ TargetSend \/ TargetCloses \/ Breaks
         \/ DatagramSend \/ RelayRecv \/ DatagramRecv \/ DatagramRefused \/ TargetHears \/ TargetAnswers
  PROVE  IInv'
<1>1. UNCHANGED <<cmd, shake, trs, told, open, sock, sshake, head, valid, tun, relay>>
  BY DEF TargetOpens, TargetRecv, TargetSend, TargetCloses, Breaks, DatagramSend, RelayRecv, DatagramRecv,
         DatagramRefused, TargetHears, TargetAnswers, given, sourceVars, proxyVars, udpVars
<1>2. near \in Links /\ far \in Links /\ said \in 0 .. MaxData /\ tsaid \in 0 .. MaxData
  BY DEF IInv, LinksTyped
<1>3. CASE /\ near' \in Links /\ near'.fwd = near.fwd /\ near'.back = near.back /\ far' \in Links
           /\ said' \in 0 .. MaxData /\ tsaid' \in 0 .. MaxData
           /\ target' # target => target' # "none" /\ tun # "none"
  <2>1. LinksTyped' /\ Fresh' /\ (Stands => Stands') /\ TargetOfTunnel'
    BY <1>1, <1>3 DEF IInv, LinksTyped, Fresh, TargetOfTunnel, Stands
  <2> QED
    BY <1>1, <1>3, <2>1, QuietKeeps
<1>4. CASE TargetOpens
  BY <1>2, <1>3, <1>4 DEF TargetOpens, sourceVars
<1>5. CASE TargetRecv
  BY <1>2, <1>3, <1>5, TakeFwdKeeps DEF TargetRecv, sourceVars
<1>6. CASE TargetSend
  <2>1. tsaid' \in 1 .. MaxData
    BY <1>2, <1>6, MaxDataAssumption DEF TargetSend
  <2>2. far' \in Links /\ tsaid' \in 0 .. MaxData
    BY <1>2, <1>6, <2>1, DataType, SendKeeps, MaxDataAssumption DEF TargetSend
  <2> QED
    BY <1>2, <1>3, <1>6, <2>2 DEF TargetSend, sourceVars
<1>7. CASE TargetCloses
  <2>1. far' \in Links /\ target = "open" /\ target' = "closed" /\ UNCHANGED <<near, said, tsaid>>
    BY <1>2, <1>7, CloseKeeps DEF TargetCloses, sourceVars
  <2>2. LinksTyped' /\ Fresh' /\ (Stands => Stands') /\ TargetOfTunnel'
    BY <1>1, <2>1 DEF IInv, LinksTyped, Fresh, TargetOfTunnel, Stands
  <2> QED
    BY <1>1, <2>1, <2>2, QuietKeeps
<1>8. CASE Breaks
  BY <1>2, <1>3, <1>8, MarkKeeps DEF Breaks, sourceVars, targetVars
<1>9. CASE DatagramSend
  <2>1. said' \in 0 .. MaxData
    BY <1>2, <1>9, MaxDataAssumption DEF DatagramSend
  <2> QED
    BY <1>2, <1>3, <1>9, <2>1 DEF DatagramSend, targetVars
<1>10. CASE TargetAnswers
  <2>1. tsaid' \in 0 .. MaxData
    BY <1>2, <1>10, MaxDataAssumption DEF TargetAnswers
  <2> QED
    BY <1>2, <1>3, <1>10, <2>1 DEF TargetAnswers, sourceVars
<1>11. CASE RelayRecv \/ DatagramRecv \/ DatagramRefused \/ TargetHears
  BY <1>2, <1>3, <1>11 DEF RelayRecv, DatagramRecv, DatagramRefused, TargetHears, sourceVars, targetVars
<1> QED
  BY <1>4, <1>5, <1>6, <1>7, <1>8, <1>9, <1>10, <1>11

LEMMA StutterKeeps ==
  ASSUME IInv, UNCHANGED vars
  PROVE  IInv'
BY DEF IInv, LinksTyped, Handshake, Tunnel, Fresh, TargetOfTunnel, ToldIsNormal, Stands,
       vars, given, sourceVars, proxyVars, targetVars, udpVars

\* The application of the source is told on_connected only when the proxy has a
\* target, or a relay: the replies of on_connected, on_accept, on_ready and of the
\* listener are told apart by nothing but the order in which they come.
THEOREM ToldMeansTargetHolds == Spec => []ToldMeansTarget
<1>1. Init => IInv
  BY InitInv
<1>2. IInv /\ [Next]_vars => IInv'
  BY SourceRecvKeeps, OverwritesKeep, SourceKeeps, AcceptKeeps, ProxyRecvKeeps, ProxyKeeps, OutsideKeeps, StutterKeeps
  DEF Next, Source, Proxy
<1>3. IInv => ToldMeansTarget
  BY DEF IInv, TargetOfTunnel, ToldIsNormal, Stands, ToldMeansTarget
<1> QED
  BY <1>1, <1>2, <1>3, PTL DEF Spec

-----------------------------------------------------------------------------
(* No assertion                                                             *)

LEMMA TunnelFollowsHolds == Spec => []TunnelFollows
<1> DEFINE Has == tun \in {"connecting", "listening", "open"}
<1>1. Init => TunnelFollows
  BY DEF Init, TunnelFollows
<1>2. TunnelFollows /\ [Next]_vars => TunnelFollows'
  <2> SUFFICES ASSUME TunnelFollows, [Next]_vars, cmd = "connect", cmd' = "connect"
               PROVE  (Has' => sock' = "normal") /\ ~aborted'
    BY DEF TunnelFollows, Next, Source, Proxy, vars, given, SourceRecv, SourceOverwrites, ProxyOverwrites,
       TunnelOverwrites, SourceEnd, SourceSend, SourceClose,
       Accept, ProxyRecv, ProxyEof, ProxyError, Recover, TunnelUp, TunnelRecv, TunnelEof, TunnelError, TunnelRefused,
       TargetOpens, TargetRecv, TargetSend, TargetCloses, Breaks,
       DatagramSend, RelayRecv, DatagramRecv, DatagramRefused, TargetHears, TargetAnswers
  <2>1. (Has => sock = "normal") /\ ~aborted
    BY DEF TunnelFollows
  <2>2. CASE UNCHANGED <<sock, tun, aborted>>
    BY <2>1, <2>2
  <2>3. CASE Release(near) /\ UNCHANGED aborted
    BY <2>1, <2>3 DEF Release, OnClosed, ConnectClosed, TunnelHas
  <2>4. CASE ProxyRecv
    BY <2>1, <2>4 DEF ProxyRecv, MethodPkg, AuthPkg, TunnelRequest, GarbledPkg, Relay, Release, OnClosed,
                      ConnectClosed, TunnelHas, ConnectInit
  <2>5. CASE ProxyEof \/ ProxyError
    BY <2>1, <2>2, <2>3, <2>5 DEF ProxyEof, ProxyError
  <2>6. CASE Accept \/ Recover \/ TunnelRefused \/ TunnelError \/ TunnelEof
    BY <2>1, <2>6 DEF Accept, Recover, TunnelRefused, TunnelError, TunnelEof
  <2>7. CASE TunnelUp \/ TunnelRecv
    BY <2>1, <2>7 DEF TunnelUp, TunnelRecv, ToSourceOrAbort
  <2>8. CASE \/ Source \/ SourceSend \/ SourceClose \/ SourceOverwrites \/ ProxyOverwrites \/ TunnelOverwrites
             \/ TargetOpens \/ TargetRecv \/ TargetSend \/ TargetCloses \/ Breaks
             \/ DatagramSend \/ RelayRecv \/ DatagramRecv \/ DatagramRefused \/ TargetHears \/ TargetAnswers
    <3>1. UNCHANGED <<sock, tun, aborted>>
      BY <2>8 DEF Source, SourceRecv, SourceEnd, SourceSend, SourceClose, SourceOverwrites, ProxyOverwrites,
                  TunnelOverwrites, TargetOpens, TargetRecv, TargetSend,
                  TargetCloses, Breaks, DatagramSend, RelayRecv, DatagramRecv, DatagramRefused, TargetHears,
                  TargetAnswers, proxyVars
    <3> QED
      BY <2>2, <3>1
  <2>9. CASE UNCHANGED vars
    BY <2>2, <2>9 DEF vars, proxyVars
  <2> QED
    BY <2>4, <2>5, <2>6, <2>7, <2>8, <2>9 DEF Next, Proxy
<1> QED
  BY <1>1, <1>2, PTL DEF Spec

\* Nothing comes out of the tunnel of a CONNECT for a connection that is released:
\* whatever releases the connection has closed the tunnel in the same step.
THEOREM ConnectNeverAbortsHolds == Spec => []ConnectNeverAborts
<1>1. TunnelFollows => ConnectNeverAborts
  BY DEF TunnelFollows, ConnectNeverAborts
<1> QED
  BY <1>1, TunnelFollowsHolds, PTL

-----------------------------------------------------------------------------
(* Runs of numbers                                                          *)

LEMMA HeadIsFirst ==
  ASSUME NEW S, NEW s \in Seq(S), s # << >>
  PROVE  Head(s) = s[1]
OBVIOUS

LEMMA PkgNumber ==
  ASSUME NEW m \in Packages
  PROVE  m.n \in Nat
BY MaxDataAssumption DEF Packages

LEMMA NumberedEmpty ==
  ASSUME NEW a, NEW k
  PROVE  Numbered(<< >>, a, k)
BY DEF Numbered

LEMMA NumberedAppend ==
  ASSUME NEW s \in Seq(Packages), NEW m \in Packages, NEW a \in Nat, NEW k \in Nat,
         Numbered(s, a, k), a <= Len(s), m.n = k + Len(s) + 1 - a
  PROVE  Numbered(Append(s, m), a, k) /\ Len(Append(s, m)) = Len(s) + 1
<1>1. /\ Len(Append(s, m)) = Len(s) + 1 /\ Len(s) \in Nat
      /\ \A i \in 1 .. Len(s) : Append(s, m)[i] = s[i]
      /\ Append(s, m)[Len(s) + 1] = m
  BY AppendProperties, LenProperties
<1>2. ASSUME NEW i \in 1 .. Len(s) + 1, i > a
      PROVE  Append(s, m)[i].n = k + i - a
  <2>1. CASE i = Len(s) + 1
    BY <1>1, <2>1
  <2>2. CASE i \in 1 .. Len(s)
    BY <1>1, <1>2, <2>2 DEF Numbered
  <2> QED
    BY <1>1, <2>1, <2>2
<1> QED
  BY <1>1, <1>2 DEF Numbered

LEMMA RestIsShifted ==
  ASSUME NEW S, NEW s \in Seq(S), s # << >>
  PROVE  /\ Len(SubSeq(s, 2, Len(s))) = Len(s) - 1 /\ Len(s) \in Nat /\ Len(s) >= 1
         /\ \A i \in 1 .. Len(s) - 1 : SubSeq(s, 2, Len(s))[i] = s[i + 1]
<1>1. Tail(s) = SubSeq(s, 2, Len(s))
  BY TailIsSubSeq
<1>2. Len(Tail(s)) = Len(s) - 1 /\ \A i \in 1 .. Len(Tail(s)) : Tail(s)[i] = s[i + 1]
  BY HeadTailProperties
<1>3. Len(s) \in Nat /\ Len(s) >= 1
  BY EmptySeq
<1> QED
  BY <1>1, <1>2, <1>3

\* One that is ahead goes first, and then the first number.
LEMMA NumberedRest ==
  ASSUME NEW s \in Seq(Packages), s # << >>, NEW a \in Nat, NEW k \in Nat, Numbered(s, a, k)
  PROVE  /\ a > 0 => Numbered(SubSeq(s, 2, Len(s)), a - 1, k)
         /\ a = 0 => Head(s).n = k + 1 /\ Numbered(SubSeq(s, 2, Len(s)), 0, k + 1)
<1> DEFINE t == SubSeq(s, 2, Len(s))
<1>1. /\ Len(t) = Len(s) - 1 /\ Len(s) \in Nat /\ Len(s) >= 1
      /\ \A i \in 1 .. Len(s) - 1 : t[i] = s[i + 1]
  BY RestIsShifted
<1>2. Head(s) = s[1]
  BY HeadIsFirst
<1>3. ASSUME NEW i \in 1 .. Len(t), i + 1 > a
      PROVE  t[i].n = k + (i + 1) - a
  <2>1. t[i] = s[i + 1] /\ i + 1 \in 1 .. Len(s)
    BY <1>1
  <2> QED
    BY <1>3, <2>1 DEF Numbered
<1>4. CASE a = 0
  <2>1. Head(s).n = k + 1
    BY <1>1, <1>2, <1>4 DEF Numbered
  <2>2. Numbered(t, 0, k + 1)
    <3> SUFFICES ASSUME NEW i \in 1 .. Len(t), i > 0
                 PROVE  t[i].n = (k + 1) + i - 0
      BY DEF Numbered
    <3>1. t[i].n = k + (i + 1) - 0
      BY <1>1, <1>3, <1>4
    <3> QED
      BY <1>1, <3>1
  <2> QED
    BY <1>4, <2>1, <2>2
<1>5. CASE a > 0
  <2> SUFFICES ASSUME NEW i \in 1 .. Len(t), i > a - 1
               PROVE  t[i].n = k + i - (a - 1)
    BY <1>5 DEF Numbered
  <2>1. t[i].n = k + (i + 1) - a
    BY <1>1, <1>3
  <2> QED
    BY <1>1, <2>1
<1> QED
  BY <1>4, <1>5

\* What a step of an end that takes one package leaves.
LEMMA TakenNumbered ==
  ASSUME NEW link \in Links, NEW a \in Nat, NEW k \in Nat
  PROVE  /\ link.fwd \in Seq(Packages) /\ link.back \in Seq(Packages)
         /\ Len(link.fwd) \in Nat /\ Len(link.back) \in Nat
         /\ link.fwd # << >> =>
              /\ TakeFwd(link, 1).fwd = SubSeq(link.fwd, 2, Len(link.fwd))
              /\ Len(TakeFwd(link, 1).fwd) = Len(link.fwd) - 1
         /\ link.back # << >> =>
              /\ TakeBack(link, 1).back = SubSeq(link.back, 2, Len(link.back))
              /\ Len(TakeBack(link, 1).back) = Len(link.back) - 1
<1>1. link.fwd \in Seq(Packages) /\ link.back \in Seq(Packages)
  BY DEF Links
<1>2. Len(link.fwd) \in Nat /\ Len(link.back) \in Nat
  BY <1>1, LenProperties
<1>3. ASSUME link.fwd # << >>
      PROVE  TakeFwd(link, 1).fwd = SubSeq(link.fwd, 2, Len(link.fwd))
  <2>1. TakeFwd(link, 1) = [link EXCEPT !.fwd = SubSeq(link.fwd, 2, Len(link.fwd))]
    BY DEF TakeFwd
  <2> QED
    BY <2>1 DEF Links
<1>4. ASSUME link.back # << >>
      PROVE  TakeBack(link, 1).back = SubSeq(link.back, 2, Len(link.back))
  <2>1. TakeBack(link, 1) = [link EXCEPT !.back = SubSeq(link.back, 2, Len(link.back))]
    BY DEF TakeBack
  <2> QED
    BY <2>1 DEF Links
<1> QED
  BY <1>1, <1>2, <1>3, <1>4, Rest

LEMMA SentThere ==
  ASSUME NEW link \in Links, NEW m \in Packages, NEW there, there
  PROVE  /\ SendFwd(link, m, there).fwd = Append(link.fwd, m)
         /\ SendBack(link, m, there).back = Append(link.back, m)
BY DEF SendFwd, SendBack, Links

LEMMA SentNowhere ==
  ASSUME NEW link \in Links, NEW m \in Packages, NEW there, ~there
  PROVE  /\ SendFwd(link, m, there).fwd = link.fwd
         /\ SendBack(link, m, there).back = link.back
BY DEF SendFwd, SendBack, Reset, Links

\* The application's own numbers: one more at the end.
LEMMA CountedOn ==
  ASSUME NEW s \in Seq(Nat), \A i \in 1 .. Len(s) : s[i] = i
  PROVE  /\ Len(s) \in Nat
         /\ LET t == Append(s, Len(s) + 1)
            IN  t \in Seq(Nat) /\ Len(t) = Len(s) + 1 /\ \A i \in 1 .. Len(t) : t[i] = i
<1>1. Len(s) \in Nat /\ Len(s) + 1 \in Nat
  BY LenProperties
<1>2. /\ Append(s, Len(s) + 1) \in Seq(Nat) /\ Len(Append(s, Len(s) + 1)) = Len(s) + 1
      /\ \A i \in 1 .. Len(s) : Append(s, Len(s) + 1)[i] = s[i]
      /\ Append(s, Len(s) + 1)[Len(s) + 1] = Len(s) + 1
  BY <1>1, AppendProperties
<1> QED
  BY <1>1, <1>2

-----------------------------------------------------------------------------
(* What belongs to which command                                            *)

LEMMA IInvHolds == Spec => []IInv
<1>1. IInv /\ [Next]_vars => IInv'
  BY SourceRecvKeeps, OverwritesKeep, SourceKeeps, AcceptKeeps, ProxyRecvKeeps, ProxyKeeps, OutsideKeeps, StutterKeeps
  DEF Next, Source, Proxy
<1> QED
  BY <1>1, InitInv, PTL DEF Spec

LEMMA EndsTypedKeeps ==
  ASSUME IInv, EndsTyped, [Next]_vars
  PROVE  EndsTyped'
<1>1. near \in Links /\ far \in Links
  BY DEF IInv, LinksTyped
<1>2. CASE SourceRecv
  <2>1. near.back # << >> /\ UNCHANGED <<tgot, target>> /\ got' \in {got, Append(got, Head(near.back).n)}
    BY <1>2 DEF SourceRecv, CloseSource, Refused, TunnelPkg, sourceVars, targetVars
  <2>2. Head(near.back).n \in Nat
    BY <1>1, <2>1, TakeBackKeeps, PkgNumber
  <2>3. Append(got, Head(near.back).n) \in Seq(Nat)
    BY <2>2, AppendProperties DEF EndsTyped
  <2> QED
    BY <2>1, <2>3 DEF EndsTyped
<1>3. CASE TargetRecv
  <2>1. far.fwd # << >> /\ UNCHANGED <<got, target>> /\ tgot' = Append(tgot, Head(far.fwd).n)
    BY <1>3 DEF TargetRecv, sourceVars
  <2>2. Head(far.fwd).n \in Nat
    BY <1>1, <2>1, TakeFwdKeeps, PkgNumber
  <2>3. Append(tgot, Head(far.fwd).n) \in Seq(Nat)
    BY <2>2, AppendProperties DEF EndsTyped
  <2> QED
    BY <2>1, <2>3 DEF EndsTyped
<1>4. CASE UNCHANGED <<got, tgot>> /\ target' \in {target, "open", "closed"}
  BY <1>4 DEF EndsTyped
<1>5. CASE SourceEnd \/ SourceSend \/ SourceClose \/ SourceOverwrites \/ ProxyOverwrites \/ TunnelOverwrites
  BY <1>4, <1>5 DEF SourceEnd, SourceSend, SourceClose, CloseSource, SourceOverwrites, ProxyOverwrites,
                    TunnelOverwrites, sourceVars, targetVars
<1>6. CASE \/ Accept \/ ProxyRecv \/ ProxyEof \/ ProxyError \/ Recover
           \/ TunnelUp \/ TunnelRecv \/ TunnelEof \/ TunnelError \/ TunnelRefused
  BY <1>4, <1>6 DEF Accept, ProxyRecv, ProxyEof, ProxyError, Recover, TunnelUp, TunnelRecv, TunnelEof, TunnelError,
                    TunnelRefused, sourceVars, targetVars
<1>7. CASE \/ TargetOpens \/ TargetSend \/ TargetCloses \/ Breaks
           \/ DatagramSend \/ RelayRecv \/ DatagramRecv \/ DatagramRefused \/ TargetHears \/ TargetAnswers
  BY <1>4, <1>7 DEF TargetOpens, TargetSend, TargetCloses, Breaks, DatagramSend, RelayRecv, DatagramRecv,
                    DatagramRefused, TargetHears, TargetAnswers, sourceVars, targetVars
<1>8. CASE UNCHANGED vars
  BY <1>4, <1>8 DEF vars, sourceVars, targetVars
<1> QED
  BY <1>2, <1>3, <1>5, <1>6, <1>7, <1>8 DEF Next, Source, Proxy

LEMMA ByCommandKeeps ==
  ASSUME IInv, ByCommand, [Next]_vars
  PROVE  ByCommand'
<1>1. CASE SourceRecv
  <2>1. open /\ UNCHANGED <<cmd, relay, air, heard, tun, target, valid, head, sock, said>>
    BY <1>1 DEF SourceRecv, CloseSource, Refused, TunnelPkg, given, sourceVars, proxyVars, targetVars, airVars
  <2>2. CASE /\ UNCHANGED <<trs, told, open, got>> /\ shake' \in {"auth", "tunnel"}
             /\ shake \in {"method", "auth"} /\ (RequestMade \/ UNCHANGED udp)
    BY <2>1, <2>2 DEF ByCommand, RequestMade, IInv, Handshake
  <2>3. CASE UNCHANGED <<trs, told, got, udp>> /\ ~open' /\ shake' = "none"
    BY <2>1, <2>3 DEF ByCommand
  <2>4. CASE TunnelPkg /\ shake = "tunnel"
    BY <2>1, <2>4 DEF ByCommand, TunnelPkg, ConnectPkg, BindPkg, AssociatePkg
  <2>5. CASE shake = "normal" /\ UNCHANGED <<shake, trs, told, open, udp>>
    BY <2>1, <2>5 DEF ByCommand
  <2>6. CASE UNCHANGED <<sourceVars, udp>>
    BY <2>1, <2>6 DEF ByCommand, sourceVars
  <2> QED
    BY <1>1, <2>2, <2>3, <2>4, <2>5, <2>6 DEF SourceRecv, CloseSource, Refused, RequestFails
<1>2. CASE SourceEnd \/ SourceClose
  <2>1. /\ UNCHANGED <<cmd, relay, air, heard, tun, target, valid, head, sock, said, trs, told, got>>
        /\ ~open' /\ shake' = "none"
        /\ udp' = udp \/ (udp # "none" /\ udp' = "closed")
    BY <1>2 DEF SourceEnd, SourceClose, CloseSource, given, proxyVars, targetVars, udpVars, airVars
  <2> QED
    BY <2>1 DEF ByCommand
<1>3. CASE SourceSend
  BY <1>3 DEF ByCommand, SourceSend, given, proxyVars, targetVars, udpVars, airVars
<1>4. CASE Accept
  BY <1>4 DEF ByCommand, Accept, given, sourceVars, targetVars, udpVars, airVars
<1>5. CASE ProxyRecv
  <2>1. UNCHANGED <<cmd, udp, air, heard, target, trs, open, shake, told, said, got>> /\ sock = "normal"
    BY <1>5 DEF ProxyRecv, given, sourceVars, targetVars, airVars
  <2>2. CASE head' = head /\ UNCHANGED <<sock, tun, valid, relay>>
    BY <2>1, <2>2 DEF ByCommand
  <2>3. CASE TunnelRequest(TakeFwd(near, 1)) /\ head = "init"
    <3>1. tun = "none" /\ relay = "none" /\ ~valid /\ ~valid' /\ sock' # "none"
      BY <2>1, <2>3 DEF IInv, Fresh, TargetOfTunnel, TunnelRequest, Release
    <3>2. /\ cmd # "associate" => relay' = "none"
          /\ cmd = "associate" => tun' = "none"
          /\ tun' = "connecting" => cmd = "connect"
      BY <2>3, <3>1 DEF TunnelRequest, Release, OnClosed, ConnectClosed, AssociateClosed, TunnelHas, ConnectInit,
                        BindInit, AssociateInit
    <3> QED
      BY <2>1, <3>1, <3>2 DEF ByCommand
  <2>4. CASE head = "init" /\ Release(TakeFwd(near, 1)) /\ UNCHANGED <<head, valid>>
    <3>1. tun = "none" /\ relay = "none" /\ UNCHANGED <<tun, relay>> /\ sock' # "none"
      BY <2>4 DEF IInv, Fresh, Release, OnClosed, ConnectClosed, AssociateClosed, TunnelHas
    <3> QED
      BY <2>1, <2>4, <3>1 DEF ByCommand
  <2> QED
    BY <1>5, <2>2, <2>3, <2>4 DEF ProxyRecv, MethodPkg, AuthPkg, GarbledPkg, Relay
<1>6. CASE ProxyEof \/ ProxyError
  <2>1. UNCHANGED <<cmd, udp, air, heard, target, trs, open, shake, told, said, got, head, valid>>
    BY <1>6 DEF ProxyEof, ProxyError, given, sourceVars, targetVars, airVars
  <2>2. /\ sock' # "none"
        /\ tun' = tun \/ (tun # "none" /\ tun' = "closed")
        /\ relay' = relay \/ (relay # "none" /\ relay' = "closed")
    BY <1>6 DEF ProxyEof, ProxyError, Release, OnClosed, ConnectClosed, AssociateClosed, TunnelHas
  <2> QED
    BY <2>1, <2>2 DEF ByCommand
<1>7. CASE Recover \/ TunnelRefused \/ TunnelEof \/ TunnelError
  <2>1. UNCHANGED <<cmd, udp, relay, air, heard, target, trs, open, shake, told, said, got, head, valid>>
    BY <1>7 DEF Recover, TunnelRefused, TunnelEof, TunnelError, given, sourceVars, targetVars, udpVars, airVars
  <2>2. /\ sock # "none" => sock' # "none"
        /\ tun' = tun \/ (tun # "none" /\ tun' \in {"closed", "lost", "failed"})
    BY <1>7 DEF Recover, TunnelRefused, TunnelEof, TunnelError
  <2> QED
    BY <2>1, <2>2 DEF ByCommand
<1>8. CASE TunnelUp \/ TunnelRecv
  <2>1. /\ UNCHANGED <<cmd, udp, relay, air, heard, target, trs, open, shake, told, said, got, head, sock>>
        /\ tun # "none" /\ tun' = "open"
    BY <1>8 DEF TunnelUp, TunnelRecv, given, sourceVars, targetVars, udpVars, airVars
  <2> QED
    BY <2>1 DEF ByCommand
<1>9. CASE TargetOpens \/ TargetRecv \/ TargetSend \/ TargetCloses \/ Breaks
  <2>1. /\ UNCHANGED <<cmd, udp, relay, air, heard, trs, open, shake, told, said, got, head, sock, tun, valid>>
        /\ target' = target \/ target # "none" \/ tun # "none"
    BY <1>9 DEF TargetOpens, TargetRecv, TargetSend, TargetCloses, Breaks, given, sourceVars, proxyVars, targetVars,
                udpVars, airVars
  <2> QED
    BY <2>1 DEF ByCommand
<1>10. CASE DatagramSend \/ RelayRecv \/ DatagramRecv \/ DatagramRefused \/ TargetHears \/ TargetAnswers
  <2>1. UNCHANGED <<cmd, relay, trs, open, shake, told, got, head, sock, tun, target, valid>>
    BY <1>10 DEF DatagramSend, RelayRecv, DatagramRecv, DatagramRefused, TargetHears, TargetAnswers, given, sourceVars,
                 proxyVars, targetVars
  <2>2. /\ cmd # "associate" => UNCHANGED <<udp, air, heard, said>>
        /\ udp' = udp \/ udp' = "closed"
        /\ said' = said \/ udp = "normal"
    BY <1>10 DEF ByCommand, DatagramSend, RelayRecv, DatagramRecv, DatagramRefused, TargetHears, TargetAnswers, airVars,
                 sourceVars
  <2> QED
    BY <2>1, <2>2 DEF ByCommand
<1>11. CASE SourceOverwrites \/ ProxyOverwrites \/ TunnelOverwrites \/ UNCHANGED vars
  BY <1>11 DEF ByCommand, SourceOverwrites, ProxyOverwrites, TunnelOverwrites, vars, given, sourceVars, proxyVars,
               targetVars, udpVars, airVars
<1> QED
  BY <1>1, <1>2, <1>3, <1>4, <1>5, <1>6, <1>7, <1>8, <1>9, <1>10, <1>11 DEF Next, Source, Proxy

\* What has come over the air was sent, however much is sent later.
LEMMA MoreIsSent ==
  ASSUME DatagramsKnown, LinksTyped, UNCHANGED airVars,
         said' \in {said, said + 1}, tsaid' \in {tsaid, tsaid + 1}
  PROVE  DatagramsKnown'
<1>1. said \in Nat /\ tsaid \in Nat /\ said <= said' /\ tsaid <= tsaid' /\ said' \in Nat /\ tsaid' \in Nat
  BY MaxDataAssumption DEF LinksTyped
<1>2. 1 .. said \subseteq 1 .. said' /\ 1 .. tsaid \subseteq 1 .. tsaid'
  BY <1>1
<1> QED
  BY <1>2 DEF DatagramsKnown, airVars, thunks

LEMMA DatagramsKeep ==
  ASSUME DatagramsKnown, LinksTyped, [Next]_vars
  PROVE  DatagramsKnown'
<1>1. ASSUME UNCHANGED airVars, said' \in {said, said + 1}, tsaid' \in {tsaid, tsaid + 1}
      PROVE  DatagramsKnown'
  BY <1>1, MoreIsSent
<1>2. /\ said \in Nat /\ tsaid \in Nat
      /\ said + 1 \in 1 .. (said + 1) /\ tsaid + 1 \in 1 .. (tsaid + 1)
      /\ 1 .. said \subseteq 1 .. (said + 1) /\ 1 .. tsaid \subseteq 1 .. (tsaid + 1)
  BY MaxDataAssumption DEF LinksTyped
<1>3. CASE DatagramSend
  <2>1. /\ UNCHANGED <<heard, answers, tsaid, relayThunk>> /\ said' = said + 1
        /\ air' = air \cup {Datagram("source", "relay", "target", said + 1, TRUE)}
    BY <1>3 DEF DatagramSend, targetVars, thunks
  <2> QED
    BY <1>2, <2>1 DEF DatagramsKnown, Datagram
<1>4. CASE TargetAnswers
  <2>1. /\ UNCHANGED <<heard, answers, said, relayThunk>> /\ tsaid' = tsaid + 1
        /\ air' = air \cup {Datagram("target", "relay", "none", tsaid + 1, TRUE)}
    BY <1>4 DEF TargetAnswers, sourceVars, thunks
  <2> QED
    BY <1>2, <2>1 DEF DatagramsKnown, Datagram
<1>5. CASE RelayRecv
  <2>1. PICK d \in air : d.to = "relay" /\ air' = air \cup {Relayed(d)}
    BY <1>5 DEF RelayRecv
  <2>2. UNCHANGED <<heard, answers, said, tsaid>> /\ relayThunk' = Counted(relayThunk)
    BY <1>5 DEF RelayRecv, sourceVars, targetVars
  <2>3. \/ d.from = "source" /\ d.header = "target" /\ d.n \in 1 .. said /\ d.whole
        \/ d.from = "target" /\ d.header = "none" /\ d.n \in 1 .. tsaid
    BY <2>1 DEF DatagramsKnown
  <2>5. relayThunk' \in 0 .. 2 /\ (relayThunk' <= 1 => relayThunk = 0)
    BY <2>2 DEF Counted, DatagramsKnown
  <2>4. \/ /\ Relayed(d).from = "relay" /\ Relayed(d).to = "target" /\ Relayed(d).header = "none"
           /\ Relayed(d).n \in 1 .. said /\ (relayThunk = 0 => Relayed(d).whole)
        \/ /\ Relayed(d).from = "relay" /\ Relayed(d).to = "source" /\ Relayed(d).header = "target"
           /\ Relayed(d).n \in 1 .. tsaid
    BY <2>3 DEF Relayed, Datagram
  <2>6. \A e \in air' : e \in air \/ e = Relayed(d)
    BY <2>1
  <2> QED
    BY <2>2, <2>4, <2>5, <2>6 DEF DatagramsKnown
<1>6. CASE DatagramRecv
  <2>1. PICK d \in air :
          /\ d.to = "source"
          /\ answers' = answers \cup {[from |-> d.header, n |-> d.n, whole |-> d.whole /\ udpThunk = 0]}
    BY <1>6 DEF DatagramRecv
  <2>2. UNCHANGED <<air, heard, said, tsaid, relayThunk>>
    BY <1>6 DEF DatagramRecv, sourceVars, targetVars
  <2>3. d.header = "target" /\ d.n \in 1 .. tsaid
    BY <2>1 DEF DatagramsKnown
  <2> QED
    BY <2>1, <2>2, <2>3 DEF DatagramsKnown
<1>7. CASE TargetHears
  <2>1. PICK d \in air : d.to = "target" /\ heard' = heard \cup {[n |-> d.n, whole |-> d.whole]}
    BY <1>7 DEF TargetHears
  <2>2. UNCHANGED <<air, answers, said, tsaid, relayThunk>>
    BY <1>7 DEF TargetHears, sourceVars, targetVars, thunks
  <2>3. d.n \in 1 .. said /\ (relayThunk <= 1 => d.whole)
    BY <2>1 DEF DatagramsKnown
  <2> QED
    BY <2>1, <2>2, <2>3 DEF DatagramsKnown
<1>8. CASE SourceRecv \/ SourceEnd \/ SourceSend \/ SourceClose \/ SourceOverwrites
  BY <1>1, <1>8 DEF SourceRecv, SourceEnd, SourceSend, SourceClose, SourceOverwrites, CloseSource, Refused, TunnelPkg,
                    sourceVars, targetVars, udpVars
<1>9. CASE \/ Accept \/ ProxyRecv \/ ProxyEof \/ ProxyError \/ Recover
           \/ TunnelUp \/ TunnelRecv \/ TunnelEof \/ TunnelError \/ TunnelRefused
  BY <1>1, <1>9 DEF Accept, ProxyRecv, ProxyEof, ProxyError, Recover, TunnelUp, TunnelRecv, TunnelEof, TunnelError,
                    TunnelRefused, sourceVars, targetVars, udpVars
<1>10. CASE \/ TargetOpens \/ TargetRecv \/ TargetSend \/ TargetCloses \/ Breaks \/ DatagramRefused
            \/ ProxyOverwrites \/ TunnelOverwrites \/ UNCHANGED vars
  BY <1>1, <1>10 DEF TargetOpens, TargetRecv, TargetSend, TargetCloses, Breaks, DatagramRefused, ProxyOverwrites,
                     TunnelOverwrites, vars, sourceVars, targetVars, udpVars
<1> QED
  BY <1>3, <1>4, <1>5, <1>6, <1>7, <1>8, <1>9, <1>10 DEF Next, Source, Proxy

-----------------------------------------------------------------------------
(* From the source to the target                                            *)

\* A step that neither sends nor takes on this way.
LEMMA ForwardQuiet ==
  ASSUME Forward, UNCHANGED <<cmd, head, tgot>>, valid => valid',
         near'.fwd = near.fwd, far'.fwd = far.fwd,
         sock' = "normal" => sock = "normal" \/ head # "term",
         target' # "closed" => target # "closed",
         cmd # "associate" => said' = said
  PROVE  Forward'
BY DEF Forward

\* The source has no package for the tunnel while it waits for the replies.
LEMMA ToldHasTunnel ==
  ASSUME IInv, ByCommand, told
  PROVE  head # "init" /\ (cmd # "associate" => valid)
BY DEF IInv, ToldIsNormal, Stands, Fresh, TargetOfTunnel, ByCommand

LEMMA LastLonger ==
  ASSUME NEW x \in Nat, NEW y \in Nat, NEW z \in Nat
  PROVE  /\ (x + y + z) + 1 = x + y + (z + 1)
         /\ x + z = (x + 1) + (z - 1)
         /\ x + z - 0 = (x + 1) + (z - 1) - 0
OBVIOUS

LEMMA ForwardSource ==
  ASSUME IInv, ByCommand, EndsTyped, Forward, SourceRecv \/ SourceEnd \/ SourceSend \/ SourceClose
  PROVE  Forward'
<1>1. near \in Links /\ far \in Links /\ said \in Nat
  BY MaxDataAssumption DEF IInv, LinksTyped
<1>2. UNCHANGED <<cmd, head, tgot, valid, far, sock, target>>
  BY DEF SourceRecv, SourceEnd, SourceSend, SourceClose, CloseSource, given, proxyVars, targetVars
<1>3. ASSUME near'.fwd = near.fwd, said' = said
      PROVE  Forward'
  BY <1>2, <1>3, ForwardQuiet
<1>4. CASE SourceRecv
  <2> DEFINE rest == TakeBack(near, 1)
  <2>1. open /\ near.back # << >> /\ said' = said
    BY <1>4 DEF SourceRecv, CloseSource, Refused, TunnelPkg, sourceVars
  <2>2. rest \in Links /\ rest.fwd = near.fwd
    BY <1>1, <2>1, TakeBackKeeps
  <2>3. CASE near' \in {rest, CloseFwd(rest)}
    <3>1. near'.fwd = near.fwd
      BY <2>2, <2>3, CloseKeeps
    <3> QED
      BY <1>3, <2>1, <3>1
  <2>4. ASSUME NEW is \in {"auth", "request"}, NEW there,
               near' = SendFwd(rest, Pkg(is), there), shake \in {"method", "auth"}
        PROVE  Forward'
    <3>1. head = "init" /\ near.fwd = << >>
      BY <2>1, <2>4 DEF IInv, Handshake
    <3>2. near'.fwd \in {<< >>, Append(<< >>, Pkg(is))} /\ Pkg(is) \in Packages
      BY <2>2, <2>4, <3>1, PkgType, SendKeeps
    <3>3. Len(near'.fwd) <= 1
      BY <3>2, OneIsShort
    <3> QED
      BY <1>2, <3>1, <3>3 DEF Forward
  <2> HIDE DEF rest
  <2>6. CASE near' = LeaveBack(near)
    BY <1>1, <1>3, <2>1, <2>6, LeaveTypes
  <2>5. \/ near' \in {rest, CloseFwd(rest)} \/ near' = LeaveBack(near)
        \/ \E is \in {"auth", "request"}, there \in BOOLEAN :
             near' = SendFwd(rest, Pkg(is), there) /\ shake \in {"method", "auth"}
    <3>1. CASE near' \in {rest, CloseFwd(rest)} \/ near' = LeaveBack(near)
      BY <3>1
    <3>2. ASSUME NEW is \in {"auth", "request"}, shake \in {"method", "auth"},
                 near' = SendFwd(rest, Pkg(is), sock \in {"none", "normal"})
          PROVE  \E js \in {"auth", "request"}, there \in BOOLEAN :
                   near' = SendFwd(rest, Pkg(js), there) /\ shake \in {"method", "auth"}
      <4> (sock \in {"none", "normal"}) \in BOOLEAN
        OBVIOUS
      <4> QED
        BY <3>2
    <3> QED
      BY <1>4, <3>1, <3>2 DEF SourceRecv, Split, CloseSource, Refused, rest
  <2> QED
    BY <2>3, <2>4, <2>5, <2>6
<1>5. CASE SourceEnd \/ SourceClose
  <2>1. near' = CloseFwd(near) /\ said' = said
    BY <1>5 DEF SourceEnd, SourceClose, CloseSource
  <2> QED
    BY <1>1, <1>3, <2>1, CloseKeeps
<1>6. CASE SourceSend
  <2>1. /\ cmd # "associate" /\ told /\ said + 1 \in 1 .. MaxData /\ said' = said + 1
        /\ near' = SendFwd(near, Data(said + 1), sock \in {"none", "normal"})
    BY <1>1, <1>6, MaxDataAssumption DEF SourceSend
  <2>2. head # "init" /\ valid
    BY <2>1, ToldHasTunnel
  <2>3. ASSUME head = "term", sock = "normal", target # "closed"
        PROVE  /\ Numbered(near'.fwd, 0, Len(tgot) + Len(far.fwd))
               /\ said' = Len(tgot) + Len(far.fwd) + Len(near'.fwd)
    <3>1. Data(said + 1) \in Packages /\ Data(said + 1).n = said + 1
      BY <2>1, DataType DEF Data
    <3>2. near'.fwd = Append(near.fwd, Data(said + 1))
      BY <1>1, <2>1, <2>3, <3>1, SentThere
    <3>3. near.fwd \in Seq(Packages) /\ Len(near.fwd) \in Nat /\ Len(far.fwd) \in Nat /\ Len(tgot) \in Nat
      BY <1>1, TakenNumbered, LenProperties DEF EndsTyped
    <3>4. Numbered(near.fwd, 0, Len(tgot) + Len(far.fwd)) /\ said = Len(tgot) + Len(far.fwd) + Len(near.fwd)
      BY <2>1, <2>3 DEF Forward
    <3>5. /\ Len(tgot) + Len(far.fwd) \in Nat /\ 0 <= Len(near.fwd)
          /\ said + 1 = (Len(tgot) + Len(far.fwd)) + Len(near.fwd) + 1 - 0
      BY <3>3, <3>4
    <3>6. /\ Numbered(Append(near.fwd, Data(said + 1)), 0, Len(tgot) + Len(far.fwd))
          /\ Len(Append(near.fwd, Data(said + 1))) = Len(near.fwd) + 1
      BY <3>1, <3>3, <3>4, <3>5, NumberedAppend
    <3>7. Numbered(near'.fwd, 0, Len(tgot) + Len(far.fwd)) /\ Len(near'.fwd) = Len(near.fwd) + 1
      BY <3>2, <3>6, Zenon
    <3>8. said' = said + 1 /\ Len(near'.fwd) = Len(near.fwd) + 1 /\ said = Len(tgot) + Len(far.fwd) + Len(near.fwd)
      BY <2>1, <3>4, <3>7, Zenon
    <3>9. Len(tgot) \in Nat /\ Len(far.fwd) \in Nat /\ Len(near.fwd) \in Nat
      BY <3>3
    <3>10. (Len(tgot) + Len(far.fwd) + Len(near.fwd)) + 1 = Len(tgot) + Len(far.fwd) + (Len(near.fwd) + 1)
      BY <3>9, LastLonger
    <3>11. said' = Len(tgot) + Len(far.fwd) + Len(near'.fwd)
      BY <3>8, <3>10, Zenon
    <3> QED
      BY <3>7, <3>11
  <2> QED
    BY <1>2, <2>2, <2>3 DEF Forward
<1> QED
  BY <1>4, <1>5, <1>6

\* The relayed package is the next of the tunnel.
LEMMA ForwardRelay ==
  ASSUME IInv, EndsTyped, Forward, Relay(TakeFwd(near, 1), Head(near.fwd)), near.fwd # << >>,
         head = "term", sock = "normal", UNCHANGED <<cmd, target, tgot, said>>
  PROVE  Forward'
<1> DEFINE rest == TakeFwd(near, 1)
           k    == Len(tgot) + Len(far.fwd)
<1>1. near \in Links /\ far \in Links
  BY DEF IInv, LinksTyped
<1>2. /\ near.fwd \in Seq(Packages) /\ far.fwd \in Seq(Packages)
      /\ Len(near.fwd) \in Nat /\ Len(far.fwd) \in Nat /\ Len(tgot) \in Nat
  BY <1>1, TakenNumbered, LenProperties DEF EndsTyped
<1>3. valid /\ valid' /\ UNCHANGED <<head, sock>> /\ near' = rest /\ far' = SendFwd(far, Head(near.fwd), target = "open")
  BY DEF Forward, Relay
<1>4. target # "none"
  BY <1>3 DEF IInv, TargetOfTunnel
<1>5. near'.fwd = SubSeq(near.fwd, 2, Len(near.fwd)) /\ Len(near'.fwd) = Len(near.fwd) - 1
  BY <1>1, <1>3, TakenNumbered
<1>6. Head(near.fwd) \in Packages
  BY <1>1, TakeFwdKeeps
<1>7. \A i \in 1 .. Len(tgot') : tgot'[i] = i
  BY DEF Forward
<1>8. CASE target = "open"
  <2>1. Numbered(near.fwd, 0, k) /\ Numbered(far.fwd, 0, Len(tgot))
    BY <1>8 DEF Forward
  <2>2. k \in Nat
    BY <1>2
  <2>3. Head(near.fwd).n = k + 1 /\ Numbered(SubSeq(near.fwd, 2, Len(near.fwd)), 0, k + 1)
    BY <1>2, <2>1, <2>2, NumberedRest
  <2>4. far'.fwd = Append(far.fwd, Head(near.fwd))
    BY <1>1, <1>3, <1>6, <1>8, SentThere
  <2>5. 0 <= Len(far.fwd) /\ Head(near.fwd).n = Len(tgot) + Len(far.fwd) + 1 - 0
    BY <1>2, <2>3
  <2>6. /\ Numbered(Append(far.fwd, Head(near.fwd)), 0, Len(tgot))
        /\ Len(Append(far.fwd, Head(near.fwd))) = Len(far.fwd) + 1
    BY <1>2, <1>6, <2>1, <2>5, NumberedAppend
  <2>7. Numbered(far'.fwd, 0, Len(tgot')) /\ Len(far'.fwd) = Len(far.fwd) + 1
    BY <2>4, <2>6
  <2>8. Len(tgot') + Len(far'.fwd) = k + 1
    BY <1>2, <2>7
  <2>9. Numbered(near'.fwd, 0, Len(tgot') + Len(far'.fwd))
    BY <1>5, <2>3, <2>8, Zenon
  <2>10. cmd' # "associate" => said' = Len(tgot') + Len(far'.fwd) + Len(near'.fwd)
    <3>1. cmd # "associate" => said = k + Len(near.fwd)
      BY <1>8 DEF Forward
    <3>2. Len(near'.fwd) = Len(near.fwd) - 1 /\ cmd' = cmd /\ said' = said
      BY <1>5, Zenon
    <3>3. k + Len(near.fwd) = (k + 1) + (Len(near.fwd) - 1)
      BY <1>2, <2>2, LastLonger
    <3> QED
      BY <2>8, <3>1, <3>2, <3>3, Zenon
  <2> QED
    BY <1>3, <1>7, <2>7, <2>9, <2>10 DEF Forward
<1>9. CASE target = "closed"
  <2>1. far'.fwd = far.fwd
    BY <1>1, <1>3, <1>6, <1>9, SentNowhere
  <2> QED
    BY <1>3, <1>9, <2>1 DEF Forward
<1> QED
  BY <1>4, <1>8, <1>9 DEF EndsTyped

\* The handshake ends with nothing on the way.
LEMMA ForwardRequest ==
  ASSUME IInv, ByCommand, Forward, head = "init", near'.fwd = << >>, far'.fwd = far.fwd, ~valid',
         UNCHANGED <<cmd, tgot, said>>
  PROVE  Forward'
<1>1. ~told
  BY ToldHasTunnel
<1>2. said = 0
  BY <1>1 DEF ByCommand
<1>3. far'.fwd = << >> /\ tgot' = << >> /\ Len(<< >>) = 0
  BY EmptySeq DEF Forward
<1>4. Len(near'.fwd) = 0 /\ Len(far'.fwd) = 0 /\ Len(tgot') = 0
  BY <1>3
<1>5. \A i \in 1 .. Len(tgot') : tgot'[i] = i
  BY <1>4
<1>6. Numbered(far'.fwd, 0, Len(tgot')) /\ Numbered(near'.fwd, 0, Len(tgot') + Len(far'.fwd))
  BY <1>3, NumberedEmpty
<1>7. said' = Len(tgot') + Len(far'.fwd) + Len(near'.fwd)
  BY <1>2, <1>4
<1> QED
  BY <1>3, <1>4, <1>5, <1>6, <1>7 DEF Forward

LEMMA ForwardRecv ==
  ASSUME IInv, ByCommand, EndsTyped, Forward, ProxyRecv
  PROVE  Forward'
<1> DEFINE rest == TakeFwd(near, 1)
<1>1. near \in Links /\ near.fwd # << >> /\ sock = "normal" /\ UNCHANGED <<cmd, target, tgot, said>>
  BY DEF IInv, LinksTyped, ProxyRecv, given, sourceVars, targetVars
<1>2. far \in Links
  BY DEF IInv, LinksTyped
<1>3. rest \in Links
  BY <1>1, TakeFwdKeeps
<1>4. head = "init" => rest.fwd = << >> /\ ~valid
  BY <1>1, TakeFwdKeeps DEF Forward, IInv, TargetOfTunnel, Fresh
<1> HIDE DEF rest
<1>5. ASSUME NEW is \in {"granted", "userpsw", "refused", "denied", "reply"}, ToSource(rest, Pkg(is))
      PROVE  near'.fwd = rest.fwd
  BY <1>3, <1>5, PkgType, SendKeeps DEF ToSource
<1>6. CASE head = "init" /\ (MethodPkg(rest) \/ AuthPkg(rest))
  <2>1. near'.fwd = rest.fwd /\ UNCHANGED <<head, far, valid>>
    BY <1>5, <1>6 DEF MethodPkg, AuthPkg
  <2> QED
    BY <1>1, <1>4, <1>6, <2>1, ForwardRequest
<1>7. CASE head = "init" /\ TunnelRequest(rest)
  <2>1. valid' = valid /\ far'.fwd = far.fwd
    BY <1>2, <1>7, CloseKeeps DEF TunnelRequest, Release, OnClosed, ConnectClosed
  <2>2. near'.fwd = rest.fwd
    BY <1>3, <1>5, <1>7, CloseKeeps DEF TunnelRequest, Release, OnClosed, ConnectInit, BindInit, AssociateInit
  <2> QED
    BY <1>1, <1>4, <1>7, <2>1, <2>2, ForwardRequest
<1>8. CASE head = "term" /\ Relay(rest, Head(near.fwd))
  BY <1>1, <1>8, ForwardRelay DEF rest
<1>9. CASE head = "init" /\ near' = LeaveFwd(near) /\ UNCHANGED <<far, head>>
  <2>1. near.fwd \in Seq(Packages) /\ near'.fwd = <<Partial>> \o Tail(near.fwd)
    BY <1>1, <1>9, LeaveTypes DEF Links
  <2>2. Len(near'.fwd) = Len(near.fwd)
    BY <1>1, <2>1, LeaveKeeps
  <2> QED
    BY <1>1, <1>9, <2>2 DEF Forward
<1>10. CASE head = "init" /\ Release(rest) /\ UNCHANGED <<head, valid>>
  <2>1. near'.fwd = rest.fwd /\ far'.fwd = far.fwd
    BY <1>2, <1>3, <1>10, CloseKeeps DEF Release, OnClosed, ConnectClosed
  <2> QED
    BY <1>1, <1>4, <1>10, <2>1, ForwardRequest
<1> QED
  BY <1>6, <1>7, <1>8, <1>9, <1>10 DEF ProxyRecv, GarbledPkg, rest

LEMMA ForwardProxy ==
  ASSUME IInv, ByCommand, EndsTyped, Forward,
         \/ Accept \/ ProxyEof \/ ProxyError \/ Recover
         \/ TunnelUp \/ TunnelRecv \/ TunnelEof \/ TunnelError \/ TunnelRefused
  PROVE  Forward'
<1>1. near \in Links /\ far \in Links
  BY DEF IInv, LinksTyped
<1>2. UNCHANGED <<cmd, head, tgot, target, said>> /\ (valid => valid')
  BY DEF Accept, ProxyEof, ProxyError, Recover, TunnelUp, TunnelRecv, TunnelEof, TunnelError, TunnelRefused, given,
         sourceVars, targetVars
<1>3. sock' = "normal" => sock = "normal" \/ head # "term"
  BY DEF Accept, ProxyEof, ProxyError, Recover, TunnelUp, TunnelRecv, TunnelEof, TunnelError, TunnelRefused, Release,
         ByCommand
<1>4. ASSUME near'.fwd = near.fwd, far'.fwd = far.fwd
      PROVE  Forward'
  BY <1>2, <1>3, <1>4, ForwardQuiet
<1>5. CASE ProxyEof \/ ProxyError
  <2>1. near' \in {near, CloseBack(near)} /\ far' \in {far, EndFwd(far), CloseFwd(far)}
    BY <1>5 DEF ProxyEof, ProxyError, Release, OnClosed, ConnectClosed
  <2>2. near'.fwd = near.fwd
    BY <1>1, <2>1, CloseKeeps
  <2>3. far'.fwd = far.fwd
    BY <1>1, <2>1, CloseKeeps, MarkKeeps
  <2> QED
    BY <1>4, <2>2, <2>3
<1>6. CASE TunnelUp
  <2>1. far' = far /\ (near' = near \/ near' = SendBack(near, Pkg("reply"), open))
    BY <1>6 DEF TunnelUp, ToSourceOrAbort, ToSource
  <2> QED
    BY <1>1, <1>4, <2>1, PkgType, SendKeeps
<1>7. CASE TunnelRecv
  <2>1. /\ far.back # << >> /\ far' = TakeBack(far, 1)
        /\ near' = near \/ near' = SendBack(near, Head(far.back), open)
    BY <1>7 DEF TunnelRecv, ToSourceOrAbort, ToSource
  <2>2. far'.fwd = far.fwd /\ Head(far.back) \in Packages
    BY <1>1, <2>1, TakeBackKeeps
  <2>3. near'.fwd = near.fwd
    BY <1>1, <2>1, <2>2, SendKeeps
  <2> QED
    BY <1>4, <2>2, <2>3
<1>8. CASE Accept \/ Recover \/ TunnelEof \/ TunnelError \/ TunnelRefused
  <2>1. far' = far /\ near' \in {near, EndBack(near), CloseBack(near)}
    BY <1>8 DEF Accept, Recover, TunnelEof, PassEnd, TunnelError, TunnelRefused
  <2>2. near'.fwd = near.fwd
    BY <1>1, <2>1, CloseKeeps, MarkKeeps
  <2> QED
    BY <1>4, <2>1, <2>2
<1> QED
  BY <1>5, <1>6, <1>7, <1>8

LEMMA ForwardTarget ==
  ASSUME IInv, EndsTyped, Forward, TargetRecv
  PROVE  Forward'
<1>1. near \in Links /\ far \in Links
  BY DEF IInv, LinksTyped
<1>2. /\ far.fwd # << >> /\ target = "open" /\ far' = TakeFwd(far, 1)
      /\ tgot' = Append(tgot, Head(far.fwd).n)
      /\ UNCHANGED <<cmd, head, valid, sock, near, target, said>>
  BY DEF TargetRecv, given, sourceVars, proxyVars
<1>3. far.fwd \in Seq(Packages) /\ Len(far.fwd) \in Nat /\ Len(near.fwd) \in Nat /\ Len(tgot) \in Nat
  BY <1>1, TakenNumbered, LenProperties DEF EndsTyped
<1>4. Numbered(far.fwd, 0, Len(tgot)) /\ head # "init" /\ (\A i \in 1 .. Len(tgot) : tgot[i] = i)
  BY <1>2 DEF Forward
<1>5. Head(far.fwd).n = Len(tgot) + 1 /\ Numbered(SubSeq(far.fwd, 2, Len(far.fwd)), 0, Len(tgot) + 1)
  BY <1>2, <1>3, <1>4, NumberedRest
<1>6. far'.fwd = SubSeq(far.fwd, 2, Len(far.fwd)) /\ Len(far'.fwd) = Len(far.fwd) - 1
  BY <1>1, <1>2, TakenNumbered
<1>7. tgot' = Append(tgot, Len(tgot) + 1)
  BY <1>2, <1>5
<1>8. /\ Len(Append(tgot, Len(tgot) + 1)) = Len(tgot) + 1
      /\ \A i \in 1 .. Len(Append(tgot, Len(tgot) + 1)) : Append(tgot, Len(tgot) + 1)[i] = i
  BY <1>4, CountedOn DEF EndsTyped
<1>9. Len(tgot') = Len(tgot) + 1 /\ \A i \in 1 .. Len(tgot') : tgot'[i] = i
  BY <1>7, <1>8
<1>10. Numbered(far'.fwd, 0, Len(tgot'))
  BY <1>5, <1>6, <1>9, Zenon
<1>11. Len(tgot) + Len(far.fwd) = (Len(tgot) + 1) + (Len(far.fwd) - 1)
  BY <1>3, LastLonger
<1>12. Len(tgot') + Len(far'.fwd) = Len(tgot) + Len(far.fwd)
  BY <1>6, <1>9, <1>11, Zenon
<1>13. ASSUME head = "term", sock = "normal"
       PROVE  /\ Numbered(near'.fwd, 0, Len(tgot') + Len(far'.fwd))
              /\ cmd # "associate" => said' = Len(tgot') + Len(far'.fwd) + Len(near'.fwd)
  <2>1. /\ Numbered(near.fwd, 0, Len(tgot) + Len(far.fwd))
        /\ cmd # "associate" => said = Len(tgot) + Len(far.fwd) + Len(near.fwd)
    BY <1>2, <1>13 DEF Forward
  <2> QED
    BY <1>2, <1>12, <2>1, Zenon
<1>14. head = "term" /\ ~valid => near.fwd = << >>
  BY DEF Forward
<1> QED
  BY <1>2, <1>4, <1>9, <1>10, <1>13, <1>14 DEF Forward

LEMMA ForwardOutside ==
  ASSUME IInv, ByCommand, Forward,
         \/ TargetOpens \/ TargetSend \/ TargetCloses \/ Breaks
         \/ DatagramSend \/ RelayRecv \/ DatagramRecv \/ DatagramRefused \/ TargetHears \/ TargetAnswers
         \/ UNCHANGED vars
  PROVE  Forward'
<1>1. near \in Links /\ far \in Links /\ tsaid \in Nat
  BY MaxDataAssumption DEF IInv, LinksTyped
<1>2. UNCHANGED <<cmd, head, tgot, valid, sock>>
  BY DEF TargetOpens, TargetSend, TargetCloses, Breaks, DatagramSend, RelayRecv, DatagramRecv, DatagramRefused,
         TargetHears, TargetAnswers, vars, given, sourceVars, proxyVars, targetVars
<1>3. /\ cmd # "associate" => said' = said
      /\ target' # "closed" => target # "closed"
  BY DEF TargetOpens, TargetSend, TargetCloses, Breaks, DatagramSend, RelayRecv, DatagramRecv, DatagramRefused,
         TargetHears, TargetAnswers, vars, sourceVars, targetVars, ByCommand
<1>4. near'.fwd = near.fwd
  <2>1. near' \in {near, Reset(near)}
    BY DEF TargetOpens, TargetSend, TargetCloses, Breaks, DatagramSend, RelayRecv, DatagramRecv, DatagramRefused,
           TargetHears, TargetAnswers, vars
  <2> QED
    BY <1>1, <2>1, MarkKeeps
<1>5. far'.fwd = far.fwd
  <2>1. CASE TargetSend
    <3>1. far' = SendBack(far, Data(tsaid + 1), tun # "closed") /\ tsaid + 1 \in 1 .. MaxData
      BY <1>1, <2>1, MaxDataAssumption DEF TargetSend
    <3>2. Data(tsaid + 1) \in Packages
      BY <3>1, DataType
    <3> QED
      BY <1>1, <3>1, <3>2, SendKeeps
  <2>2. CASE far' \in {far, Reset(far), CloseBack(far)}
    BY <1>1, <2>2, MarkKeeps, CloseKeeps
  <2> QED
    BY <2>1, <2>2 DEF TargetOpens, TargetCloses, Breaks, DatagramSend, RelayRecv, DatagramRecv, DatagramRefused,
                      TargetHears, TargetAnswers, vars
<1> QED
  BY <1>2, <1>3, <1>4, <1>5, ForwardQuiet

\* What is written over on the other way leaves this one as it is.
LEMMA ForwardOverwrites ==
  ASSUME IInv, Forward, SourceOverwrites \/ TunnelOverwrites
  PROVE  Forward'
<1>1. near \in Links /\ far \in Links
  BY DEF IInv, LinksTyped
<1>2. UNCHANGED <<cmd, head, tgot, valid, sock, target, said>>
  BY DEF SourceOverwrites, TunnelOverwrites, given, sourceVars, proxyVars, targetVars
<1>3. near'.fwd = near.fwd /\ far'.fwd = far.fwd
  <2>1. CASE SourceOverwrites
    <3>1. /\ far' = far
          /\ \E i, j \in 1 .. Len(near.back) : i <= j /\ near' = [near EXCEPT !.back = Jumbled(@, i, j)]
      BY <2>1 DEF SourceOverwrites
    <3> QED
      BY <1>1, <3>1, OverwriteTypes
  <2>2. CASE TunnelOverwrites
    <3>1. /\ near' = near
          /\ \E i, j \in 1 .. Len(far.back) : i <= j /\ far' = [far EXCEPT !.back = Jumbled(@, i, j)]
      BY <2>2 DEF TunnelOverwrites
    <3> QED
      BY <1>1, <3>1, OverwriteTypes
  <2> QED
    BY <2>1, <2>2
<1> QED
  BY <1>2, <1>3, ForwardQuiet

\* What has been written over stays so.
LEMMA GarbledStays == [Next]_vars => garbled \subseteq garbled'
BY DEF Next, Source, Proxy, SourceRecv, SourceEnd, SourceSend, SourceClose, SourceOverwrites, ProxyOverwrites,
       TunnelOverwrites, Accept, ProxyRecv, ProxyEof, ProxyError, Recover, TunnelUp, TunnelRefused, TunnelRecv,
       TunnelEof, TunnelError, TargetOpens, TargetRecv, TargetSend, TargetCloses, Breaks, DatagramSend, RelayRecv,
       DatagramRecv, DatagramRefused, TargetHears, TargetAnswers, vars

LEMMA ForwardKeeps ==
  ASSUME IInv, ByCommand, EndsTyped, "fwd" \notin garbled => Forward, [Next]_vars
  PROVE  ("fwd" \notin garbled => Forward)'
<1>1. CASE ProxyOverwrites
  BY <1>1 DEF ProxyOverwrites
<1>2. CASE "fwd" \notin garbled /\ ~ProxyOverwrites
  BY <1>2, ForwardSource, ForwardRecv, ForwardProxy, ForwardTarget, ForwardOutside, ForwardOverwrites
  DEF Next, Source, Proxy
<1> QED
  BY <1>1, <1>2, GarbledStays

-----------------------------------------------------------------------------
(* From the target to the source                                            *)

LEMMA AheadIsNat == Ahead \in 0 .. 2 /\ Ahead \in Nat
BY DEF Ahead

\* A step that neither sends nor takes on this way.
LEMMA BackwardQuiet ==
  ASSUME Backward, UNCHANGED <<cmd, got, valid, open, shake, trs>>,
         near'.back = near.back, far'.back = far.back,
         tun' = "listening" => tun = "listening", tun' # "closed" => tun # "closed",
         aborted => aborted',
         tsaid' = tsaid \/ (~valid /\ cmd = "associate")
  PROVE  Backward'
<1>1. Ahead' = Ahead
  BY DEF Ahead
<1>2. FarBack'
  BY DEF Backward, FarBack
<1>3. NearBack'
  BY <1>1 DEF Backward, NearBack
<1> QED
  BY <1>2, <1>3 DEF Backward

\* A source that closes waits for nothing more.
LEMMA BackwardClosed ==
  ASSUME Backward, ~open', UNCHANGED <<cmd, got, valid, far, tun, tsaid>>
  PROVE  Backward'
BY DEF Backward, FarBack, NearBack

LEMMA BackwardReply ==
  ASSUME IInv, ByCommand, EndsTyped, Backward, open, shake = "tunnel", near.back # << >>, TunnelPkg,
         UNCHANGED <<cmd, far, tun, tsaid, valid, aborted>>, near' = TakeBack(near, 1)
  PROVE  Backward'
<1>1. near \in Links /\ far \in Links
  BY DEF IInv, LinksTyped
<1>2. /\ near.back \in Seq(Packages) /\ Len(near.back) \in Nat /\ Len(far.back) \in Nat /\ Len(got) \in Nat
      /\ near'.back = SubSeq(near.back, 2, Len(near.back)) /\ Len(near'.back) = Len(near.back) - 1
  BY <1>1, TakenNumbered, LenProperties DEF EndsTyped
<1>3. Ahead > 0 /\ Ahead' = Ahead - 1
  BY DEF ByCommand, Ahead, TunnelPkg, ConnectPkg, BindPkg, AssociatePkg
<1>4. got' = got /\ open' = open
  BY DEF TunnelPkg
<1>5. FarBack'
  BY DEF Backward, FarBack
<1>6. Numbered(near.back, Ahead, Len(got))
  BY DEF Backward, NearBack
<1>7. Numbered(SubSeq(near.back, 2, Len(near.back)), Ahead - 1, Len(got))
  BY <1>2, <1>3, <1>6, AheadIsNat, NumberedRest
<1>8. Numbered(near'.back, Ahead', Len(got'))
  BY <1>2, <1>3, <1>4, <1>7, Zenon
<1>9. Len(got) + Len(near.back) - Ahead = Len(got) + (Len(near.back) - 1) - (Ahead - 1)
  BY <1>2, AheadIsNat
<1>10. Len(got') + Len(near'.back) - Ahead' = Len(got) + Len(near.back) - Ahead
  BY <1>2, <1>3, <1>4, <1>9, Zenon
<1>11. ASSUME valid, ~aborted
       PROVE  /\ Ahead <= Len(near.back)
              /\ Numbered(far.back, 0, Len(got) + Len(near.back) - Ahead)
              /\ tun # "closed" => tsaid = Len(got) + Len(near.back) - Ahead + Len(far.back)
  BY <1>11 DEF Backward, NearBack
<1>12. ASSUME valid, ~aborted
       PROVE  /\ Numbered(far'.back, 0, Len(got') + Len(near'.back) - Ahead')
              /\ tun' # "closed" => tsaid' = Len(got') + Len(near'.back) - Ahead' + Len(far'.back)
  BY <1>10, <1>11, <1>12, Zenon
<1>13. ASSUME valid, ~aborted
       PROVE  Ahead' <= Len(near'.back)
  BY <1>2, <1>3, <1>11, <1>13, AheadIsNat
<1>14. /\ cmd = "associate" => Len(near'.back) <= Ahead'
       /\ cmd = "bind" /\ tun = "listening" => Len(near'.back) = Ahead' - 1
  <2>1. /\ cmd = "associate" => Len(near.back) <= Ahead
        /\ cmd = "bind" /\ tun = "listening" => Len(near.back) = Ahead - 1
    BY DEF Backward, NearBack
  <2> QED
    BY <1>2, <1>3, <2>1, AheadIsNat
<1>15. NearBack'
  BY <1>8, <1>12, <1>13, <1>14 DEF NearBack
<1> QED
  BY <1>4, <1>5, <1>15 DEF Backward

LEMMA BackwardData ==
  ASSUME IInv, EndsTyped, Backward, open, shake = "normal", near.back # << >>, near' = TakeBack(near, 1),
         got' = Append(got, Head(near.back).n),
         UNCHANGED <<cmd, far, tun, tsaid, valid, aborted, shake, trs, open>>
  PROVE  Backward'
<1>1. near \in Links /\ far \in Links
  BY DEF IInv, LinksTyped
<1>2. /\ near.back \in Seq(Packages) /\ Len(near.back) \in Nat /\ Len(far.back) \in Nat /\ Len(got) \in Nat
      /\ near'.back = SubSeq(near.back, 2, Len(near.back)) /\ Len(near'.back) = Len(near.back) - 1
  BY <1>1, TakenNumbered, LenProperties DEF EndsTyped
<1>3. Ahead = 0 /\ Ahead' = 0
  BY DEF Ahead
<1>4. Numbered(near.back, 0, Len(got)) /\ (\A i \in 1 .. Len(got) : got[i] = i)
  BY <1>3 DEF Backward, NearBack
<1>5. Head(near.back).n = Len(got) + 1 /\ Numbered(SubSeq(near.back, 2, Len(near.back)), 0, Len(got) + 1)
  BY <1>2, <1>4, NumberedRest
<1>6. got' = Append(got, Len(got) + 1)
  BY <1>5
<1>7. Len(got') = Len(got) + 1 /\ \A i \in 1 .. Len(got') : got'[i] = i
  <2>1. /\ Len(Append(got, Len(got) + 1)) = Len(got) + 1
        /\ \A i \in 1 .. Len(Append(got, Len(got) + 1)) : Append(got, Len(got) + 1)[i] = i
    BY <1>4, CountedOn DEF EndsTyped
  <2> QED
    BY <1>6, <2>1
<1>8. Numbered(near'.back, Ahead', Len(got'))
  BY <1>2, <1>3, <1>5, <1>7, Zenon
<1>9. Len(got) + Len(near.back) - 0 = (Len(got) + 1) + (Len(near.back) - 1) - 0
  BY <1>2, LastLonger
<1>10. Len(got') + Len(near'.back) - Ahead' = Len(got) + Len(near.back) - Ahead
  BY <1>2, <1>3, <1>7, <1>9, Zenon
<1>11. ASSUME valid, ~aborted
       PROVE  /\ Numbered(far.back, 0, Len(got) + Len(near.back) - Ahead)
              /\ tun # "closed" => tsaid = Len(got) + Len(near.back) - Ahead + Len(far.back)
  BY <1>11 DEF Backward, NearBack
<1>12. ASSUME valid, ~aborted
       PROVE  /\ Numbered(far'.back, 0, Len(got') + Len(near'.back) - Ahead')
              /\ tun' # "closed" => tsaid' = Len(got') + Len(near'.back) - Ahead' + Len(far'.back)
  BY <1>10, <1>11, <1>12, Zenon
<1>13. Len(near.back) >= 1
  BY <1>2, RestIsShifted
<1>14. /\ Ahead' <= Len(near'.back)
       /\ cmd = "associate" => Len(near'.back) <= Ahead'
       /\ ~(cmd = "bind" /\ tun = "listening")
  <2>1. /\ cmd = "associate" => Len(near.back) <= 0
        /\ cmd = "bind" /\ tun = "listening" => Len(near.back) = 0 - 1
    BY <1>3 DEF Backward, NearBack
  <2> QED
    BY <1>2, <1>3, <1>13, <2>1
<1>15. NearBack'
  BY <1>8, <1>12, <1>14 DEF NearBack
<1>16. FarBack'
  BY DEF Backward, FarBack
<1> QED
  BY <1>7, <1>15, <1>16 DEF Backward

\* The source asks for the tunnel with nothing on the way back.
LEMMA BackwardSays ==
  ASSUME IInv, Backward, open, shake \in {"method", "auth"}, near.back # << >>,
         NEW is \in {"auth", "request"}, NEW there, near' = SendFwd(TakeBack(near, 1), Pkg(is), there),
         UNCHANGED <<cmd, got, valid, far, tun, tsaid, head>>
  PROVE  Backward'
<1>1. near \in Links /\ Len(near.back) <= 1 /\ head = "init"
  BY DEF IInv, LinksTyped, Handshake
<1>2. TakeBack(near, 1) \in Links /\ TakeBack(near, 1).back = << >>
  BY <1>1, TakeBackKeeps
<1>3. near'.back = << >> /\ Len(near'.back) = 0
  BY <1>2, PkgType, SendKeeps, EmptySeq
<1>4. tun' # "listening" /\ ~valid'
  BY <1>1 DEF IInv, Fresh, TargetOfTunnel
<1>5. Numbered(near'.back, Ahead', Len(got'))
  BY <1>3, NumberedEmpty
<1>6. 0 <= Ahead'
  BY DEF Ahead
<1>7. NearBack'
  BY <1>3, <1>4, <1>5, <1>6 DEF NearBack
<1> QED
  BY <1>7 DEF Backward, FarBack

LEMMA BackwardSource ==
  ASSUME IInv, ByCommand, EndsTyped, Backward, SourceRecv \/ SourceEnd \/ SourceSend \/ SourceClose
  PROVE  Backward'
<1>1. near \in Links /\ UNCHANGED <<cmd, valid, far, tun, tsaid, head, aborted>>
  BY DEF IInv, LinksTyped, SourceRecv, SourceEnd, SourceSend, SourceClose, given, proxyVars, targetVars
<1>2. CASE SourceRecv
  <2> DEFINE rest == TakeBack(near, 1)
  <2>1. open /\ near.back # << >>
    BY <1>2 DEF SourceRecv
  <2>2. CASE ~open' /\ got' = got
    BY <1>1, <2>2, BackwardClosed
  <2>3. ASSUME NEW is \in {"auth", "request"}, near' = SendFwd(rest, Pkg(is), sock \in {"none", "normal"}),
               shake \in {"method", "auth"}, got' = got
        PROVE  Backward'
    BY <1>1, <2>1, <2>3, BackwardSays
  <2>4. CASE shake = "tunnel" /\ near' = rest /\ TunnelPkg
    BY <1>1, <2>1, <2>4, BackwardReply
  <2>5. CASE shake = "normal" /\ near' = rest /\ got' = Append(got, Head(near.back).n) /\ UNCHANGED <<shake, trs, open>>
    BY <1>1, <2>1, <2>5, BackwardData
  <2>6. CASE shake = "tunnel" /\ near' = LeaveBack(near) /\ UNCHANGED sourceVars
    <3>1. near'.back = <<Partial>> \o Tail(near.back) /\ near.back \in Seq(Packages)
      BY <1>1, <2>1, <2>6, LeaveTypes DEF Links
    <3>2. Len(near'.back) = Len(near.back) /\ \A k \in 1 .. Len(near.back) : k > 1 => near'.back[k] = near.back[k]
      BY <2>1, <3>1, LeaveKeeps
    <3>3. UNCHANGED <<shake, trs, open, got>> /\ Ahead' = Ahead /\ Ahead >= 1
      BY <1>1, <2>6 DEF sourceVars, Ahead
    <3>4. \A i \in 1 .. Len(near.back) : i > Ahead => i > 1
      BY <3>3, AheadIsNat
    <3>5. Numbered(near.back, Ahead, Len(got)) => Numbered(near'.back, Ahead, Len(got))
      BY <3>2, <3>4, Zenon DEF Numbered
    <3>6. FarBack'
      BY <1>1, <3>3 DEF Backward, FarBack
    <3>7. NearBack'
      BY <1>1, <3>2, <3>3, <3>5, Zenon DEF Backward, NearBack
    <3> QED
      BY <3>3, <3>6, <3>7 DEF Backward
  <2> HIDE DEF rest
  <2> QED
    BY <1>2, <2>2, <2>3, <2>4, <2>5, <2>6 DEF SourceRecv, Split, CloseSource, Refused, rest
<1>3. CASE SourceEnd \/ SourceClose
  <2>1. ~open' /\ got' = got
    BY <1>3 DEF SourceEnd, SourceClose, CloseSource
  <2> QED
    BY <1>1, <2>1, BackwardClosed
<1>4. CASE SourceSend
  <2>1. /\ said' \in 1 .. MaxData /\ near' = SendFwd(near, Data(said'), sock \in {"none", "normal"})
        /\ UNCHANGED <<shake, trs, open, got>>
    BY <1>4, MaxDataAssumption DEF IInv, LinksTyped, SourceSend
  <2>2. near'.back = near.back
    BY <1>1, <2>1, DataType, SendKeeps
  <2> QED
    BY <1>1, <2>1, <2>2, BackwardQuiet
<1> QED
  BY <1>2, <1>3, <1>4

LEMMA BackwardRequest ==
  ASSUME IInv, ByCommand, Backward, head = "init", sshake = "tunnel", near.fwd # << >>, sock = "normal",
         TunnelRequest(TakeFwd(near, 1)),
         UNCHANGED <<cmd, got, shake, trs, open, tsaid>>
  PROVE  Backward'
<1> DEFINE rest == TakeFwd(near, 1)
<1>1. near \in Links /\ far \in Links
  BY DEF IInv, LinksTyped
<1>2. rest \in Links /\ rest.back = near.back
  BY <1>1, TakeFwdKeeps
<1> HIDE DEF rest
<1>3. ~valid /\ tun = "none" /\ relay = "none"
  BY DEF IInv, Fresh, TargetOfTunnel
<1>4. valid' = valid /\ far'.back = far.back
  BY <1>1, CloseKeeps DEF TunnelRequest, Release, OnClosed, ConnectClosed
<1>5. FarBack'
  BY <1>3, <1>4 DEF Backward, FarBack
<1>6. SUFFICES ASSUME open', shake' \in {"tunnel", "normal"}
               PROVE  NearBack'
  BY <1>5 DEF Backward, NearBack
<1>7. shake = "tunnel" /\ near.back = << >> /\ trs = "none"
  <2>1. shake # "normal"
    BY ToldHasTunnel DEF ByCommand
  <2> QED
    BY <1>6, <2>1 DEF IInv, Tunnel
<1>8. Ahead' \in {1, 2} /\ (cmd' = "bind" => Ahead' = 2)
  BY <1>7 DEF Ahead
<1>9. /\ near'.back = << >> \/ near'.back = Append(<< >>, Pkg("reply"))
      /\ tun' = "listening" => near'.back = Append(<< >>, Pkg("reply"))
  <2>1. SendBack(rest, Pkg("reply"), open).back = Append(<< >>, Pkg("reply"))
    BY <1>2, <1>6, <1>7, PkgType, SentThere
  <2>2. rest.back = << >> /\ CloseBack(rest).back = << >>
    BY <1>2, <1>7, CloseKeeps
  <2>3. TunnelRequest(rest)
    BY DEF rest
  <2>4. \/ near' = rest /\ tun' # "listening"
        \/ near' = CloseBack(rest) /\ tun' # "listening"
        \/ near' = SendBack(rest, Pkg("reply"), open)
    BY <1>3, <2>3 DEF TunnelRequest, Release, OnClosed, ConnectClosed, ConnectInit, BindInit, AssociateInit, ToSource
  <2> QED
    BY <2>1, <2>2, <2>4
<1>10. Len(<< >>) = 0 /\ Len(Append(<< >>, Pkg("reply"))) = 1
  BY PkgType, EmptySeq, AppendProperties
<1>11. Len(near'.back) \in {0, 1} /\ (tun' = "listening" => Len(near'.back) = 1)
  BY <1>9, <1>10
<1>12. Numbered(near'.back, Ahead', Len(got'))
  BY <1>8, <1>11 DEF Numbered
<1>13. /\ Len(near'.back) <= Ahead'
       /\ cmd' = "bind" /\ tun' = "listening" => Len(near'.back) = Ahead' - 1
  <2>1. cmd' = "bind" /\ tun' = "listening" => Ahead' = 2 /\ Len(near'.back) = 1
    BY <1>8, <1>11
  <2>2. 2 - 1 = 1 /\ 0 <= 1 /\ 1 <= 1 /\ 1 <= 2 /\ 0 <= 2
    OBVIOUS
  <2> QED
    BY <1>8, <1>11, <2>1, <2>2, Zenon
<1>14. ~valid'
  BY <1>3, <1>4
<1> QED
  BY <1>12, <1>13, <1>14, Zenon DEF NearBack

LEMMA BackwardRecv ==
  ASSUME IInv, ByCommand, Backward, ProxyRecv
  PROVE  Backward'
<1> DEFINE rest == TakeFwd(near, 1)
<1>1. near \in Links /\ far \in Links
  BY DEF IInv, LinksTyped
<1>2. /\ near.fwd # << >> /\ sock = "normal"
      /\ UNCHANGED <<cmd, got, shake, trs, open, tsaid>>
  BY DEF ProxyRecv, given, sourceVars, targetVars
<1>3. rest \in Links /\ rest.back = near.back /\ Head(near.fwd) \in Packages
  BY <1>1, <1>2, TakeFwdKeeps
<1> HIDE DEF rest
<1>4. CASE head = "init" /\ sshake \in {"method", "auth"} /\ (MethodPkg(rest) \/ AuthPkg(rest))
  <2>1. UNCHANGED <<far, valid, tun>>
    BY <1>4 DEF MethodPkg, AuthPkg
  <2>2. ~(open /\ shake \in {"tunnel", "normal"})
    <3>1. shake # "normal"
      BY <1>4, ToldHasTunnel DEF ByCommand
    <3> QED
      BY <1>4, <3>1 DEF IInv, Tunnel
  <2> QED
    BY <1>2, <2>1, <2>2 DEF Backward, FarBack, NearBack
<1>5. CASE head = "init" /\ sshake = "tunnel" /\ TunnelRequest(rest)
  BY <1>2, <1>5, BackwardRequest DEF rest
<1>6. CASE Relay(rest, Head(near.fwd))
  <2>1. /\ near' = rest /\ UNCHANGED <<valid, tun, aborted>>
        /\ far' = far \/ far' = SendFwd(far, Head(near.fwd), target = "open")
    BY <1>6 DEF Relay
  <2>2. far'.back = far.back
    BY <1>1, <1>3, <2>1, SendKeeps
  <2> QED
    BY <1>2, <1>3, <2>1, <2>2, BackwardQuiet
<1>7. CASE head = "init" /\ near' = LeaveFwd(near) /\ UNCHANGED <<far, valid, tun, aborted>>
  BY <1>1, <1>2, <1>7, LeaveTypes, BackwardQuiet
<1>8. CASE head = "init" /\ Release(rest) /\ UNCHANGED <<valid, aborted>>
  <2>1. near' = CloseBack(rest) /\ UNCHANGED <<far, tun>>
    BY <1>8 DEF IInv, Fresh, Release, OnClosed, ConnectClosed, TunnelHas
  <2>2. near'.back = near.back
    BY <1>3, <2>1, CloseKeeps
  <2> QED
    BY <1>2, <1>8, <2>1, <2>2, BackwardQuiet
<1> QED
  BY <1>4, <1>5, <1>6, <1>7, <1>8 DEF ProxyRecv, GarbledPkg, rest

\* The tunnel stands: the reply goes out behind those that are on the way.
LEMMA BackwardUp ==
  ASSUME IInv, ByCommand, EndsTyped, Backward, TunnelUp
  PROVE  Backward'
<1>1. /\ UNCHANGED <<cmd, got, shake, trs, open, tsaid, far>> /\ ~aborted /\ valid' /\ tun' = "open"
      /\ tun \in {"connecting", "listening"}
  BY DEF TunnelUp, given, sourceVars, targetVars
<1>2. near \in Links /\ ~valid /\ cmd # "associate"
  BY <1>1 DEF IInv, LinksTyped, ByCommand
<1>3. near'.back = near.back \/ (~aborted' /\ near' = SendBack(near, Pkg("reply"), open))
  BY <1>1 DEF TunnelUp, ToSourceOrAbort, ToSource
<1>4. SUFFICES ASSUME open, shake \in {"tunnel", "normal"}
               PROVE  NearBack'
  BY <1>1 DEF Backward, FarBack, NearBack
<1>5. relay = "none" /\ ~told
  BY <1>2 DEF IInv, ToldIsNormal, Stands, ByCommand
<1>6. shake = "tunnel" /\ got = << >> /\ got' = << >> /\ Len(got) = 0
  BY <1>1, <1>4, <1>5, EmptySeq DEF ByCommand
<1>7. Ahead' = Ahead /\ Ahead \in {1, 2}
  BY <1>1, <1>6 DEF Ahead
<1>8. Len(near.back) = Ahead - 1
  <2>1. CASE cmd = "bind" /\ tun = "listening"
    BY <1>4, <2>1 DEF Backward, NearBack
  <2>2. CASE cmd # "bind"
    <3>1. near.back = << >> /\ Ahead = 1
      BY <1>2, <1>4, <1>5, <1>6, <2>2 DEF IInv, Tunnel, Stands, Ahead
    <3> QED
      BY <3>1, EmptySeq
  <2>3. CASE cmd = "bind" /\ tun = "connecting"
    BY <2>3 DEF ByCommand
  <2> QED
    BY <1>1, <2>1, <2>2, <2>3
<1>9. CASE near'.back = near.back /\ aborted'
  <2>1. Numbered(near'.back, Ahead', Len(got'))
    BY <1>1, <1>4, <1>7, <1>9 DEF Backward, NearBack
  <2> QED
    BY <1>1, <1>2, <1>9, <2>1 DEF NearBack
<1>10. CASE near' = SendBack(near, Pkg("reply"), open)
  <2>1. near'.back = Append(near.back, Pkg("reply"))
    BY <1>2, <1>4, <1>10, PkgType, SentThere
  <2>2. Len(Append(near.back, Pkg("reply"))) = Len(near.back) + 1 /\ Len(near.back) \in Nat
    BY <1>2, PkgType, TakenNumbered, AppendProperties
  <2>3. Len(near'.back) = Ahead'
    BY <1>7, <1>8, <2>1, <2>2
  <2>4. Numbered(near'.back, Ahead', Len(got'))
    BY <1>7, <2>3 DEF Numbered
  <2>5. Numbered(far.back, 0, 0) /\ tsaid = Len(far.back) /\ Len(far.back) \in Nat
    BY <1>1, <1>2, TakenNumbered DEF Backward, FarBack, IInv, LinksTyped
  <2>6. Len(got') + Len(near'.back) - Ahead' = 0
    BY <1>6, <1>7, <2>3
  <2>7. 0 + Len(far.back) = Len(far.back)
    BY <2>5
  <2>8. /\ Ahead' <= Len(near'.back)
        /\ Numbered(far'.back, 0, Len(got') + Len(near'.back) - Ahead')
        /\ tsaid' = Len(got') + Len(near'.back) - Ahead' + Len(far'.back)
    <3>1. Ahead' <= Len(near'.back)
      BY <1>7, <2>3
    <3> QED
      BY <1>1, <2>5, <2>6, <2>7, <3>1, Zenon
  <2> QED
    BY <1>1, <1>2, <2>4, <2>8 DEF NearBack
<1> QED
  BY <1>3, <1>9, <1>10 DEF TunnelUp, ToSourceOrAbort, ToSource

\* A package of the target comes out of the tunnel.
LEMMA BackwardTunnel ==
  ASSUME IInv, ByCommand, EndsTyped, Backward, TunnelRecv
  PROVE  Backward'
<1>1. /\ UNCHANGED <<cmd, got, shake, trs, open, tsaid, valid, tun>> /\ ~aborted /\ tun = "open"
      /\ far.back # << >> /\ far' = TakeBack(far, 1)
  BY DEF TunnelRecv, given, sourceVars, targetVars
<1>2. near \in Links /\ far \in Links /\ valid /\ cmd # "associate"
  BY <1>1 DEF IInv, LinksTyped, TargetOfTunnel, ByCommand
<1>3. SUFFICES ASSUME open, shake \in {"tunnel", "normal"}
               PROVE  NearBack'
  BY <1>1, <1>2 DEF Backward, FarBack, NearBack
<1>4. Ahead' = Ahead
  BY <1>1 DEF Ahead
<1>5. CASE near' = near /\ aborted'
  <2>1. Numbered(near'.back, Ahead', Len(got'))
    BY <1>1, <1>3, <1>4, <1>5 DEF Backward, NearBack
  <2> QED
    BY <1>1, <1>2, <1>5, <2>1 DEF NearBack
<1>6. CASE near' = SendBack(near, Head(far.back), open)
  <2> DEFINE m == Head(far.back)
  <2>1. m \in Packages
    BY <1>1, <1>2, TakeBackKeeps
  <2>2. /\ near.back \in Seq(Packages) /\ far.back \in Seq(Packages)
        /\ Len(near.back) \in Nat /\ Len(far.back) \in Nat /\ Len(got) \in Nat
    BY <1>2, TakenNumbered, LenProperties DEF EndsTyped
  <2>3. far'.back = SubSeq(far.back, 2, Len(far.back)) /\ Len(far'.back) = Len(far.back) - 1
    BY <1>1, <1>2, TakenNumbered
  <2>4. near'.back = Append(near.back, m)
    BY <1>2, <1>3, <1>6, <2>1, SentThere
  <2> HIDE DEF m
  <2>5. /\ Numbered(near.back, Ahead, Len(got)) /\ Ahead <= Len(near.back)
        /\ Numbered(far.back, 0, Len(got) + Len(near.back) - Ahead)
        /\ tsaid = Len(got) + Len(near.back) - Ahead + Len(far.back)
    BY <1>1, <1>2, <1>3 DEF Backward, NearBack
  <2>6. Len(got) + Len(near.back) - Ahead \in Nat
    BY <2>2, <2>5, AheadIsNat
  <2>7. /\ m.n = (Len(got) + Len(near.back) - Ahead) + 1
        /\ Numbered(SubSeq(far.back, 2, Len(far.back)), 0, (Len(got) + Len(near.back) - Ahead) + 1)
    BY <1>1, <2>2, <2>5, <2>6, NumberedRest DEF m
  <2>8. m.n = Len(got) + Len(near.back) + 1 - Ahead
    BY <2>2, <2>7, AheadIsNat
  <2>9. /\ Numbered(Append(near.back, m), Ahead, Len(got))
        /\ Len(Append(near.back, m)) = Len(near.back) + 1
    BY <2>1, <2>2, <2>5, <2>8, AheadIsNat, NumberedAppend
  <2>10. Len(near'.back) = Len(near.back) + 1 /\ Numbered(near'.back, Ahead', Len(got'))
    BY <1>1, <1>4, <2>4, <2>9, Zenon
  <2>11. Ahead <= Len(near.back) + 1
    BY <2>2, <2>5, AheadIsNat
  <2>12. /\ Len(got) + (Len(near.back) + 1) - Ahead = (Len(got) + Len(near.back) - Ahead) + 1
         /\ Len(got) + Len(near.back) - Ahead + Len(far.back)
              = Len(got) + (Len(near.back) + 1) - Ahead + (Len(far.back) - 1)
    <3>1. Len(got) \in Nat /\ Len(near.back) \in Nat /\ Len(far.back) \in Nat /\ Ahead \in Nat
      BY <2>2, AheadIsNat
    <3>2. Len(got) + (Len(near.back) + 1) - Ahead = (Len(got) + Len(near.back) - Ahead) + 1
      BY <3>1
    <3>3. (Len(got) + Len(near.back) - Ahead) + Len(far.back)
            = ((Len(got) + Len(near.back) - Ahead) + 1) + (Len(far.back) - 1)
      BY <2>6, <3>1, LastLonger
    <3> QED
      BY <3>2, <3>3, Zenon
  <2>13. /\ Ahead' <= Len(near'.back)
         /\ Numbered(far'.back, 0, Len(got') + Len(near'.back) - Ahead')
         /\ tsaid' = Len(got') + Len(near'.back) - Ahead' + Len(far'.back)
    BY <1>1, <1>4, <2>3, <2>5, <2>7, <2>10, <2>11, <2>12, Zenon
  <2> QED
    BY <1>1, <1>2, <2>10, <2>13 DEF NearBack
<1> QED
  BY <1>5, <1>6 DEF TunnelRecv, ToSourceOrAbort, ToSource

LEMMA BackwardProxy ==
  ASSUME IInv, ByCommand, Backward,
         Accept \/ ProxyEof \/ ProxyError \/ Recover \/ TunnelEof \/ TunnelError \/ TunnelRefused
  PROVE  Backward'
<1>1. near \in Links /\ far \in Links
  BY DEF IInv, LinksTyped
<1>2. UNCHANGED <<cmd, got, valid, open, shake, trs, tsaid, aborted>>
  BY DEF Accept, ProxyEof, ProxyError, Recover, TunnelEof, TunnelError, TunnelRefused, given, sourceVars, targetVars
<1>3. (tun' = "listening" => tun = "listening") /\ (tun' # "closed" => tun # "closed")
  BY DEF Accept, ProxyEof, ProxyError, Recover, TunnelEof, TunnelError, TunnelRefused, Release, OnClosed,
         ConnectClosed, TunnelHas
<1>4. near'.back = near.back
  <2>1. near' \in {near, EndBack(near), CloseBack(near)}
    BY DEF Accept, ProxyEof, ProxyError, Recover, TunnelEof, TunnelError, TunnelRefused, Release, OnClosed, PassEnd
  <2> QED
    BY <1>1, <2>1, MarkKeeps, CloseKeeps
<1>5. far'.back = far.back
  <2>1. far' \in {far, EndFwd(far), CloseFwd(far)}
    BY DEF Accept, ProxyEof, ProxyError, Recover, TunnelEof, TunnelError, TunnelRefused, Release, OnClosed,
           ConnectClosed
  <2> QED
    BY <1>1, <2>1, MarkKeeps, CloseKeeps
<1> QED
  BY <1>2, <1>3, <1>4, <1>5, BackwardQuiet

LEMMA BackwardSend ==
  ASSUME IInv, ByCommand, EndsTyped, Backward, TargetSend
  PROVE  Backward'
<1>1. near \in Links /\ far \in Links /\ tsaid \in Nat
  BY MaxDataAssumption DEF IInv, LinksTyped
<1>2. /\ UNCHANGED <<cmd, got, valid, open, shake, trs, aborted, tun, near>> /\ target = "open"
      /\ tsaid' = tsaid + 1 /\ tsaid + 1 \in 1 .. MaxData
      /\ far' = SendBack(far, Data(tsaid + 1), tun # "closed")
  BY <1>1, MaxDataAssumption DEF TargetSend, given, sourceVars, proxyVars
<1>3. Data(tsaid + 1) \in Packages /\ Data(tsaid + 1).n = tsaid + 1
  BY <1>2, DataType DEF Data
<1>4. cmd # "associate" /\ Ahead' = Ahead
  BY <1>2 DEF ByCommand, Ahead
<1>5. CASE tun = "closed"
  <2>1. far'.back = far.back
    BY <1>1, <1>2, <1>3, <1>5, SentNowhere
  <2> QED
    BY <1>2, <1>4, <1>5, <2>1 DEF Backward, FarBack, NearBack
<1>6. CASE tun # "closed"
  <2>1. far'.back = Append(far.back, Data(tsaid + 1))
    BY <1>1, <1>2, <1>3, <1>6, SentThere
  <2>2. /\ far.back \in Seq(Packages) /\ Len(far.back) \in Nat /\ Len(near.back) \in Nat /\ Len(got) \in Nat
    BY <1>1, TakenNumbered, LenProperties DEF EndsTyped
  <2>3. ASSUME NEW k \in Nat, Numbered(far.back, 0, k), tsaid = k + Len(far.back)
        PROVE  Numbered(far'.back, 0, k) /\ tsaid' = k + Len(far'.back)
    <3>1. Data(tsaid + 1).n = k + Len(far.back) + 1 - 0 /\ 0 <= Len(far.back) /\ 0 \in Nat
      BY <1>3, <2>2, <2>3
    <3>2. /\ Numbered(Append(far.back, Data(tsaid + 1)), 0, k)
          /\ Len(Append(far.back, Data(tsaid + 1))) = Len(far.back) + 1
      BY <1>3, <2>2, <2>3, <3>1, NumberedAppend
    <3>3. (k + Len(far.back)) + 1 = k + (Len(far.back) + 1)
      BY <2>2
    <3>4. tsaid' = (k + Len(far.back)) + 1
      BY <1>2, <2>3, Zenon
    <3> QED
      BY <2>1, <3>2, <3>3, <3>4, Zenon
  <2>4. ASSUME ~valid
        PROVE  Numbered(far'.back, 0, 0) /\ tsaid' = Len(far'.back)
    <3>1. Numbered(far.back, 0, 0) /\ tsaid = Len(far.back)
      BY <1>4, <1>6, <2>4 DEF Backward, FarBack
    <3>2. tsaid = 0 + Len(far.back) /\ 0 \in Nat
      BY <2>2, <3>1
    <3>3. Numbered(far'.back, 0, 0) /\ tsaid' = 0 + Len(far'.back)
      BY <2>3, <3>1, <3>2
    <3>4. Len(far'.back) \in Nat
      BY <1>3, <2>1, <2>2, AppendProperties
    <3> QED
      BY <3>3, <3>4
  <2>5. ASSUME open, shake \in {"tunnel", "normal"}, valid, ~aborted
        PROVE  /\ Numbered(far'.back, 0, Len(got) + Len(near.back) - Ahead)
               /\ tsaid' = Len(got) + Len(near.back) - Ahead + Len(far'.back)
    <3>1. /\ Numbered(far.back, 0, Len(got) + Len(near.back) - Ahead) /\ Ahead <= Len(near.back)
          /\ tsaid = (Len(got) + Len(near.back) - Ahead) + Len(far.back)
      BY <1>6, <2>5 DEF Backward, NearBack
    <3>2. Len(got) + Len(near.back) - Ahead \in Nat
      BY <2>2, <3>1, AheadIsNat
    <3> QED
      BY <2>3, <3>1, <3>2
  <2>6. FarBack'
    BY <1>2, <2>4 DEF FarBack
  <2>7. NearBack'
    <3>1. open /\ shake \in {"tunnel", "normal"} =>
            /\ Numbered(near.back, Ahead, Len(got))
            /\ cmd = "bind" /\ tun = "listening" => Len(near.back) = Ahead - 1
            /\ valid /\ ~aborted => Ahead <= Len(near.back)
      BY DEF Backward, NearBack
    <3> QED
      BY <1>2, <1>4, <2>5, <3>1, Zenon DEF NearBack
  <2> QED
    BY <1>2, <2>6, <2>7 DEF Backward
<1> QED
  BY <1>5, <1>6

LEMMA BackwardOutside ==
  ASSUME IInv, ByCommand, Backward,
         \/ TargetOpens \/ TargetRecv \/ TargetCloses \/ Breaks
         \/ DatagramSend \/ RelayRecv \/ DatagramRecv \/ DatagramRefused \/ TargetHears \/ TargetAnswers
         \/ UNCHANGED vars
  PROVE  Backward'
<1>1. near \in Links /\ far \in Links
  BY DEF IInv, LinksTyped
<1>2. UNCHANGED <<cmd, got, valid, open, shake, trs, aborted, tun>>
  BY DEF TargetOpens, TargetRecv, TargetCloses, Breaks, DatagramSend, RelayRecv, DatagramRecv, DatagramRefused,
         TargetHears, TargetAnswers, vars, given, sourceVars, proxyVars, targetVars
<1>3. tsaid' = tsaid \/ (~valid /\ cmd = "associate")
  <2>1. tsaid' = tsaid \/ heard # {}
    BY DEF TargetOpens, TargetRecv, TargetCloses, Breaks, DatagramSend, RelayRecv, DatagramRecv, DatagramRefused,
           TargetHears, TargetAnswers, vars, targetVars
  <2> QED
    BY <2>1 DEF ByCommand, IInv, TargetOfTunnel
<1>4. near'.back = near.back
  <2>1. near' \in {near, Reset(near)}
    BY DEF TargetOpens, TargetRecv, TargetCloses, Breaks, DatagramSend, RelayRecv, DatagramRecv, DatagramRefused,
           TargetHears, TargetAnswers, vars
  <2> QED
    BY <1>1, <2>1, MarkKeeps
<1>5. far'.back = far.back
  <2>1. far' \in {far, Reset(far), CloseBack(far)} \/ (far.fwd # << >> /\ far' = TakeFwd(far, 1))
    BY DEF TargetOpens, TargetRecv, TargetCloses, Breaks, DatagramSend, RelayRecv, DatagramRecv, DatagramRefused,
           TargetHears, TargetAnswers, vars
  <2> QED
    BY <1>1, <2>1, MarkKeeps, CloseKeeps, TakeFwdKeeps
<1> QED
  BY <1>2, <1>3, <1>4, <1>5, BackwardQuiet

LEMMA BackwardOverwrites ==
  ASSUME IInv, Backward, ProxyOverwrites
  PROVE  Backward'
<1>1. near \in Links /\ far' = far
  BY DEF IInv, LinksTyped, ProxyOverwrites
<1>2. UNCHANGED <<cmd, got, valid, open, shake, trs, aborted, tun, tsaid>>
  BY DEF ProxyOverwrites, given, sourceVars, proxyVars, targetVars
<1>3. near'.back = near.back
  BY <1>1, OverwriteTypes DEF ProxyOverwrites
<1> QED
  BY <1>1, <1>2, <1>3, BackwardQuiet

LEMMA BackwardKeeps ==
  ASSUME IInv, ByCommand, EndsTyped, "back" \notin garbled => Backward, [Next]_vars
  PROVE  ("back" \notin garbled => Backward)'
<1>1. CASE SourceOverwrites \/ TunnelOverwrites
  BY <1>1 DEF SourceOverwrites, TunnelOverwrites
<1>2. CASE "back" \notin garbled /\ ~SourceOverwrites /\ ~TunnelOverwrites
  BY <1>2, BackwardSource, BackwardRecv, BackwardUp, BackwardTunnel, BackwardProxy, BackwardSend, BackwardOutside,
     BackwardOverwrites
  DEF Next, Source, Proxy
<1> QED
  BY <1>1, <1>2, GarbledStays

Streams ==
  /\ ByCommand /\ EndsTyped /\ DatagramsKnown
  /\ "fwd" \notin garbled => Forward
  /\ "back" \notin garbled => Backward

LEMMA StreamsHold == Spec => []Streams
<1> USE DEF Streams
<1>1. Init => Streams
  <2> SUFFICES ASSUME Init
               PROVE  Streams
    OBVIOUS
  <2>1. ByCommand /\ EndsTyped /\ DatagramsKnown
    BY EmptySeq DEF Init, ByCommand, EndsTyped, DatagramsKnown
  <2>2. far.fwd = << >> /\ far.back = << >>
    BY DEF Init, NoLink
  <2>3. near.fwd = <<Pkg("method")>>
    BY DEF Init, NoLink
  <2>4. Len(<< >>) = 0 /\ Len(<<Pkg("method")>>) <= 1
    BY EmptySeq, PkgType, OneIsShort
  <2>5. Forward
    BY <2>2, <2>3, <2>4, NumberedEmpty DEF Forward, Init
  <2>6. FarBack
    BY <2>2, <2>4, NumberedEmpty DEF FarBack, Init
  <2>7. NearBack
    BY DEF NearBack, Init
  <2>8. Backward
    BY <2>4, <2>6, <2>7 DEF Backward, Init
  <2> QED
    BY <2>1, <2>5, <2>8
<1>2. IInv /\ Streams /\ [Next]_vars => Streams'
  BY ByCommandKeeps, EndsTypedKeeps, DatagramsKeep, ForwardKeeps, BackwardKeeps DEF IInv
<1> QED
  BY <1>1, <1>2, IInvHolds, PTL DEF Spec

\* On a way that no ::recv has written over, what arrives is what was sent, in order and
\* without the handshake, although packages of the other way may have been lost, read as
\* a reply or refused: both ways keep one run of numbers, and the replies the source
\* waits for come before it.  The first datagram a relay sends on is whole, and none is
\* given under a wrong name.
THEOREM StreamIntactHolds == Spec => []StreamIntact
<1>1. Streams => StreamIntact
  <2>1. ASSUME DatagramsKnown, EndsTyped
        PROVE  \A a \in answers : a.from = "target" /\ a.n <= tsaid
    <3> SUFFICES ASSUME NEW a \in answers
                 PROVE  a.from = "target" /\ a.n <= tsaid
      OBVIOUS
    <3> QED
      BY <2>1 DEF DatagramsKnown
  <2>2. ASSUME DatagramsKnown
        PROVE  \A h \in heard : h.n <= said /\ (relayThunk <= 1 => h.whole)
    BY <2>2 DEF DatagramsKnown
  <2>3. DatagramsKnown => \A d \in air : d.to = "target" => d.header = "none"
    BY DEF DatagramsKnown
  <2> QED
    BY <2>1, <2>2, <2>3 DEF Streams, StreamIntact, DatagramsHonest, Forward, Backward
<1> QED
  BY <1>1, StreamsHold, PTL

-----------------------------------------------------------------------------
(* The end of one side reaches the other                                    *)

\* The safety half of EndReaches, for a CONNECT and for the relay of an ASSOCIATE.
\* Whoever has still to learn of an end has a mark of it on its own connection,
\* an end or a reset, or the proxy has one to read that it will act on: the source
\* when the target has closed, the target when the source has (the handlers of
\* on_closed and on_error(CEC_CLOSE_BY_PEER) on both sides of the tunnel); and an
\* open relay has a connection that is served.
NoEndIsLost ==
  /\ cmd = "connect" /\ told /\ target = "closed" =>
       \/ ~open \/ near.backFin \/ near.rst
       \/ sock = "normal" /\ tun = "open" /\ "far" \notin eof /\ (far.backFin \/ far.rst)
  /\ cmd = "connect" /\ target = "open" /\ ~open =>
       \/ far.fwdFin \/ far.rst
       \/ /\ sock = "normal"
          /\ \/ tun = "connecting"
             \/ tun = "open" /\ (near.rst \/ (near.fwdFin /\ "near" \notin eof))
  /\ relay = "open" => sock = "normal" /\ ~aborted

\* An end that has closed has left its mark, and who has read an end had one to read.
EndsMarked ==
  /\ ~open => near.fwdFin \/ near.rst
  /\ near.fwdFin => ~open
  /\ "near" \in eof => near.fwdFin
  /\ target = "closed" => far.backFin \/ far.rst
  /\ "far" \in eof => valid
  /\ tun = "listening" => cmd = "bind"

\* From the moment the tunnel stands the way to the source is marked, or the proxy
\* is there to pass the end of the target on.
WayBack ==
  cmd = "connect" /\ valid =>
    ~open \/ near.backFin \/ near.rst \/ (sock = "normal" /\ tun = "open" /\ "far" \notin eof)

\* The same towards the target.  An end that is read before the tunnel stands is
\* passed on to nobody; the reply to the source that has gone brings the reset.
WayForth ==
  cmd = "connect" /\ target = "open" =>
    \/ far.fwdFin \/ far.rst
    \/ sock = "normal" /\ (tun = "connecting" \/ (tun = "open" /\ ("near" \notin eof \/ near.rst)))

RelayServed == relay = "open" => sock = "normal" /\ ~aborted

EndInv == EndsMarked /\ WayBack /\ WayForth /\ RelayServed

\* The marks of a connection stay, and closing leaves one.
LEMMA MarksStay ==
  ASSUME NEW link \in Links, NEW m, NEW there, NEW n
  PROVE  /\ SendFwd(link, m, there).fwdFin = link.fwdFin /\ SendFwd(link, m, there).backFin = link.backFin
         /\ SendBack(link, m, there).fwdFin = link.fwdFin /\ SendBack(link, m, there).backFin = link.backFin
         /\ link.rst \/ ~there => SendFwd(link, m, there).rst /\ SendBack(link, m, there).rst
         /\ TakeFwd(link, n).fwdFin = link.fwdFin /\ TakeFwd(link, n).backFin = link.backFin
         /\ TakeBack(link, n).fwdFin = link.fwdFin /\ TakeBack(link, n).backFin = link.backFin
         /\ TakeFwd(link, n).rst = link.rst /\ TakeBack(link, n).rst = link.rst
         /\ LeaveFwd(link).fwdFin = link.fwdFin /\ LeaveFwd(link).backFin = link.backFin
         /\ LeaveBack(link).fwdFin = link.fwdFin /\ LeaveBack(link).backFin = link.backFin
         /\ LeaveFwd(link).rst = link.rst /\ LeaveBack(link).rst = link.rst
BY DEF Links, SendFwd, SendBack, Reset, TakeFwd, TakeBack, LeaveFwd, LeaveBack

LEMMA ClosingMarks ==
  ASSUME NEW link \in Links
  PROVE  /\ CloseFwd(link).fwdFin \/ CloseFwd(link).rst
         /\ CloseBack(link).backFin \/ CloseBack(link).rst
         /\ CloseBack(link).fwdFin = link.fwdFin /\ CloseFwd(link).backFin = link.backFin
         /\ EndBack(link).backFin /\ EndBack(link).fwdFin = link.fwdFin
         /\ EndFwd(link).fwdFin /\ EndFwd(link).backFin = link.backFin
         /\ Reset(link).rst /\ Reset(link).fwdFin = link.fwdFin /\ Reset(link).backFin = link.backFin
         /\ link.rst => CloseFwd(link).rst /\ CloseBack(link).rst /\ EndFwd(link).rst /\ EndBack(link).rst
         /\ link.fwdFin => CloseFwd(link).fwdFin
         /\ link.backFin => CloseBack(link).backFin
BY DEF Links, CloseFwd, CloseBack, EndFwd, EndBack, Reset

\* A step that leaves the states alone and takes no mark away.
LEMMA MarksOnly ==
  ASSUME EndInv,
         UNCHANGED <<cmd, open, sock, valid, eof, tun, target, relay, aborted>>,
         near'.fwdFin = near.fwdFin, near.backFin => near'.backFin, near.rst => near'.rst,
         far.fwdFin => far'.fwdFin, far.backFin => far'.backFin, far.rst => far'.rst
  PROVE  EndInv'
BY DEF EndInv, EndsMarked, WayBack, WayForth, RelayServed

\* The source closes its socket and leaves its mark, or goes on.
LEMMA EndsSource ==
  ASSUME IInv, EndInv, SourceRecv \/ SourceEnd \/ SourceSend \/ SourceClose
  PROVE  EndInv'
<1>1. near \in Links /\ UNCHANGED <<cmd, far, sock, valid, eof, tun, target, relay, aborted>>
  BY DEF IInv, LinksTyped, SourceRecv, SourceEnd, SourceSend, SourceClose, given, proxyVars, targetVars, udpVars
<1>2. CASE /\ ~open' /\ (near'.fwdFin \/ near'.rst) /\ (near.fwdFin => near'.fwdFin)
           /\ near.backFin => near'.backFin
           /\ near.rst => near'.rst
  BY <1>1, <1>2 DEF EndInv, EndsMarked, WayBack, WayForth, RelayServed
<1>3. CASE open' = open /\ near'.fwdFin = near.fwdFin /\ near'.backFin = near.backFin /\ (near.rst => near'.rst)
  BY <1>1, <1>3, MarksOnly
<1>4. CASE SourceEnd \/ SourceClose
  BY <1>1, <1>2, <1>4, ClosingMarks DEF SourceEnd, SourceClose, CloseSource
<1>5. CASE SourceSend
  BY <1>1, <1>3, <1>5, MarksStay DEF SourceSend
<1>6. CASE SourceRecv
  <2> DEFINE rest == TakeBack(near, IF shake = "normal" THEN 1 ELSE Split(near.back))
  <2>1. rest \in Links /\ rest.fwdFin = near.fwdFin /\ rest.backFin = near.backFin /\ rest.rst = near.rst
    BY <1>1, <1>6, MarksStay, TakeBackKeeps DEF SourceRecv, Split
  <2>2. CASE CloseSource(rest)
    BY <1>2, <2>1, <2>2, ClosingMarks DEF CloseSource
  <2>3. CASE open' = open /\ near' = rest
    BY <1>3, <2>1, <2>3
  <2>4. CASE open' = open /\ \E is \in {"request", "auth"} : near' = SendFwd(rest, Pkg(is), sock \in {"none", "normal"})
    BY <1>3, <2>1, <2>4, MarksStay
  <2>5. CASE open' = open /\ near' = LeaveBack(near)
    BY <1>1, <1>3, <2>5, MarksStay
  <2> QED
    BY <1>6, <2>2, <2>3, <2>4, <2>5 DEF SourceRecv, TunnelPkg, Refused, sourceVars
<1> QED
  BY <1>4, <1>5, <1>6

\* The steps of the proxy at its connection to the source.
LEMMA EndsNear ==
  ASSUME IInv, ByCommand, EndInv, Accept \/ ProxyRecv \/ ProxyEof \/ ProxyError \/ Recover
  PROVE  EndInv'
<1>1. near \in Links /\ far \in Links /\ UNCHANGED <<cmd, open, target>>
  BY DEF IInv, LinksTyped, Accept, ProxyRecv, ProxyEof, ProxyError, Recover, given, sourceVars, targetVars
<1>2. head = "init" => target = "none" /\ tun = "none" /\ relay = "none" /\ ~valid
  BY DEF IInv, Fresh, TargetOfTunnel
<1>3. CASE Accept
  <2>1. sock' = "normal" /\ ~aborted /\ UNCHANGED <<near, far, valid, eof, tun, relay, aborted>>
    BY <1>3 DEF Accept, udpVars
  <2> QED
    BY <1>1, <2>1 DEF EndInv, EndsMarked, WayBack, WayForth, RelayServed
<1>4. CASE ProxyRecv
  <2> DEFINE rest == TakeFwd(near, 1)
  <2>1. /\ rest \in Links /\ rest.fwdFin = near.fwdFin /\ rest.backFin = near.backFin /\ rest.rst = near.rst
        /\ sock = "normal" /\ ~aborted
    BY <1>1, <1>4, MarksStay, TakeFwdKeeps DEF ProxyRecv
  <2>2. CASE MethodPkg(rest) \/ AuthPkg(rest)
    <3>1. UNCHANGED <<far, sock, valid, eof, tun, relay, aborted>>
          /\ \E is \in {"granted", "userpsw", "refused", "denied"} : near' = SendBack(rest, Pkg(is), open)
      BY <2>2 DEF MethodPkg, AuthPkg, ToSource
    <3>2. near'.fwdFin = near.fwdFin /\ near'.backFin = near.backFin /\ (near.rst => near'.rst)
      BY <2>1, <3>1, MarksStay
    <3>3. UNCHANGED <<cmd, open, sock, valid, eof, tun, target, relay, aborted>>
      BY <1>1, <3>1
    <3>4. (far.fwdFin => far'.fwdFin) /\ (far.backFin => far'.backFin) /\ (far.rst => far'.rst)
      BY <3>1
    <3> HIDE DEF rest
    <3> QED
      BY <3>2, <3>3, <3>4, MarksOnly
  <2>3. CASE head = "init" /\ TunnelRequest(rest)
    <3>1. /\ near'.fwdFin = near.fwdFin /\ (near.rst => near'.rst)
          /\ UNCHANGED <<far, valid, eof, aborted>>
          /\ tun' = "listening" => cmd = "bind"
          /\ relay' = "open" => sock' = "normal"
      BY <1>1, <1>2, <2>1, <2>3, MarksStay, ClosingMarks
      DEF TunnelRequest, ConnectInit, BindInit, AssociateInit, ToSource, Release, OnClosed, ConnectClosed,
          AssociateClosed, TunnelHas
    <3> QED
      BY <1>1, <1>2, <2>1, <2>3, <3>1 DEF EndInv, EndsMarked, WayBack, WayForth, RelayServed
  <2>4. CASE Relay(rest, Head(near.fwd))
    <3>1. UNCHANGED <<sock, valid, eof, tun, relay, aborted>> /\ near' = rest
          /\ far' \in {far, SendFwd(far, Head(near.fwd), target = "open")}
      BY <2>4 DEF Relay
    <3>2. far'.fwdFin = far.fwdFin /\ far'.backFin = far.backFin /\ (far.rst => far'.rst)
      BY <1>1, <3>1, MarksStay
    <3>3. near'.fwdFin = near.fwdFin /\ near'.backFin = near.backFin /\ near'.rst = near.rst
      BY <2>1, <3>1
    <3>4. UNCHANGED <<cmd, open, sock, valid, eof, tun, target, relay, aborted>>
      BY <1>1, <3>1
    <3> HIDE DEF rest
    <3> QED
      BY <3>2, <3>3, <3>4, MarksOnly
  <2>5. CASE near' = LeaveFwd(near) /\ UNCHANGED <<far, sock, valid, eof, tun, relay, aborted>>
    <3>1. near'.fwdFin = near.fwdFin /\ near'.backFin = near.backFin /\ near'.rst = near.rst
      BY <1>1, <2>5, MarksStay
    <3> QED
      BY <1>1, <2>5, <3>1, MarksOnly
  <2>6. CASE head = "init" /\ Release(rest) /\ UNCHANGED <<head, valid, eof, aborted>>
    <3>1. /\ near'.fwdFin = near.fwdFin /\ (near.rst => near'.rst)
          /\ UNCHANGED <<far, tun, relay>>
      BY <1>1, <1>2, <2>1, <2>6, ClosingMarks DEF Release, OnClosed, ConnectClosed, AssociateClosed, TunnelHas
    <3> QED
      BY <1>1, <1>2, <2>1, <2>6, <3>1 DEF EndInv, EndsMarked, WayBack, WayForth, RelayServed
  <2> QED
    BY <1>4, <2>2, <2>3, <2>4, <2>5, <2>6 DEF ProxyRecv, GarbledPkg
<1>5. CASE ProxyEof
  <2>1. near.fwdFin /\ eof' = eof \cup {"near"} /\ UNCHANGED <<valid, aborted>> /\ ~aborted /\ sock = "normal"
    BY <1>5 DEF ProxyEof
  <2>2. CASE head = "init" /\ Release(near)
    <3>1. /\ near'.fwdFin = near.fwdFin /\ (near.rst => near'.rst)
          /\ UNCHANGED <<far, tun, relay>>
      BY <1>1, <1>2, <2>2, ClosingMarks DEF Release, OnClosed, ConnectClosed, AssociateClosed, TunnelHas
    <3> QED
      BY <1>1, <1>2, <2>1, <2>2, <3>1 DEF EndInv, EndsMarked, WayBack, WayForth, RelayServed
  <2>3. CASE head = "term" /\ far' = (IF tun = "open" THEN EndFwd(far) ELSE far) /\ UNCHANGED <<near, sock, tun, relay>>
    <3>1. /\ far.rst => far'.rst
          /\ far.backFin => far'.backFin
          /\ far.fwdFin \/ tun = "open" => far'.fwdFin
      BY <1>1, <2>3, ClosingMarks
    <3> QED
      BY <1>1, <2>1, <2>3, <3>1 DEF EndInv, EndsMarked, WayBack, WayForth, RelayServed
  <2> QED
    BY <1>5, <2>2, <2>3 DEF ProxyEof
<1>6. CASE ProxyError
  <2>1. near.rst /\ Release(near) /\ UNCHANGED <<valid, eof, aborted>>
    BY <1>6 DEF ProxyError
  <2>2. near'.rst /\ near'.fwdFin = near.fwdFin
    BY <1>1, <2>1, ClosingMarks DEF Release, OnClosed
  <2>3. /\ far.rst => far'.rst
        /\ far.backFin => far'.backFin
        /\ far.fwdFin => far'.fwdFin
        /\ cmd = "connect" /\ target = "open" /\ TunnelHas => far'.fwdFin \/ far'.rst
        /\ tun' = "listening" => tun = "listening"
        /\ relay' # "open"
    BY <1>1, <2>1, ClosingMarks DEF Release, OnClosed, ConnectClosed, AssociateClosed
  <2>4. tun \in {"connecting", "open"} => TunnelHas
    BY DEF TunnelHas
  <2>5. EndsMarked'
    BY <1>1, <2>1, <2>2, <2>3 DEF EndInv, EndsMarked
  <2>6. WayBack' /\ WayForth' /\ RelayServed'
    BY <1>1, <2>2, <2>3, <2>4 DEF EndInv, WayBack, WayForth, RelayServed
  <2> QED
    BY <2>5, <2>6 DEF EndInv
<1>7. CASE Recover
  <2>1. /\ sock = "released" /\ UNCHANGED <<near, far, valid, eof, relay, aborted>>
        /\ tun' = "listening" => tun = "listening"
    BY <1>7 DEF Recover, udpVars
  <2> QED
    BY <1>1, <2>1 DEF EndInv, EndsMarked, WayBack, WayForth, RelayServed
<1> QED
  BY <1>3, <1>4, <1>5, <1>6, <1>7

\* The steps of the proxy at its connection to the target.
LEMMA EndsFar ==
  ASSUME IInv, ByCommand, TunnelFollows, EndInv,
         TunnelUp \/ TunnelRefused \/ TunnelRecv \/ TunnelEof \/ TunnelError
  PROVE  EndInv'
<1>1. near \in Links /\ far \in Links /\ UNCHANGED <<cmd, open, target, relay>>
  BY DEF IInv, LinksTyped, TunnelUp, TunnelRefused, TunnelRecv, TunnelEof, TunnelError, given, sourceVars, targetVars,
         udpVars
<1>2. tun # "none" /\ tun' # "listening" /\ cmd # "associate" /\ relay = "none"
  BY DEF ByCommand, TunnelUp, TunnelRefused, TunnelRecv, TunnelEof, TunnelError
<1>3. RelayServed'
  BY <1>1, <1>2 DEF RelayServed
<1>4. cmd = "connect" /\ tun \in {"connecting", "open"} => sock = "normal"
  BY DEF TunnelFollows
<1>5. CASE TunnelUp
  <2>1. /\ valid' = TRUE /\ tun' = "open" /\ UNCHANGED <<far, sock, eof>> /\ ~valid
        /\ cmd = "connect" => tun = "connecting" /\ sock = "normal"
        /\ near' \in {near, SendBack(near, Pkg("reply"), open)}
        /\ sock = "normal" => near' = SendBack(near, Pkg("reply"), open)
    BY <1>2, <1>4, <1>5 DEF TunnelUp, ToSourceOrAbort, ToSource, ByCommand, EndInv, EndsMarked
  <2>2. /\ near'.fwdFin = near.fwdFin /\ (near.rst => near'.rst)
        /\ sock = "normal" /\ ~open => near'.rst
    BY <1>1, <2>1, MarksStay
  <2> QED
    BY <1>1, <1>2, <1>3, <2>1, <2>2 DEF EndInv, EndsMarked, WayBack, WayForth
<1>6. CASE TunnelRefused
  <2>1. target = "none" /\ ~valid /\ UNCHANGED <<near, far, valid, eof>>
    BY <1>6 DEF TunnelRefused, IInv, TargetOfTunnel
  <2> QED
    BY <1>1, <1>2, <1>3, <2>1 DEF EndInv, EndsMarked, WayBack, WayForth
<1>7. CASE TunnelRecv
  <2>1. /\ UNCHANGED <<sock, valid, eof, tun>> /\ far' = TakeBack(far, 1)
        /\ near' \in {near, SendBack(near, Head(far.back), open)}
    BY <1>7 DEF TunnelRecv, ToSourceOrAbort, ToSource
  <2>2. /\ near'.fwdFin = near.fwdFin /\ near'.backFin = near.backFin /\ (near.rst => near'.rst)
        /\ far'.fwdFin = far.fwdFin /\ far'.backFin = far.backFin /\ far'.rst = far.rst
    BY <1>1, <2>1, MarksStay
  <2> QED
    BY <1>1, <1>2, <1>3, <2>1, <2>2 DEF EndInv, EndsMarked, WayBack, WayForth
<1>8. CASE TunnelEof
  <2>1. /\ UNCHANGED <<far, sock, valid, tun>> /\ eof' = eof \cup {"far"} /\ tun = "open" /\ valid
        /\ near' \in {near, EndBack(near)}
        /\ cmd = "connect" => near' = EndBack(near)
    BY <1>4, <1>8 DEF TunnelEof, PassEnd, IInv, TargetOfTunnel
  <2>2. /\ near'.fwdFin = near.fwdFin /\ (near.rst => near'.rst)
        /\ cmd = "connect" => near'.backFin
    BY <1>1, <2>1, ClosingMarks
  <2> QED
    BY <1>1, <1>2, <1>3, <2>1, <2>2 DEF EndInv, EndsMarked, WayBack, WayForth
<1>9. CASE TunnelError
  <2>1. /\ UNCHANGED <<far, valid, eof>> /\ far.rst
        /\ near' \in {near, CloseBack(near)}
        /\ cmd = "connect" => near' = CloseBack(near)
    BY <1>4, <1>9 DEF TunnelError
  <2>2. /\ near'.fwdFin = near.fwdFin /\ (near.rst => near'.rst)
        /\ cmd = "connect" => near'.backFin \/ near'.rst
    BY <1>1, <2>1, ClosingMarks
  <2> QED
    BY <1>1, <1>2, <1>3, <2>1, <2>2 DEF EndInv, EndsMarked, WayBack, WayForth
<1> QED
  BY <1>5, <1>6, <1>7, <1>8, <1>9

\* The target, the network and the datagrams.
LEMMA EndsOutside ==
  ASSUME IInv, ByCommand, TunnelFollows, EndInv,
         \/ TargetOpens \/ TargetRecv \/ TargetSend \/ TargetCloses \/ Breaks
         \/ DatagramSend \/ RelayRecv \/ DatagramRecv \/ DatagramRefused \/ TargetHears \/ TargetAnswers
         \/ UNCHANGED vars
  PROVE  EndInv'
<1>1. near \in Links /\ far \in Links /\ UNCHANGED <<cmd, open, sock, valid, eof, tun, relay, aborted>>
  BY DEF IInv, LinksTyped, TargetOpens, TargetRecv, TargetSend, TargetCloses, Breaks, DatagramSend, RelayRecv,
         DatagramRecv, DatagramRefused, TargetHears, TargetAnswers, given, sourceVars, proxyVars, udpVars, vars
<1>2. CASE TargetOpens
  <2>1. /\ target' = "open" /\ UNCHANGED <<near, far>>
        /\ cmd = "connect" => tun = "connecting" /\ sock = "normal"
    BY <1>2 DEF TargetOpens, EndInv, EndsMarked, TunnelFollows
  <2> QED
    BY <1>1, <2>1 DEF EndInv, EndsMarked, WayBack, WayForth, RelayServed
<1>3. CASE TargetRecv \/ TargetSend
  <2>1. /\ UNCHANGED <<near, target>>
        /\ far' = TakeFwd(far, 1) \/ far' = SendBack(far, Data(tsaid'), tun # "closed")
    BY <1>3 DEF TargetRecv, TargetSend
  <2>2. far'.fwdFin = far.fwdFin /\ far'.backFin = far.backFin /\ (far.rst => far'.rst)
    BY <1>1, <2>1, MarksStay
  <2> QED
    BY <1>1, <2>1, <2>2, MarksOnly
<1>4. CASE TargetCloses
  <2>1. target' = "closed" /\ near' = near /\ (far'.backFin \/ far'.rst)
    BY <1>1, <1>4, ClosingMarks DEF TargetCloses
  <2> QED
    BY <1>1, <2>1 DEF EndInv, EndsMarked, WayBack, WayForth, RelayServed
<1>5. CASE Breaks
  <2>1. target' = target /\ near' \in {near, Reset(near)} /\ far' \in {far, Reset(far)}
    BY <1>5 DEF Breaks, targetVars
  <2> QED
    BY <1>1, <2>1, ClosingMarks, MarksOnly
<1>6. CASE \/ DatagramSend \/ RelayRecv \/ DatagramRecv \/ DatagramRefused \/ TargetHears \/ TargetAnswers
           \/ UNCHANGED vars
  <2>1. UNCHANGED <<near, far, target>>
    BY <1>6 DEF DatagramSend, RelayRecv, DatagramRecv, DatagramRefused, TargetHears, TargetAnswers, targetVars, vars
  <2> QED
    BY <1>1, <2>1, MarksOnly
<1> QED
  BY <1>2, <1>3, <1>4, <1>5, <1>6

\* Bytes that are written over take no mark away.
LEMMA EndsOverwrites ==
  ASSUME IInv, EndInv, SourceOverwrites \/ ProxyOverwrites \/ TunnelOverwrites
  PROVE  EndInv'
<1>1. near \in Links /\ far \in Links /\ UNCHANGED <<cmd, open, sock, valid, eof, tun, target, relay, aborted>>
  BY DEF IInv, LinksTyped, SourceOverwrites, ProxyOverwrites, TunnelOverwrites, given, sourceVars, proxyVars,
         targetVars, udpVars
<1>2. ASSUME NEW link \in Links, NEW q
      PROVE  /\ [link EXCEPT !.fwd = q].fwdFin = link.fwdFin /\ [link EXCEPT !.fwd = q].backFin = link.backFin
             /\ [link EXCEPT !.back = q].fwdFin = link.fwdFin /\ [link EXCEPT !.back = q].backFin = link.backFin
             /\ [link EXCEPT !.fwd = q].rst = link.rst /\ [link EXCEPT !.back = q].rst = link.rst
  BY DEF Links
<1>4. /\ near'.fwdFin = near.fwdFin /\ near'.backFin = near.backFin /\ near'.rst = near.rst
      /\ far'.fwdFin = far.fwdFin /\ far'.backFin = far.backFin /\ far'.rst = far.rst
  <2>1. CASE SourceOverwrites
    <3>1. far' = far /\ \E i, j \in 1 .. Len(near.back) : near' = [near EXCEPT !.back = Jumbled(@, i, j)]
      BY <2>1 DEF SourceOverwrites
    <3> QED
      BY <1>1, <1>2, <3>1
  <2>2. CASE ProxyOverwrites
    <3>1. far' = far /\ \E i, j \in 1 .. Len(near.fwd) : near' = [near EXCEPT !.fwd = Jumbled(@, i, j)]
      BY <2>2 DEF ProxyOverwrites
    <3> QED
      BY <1>1, <1>2, <3>1
  <2>3. CASE TunnelOverwrites
    <3>1. near' = near /\ \E i, j \in 1 .. Len(far.back) : far' = [far EXCEPT !.back = Jumbled(@, i, j)]
      BY <2>3 DEF TunnelOverwrites
    <3> QED
      BY <1>1, <1>2, <3>1
  <2> QED
    BY <2>1, <2>2, <2>3
<1> QED
  BY <1>1, <1>4, MarksOnly

\* No end is lost on its way through the proxy, wherever it comes between the
\* handshake, the connect of the tunnel and the close of the other side: a party
\* that waits for ever is one whose reactor does not serve it.
THEOREM NoEndIsLostHolds == Spec => []NoEndIsLost
<1>1. Init => EndInv
  BY DEF Init, NoLink, EndInv, EndsMarked, WayBack, WayForth, RelayServed
<1>2. IInv /\ Streams /\ TunnelFollows /\ EndInv /\ [Next]_vars => EndInv'
  BY EndsSource, EndsNear, EndsFar, EndsOutside, EndsOverwrites DEF Next, Source, Proxy, Streams
<1>3. IInv /\ Streams /\ EndInv => NoEndIsLost
  <2> SUFFICES ASSUME IInv, Streams, EndInv
               PROVE  NoEndIsLost
    OBVIOUS
  <2>1. cmd = "connect" /\ told => valid
    BY DEF IInv, ToldIsNormal, Stands, Streams, ByCommand
  <2> QED
    BY <2>1 DEF EndInv, EndsMarked, WayBack, WayForth, RelayServed, NoEndIsLost
<1> QED
  BY <1>1, <1>2, <1>3, IInvHolds, StreamsHold, TunnelFollowsHolds, PTL DEF Spec

-----------------------------------------------------------------------------
(* Types                                                                    *)

\* The states of the parties and of their connections, without what is on the way.
StatesTyped ==
  /\ cmd \in {"connect", "bind", "associate"} /\ named \in BOOLEAN
  /\ shake \in {"none", "method", "auth", "tunnel", "normal"}
  /\ trs \in {"none", "listen", "target"}
  /\ told \in BOOLEAN /\ open \in BOOLEAN
  /\ sock \in {"none", "normal", "released", "gone"}
  /\ sshake \in {"none", "method", "auth", "tunnel", "normal"}
  /\ head \in {"init", "term"}
  /\ valid \in BOOLEAN
  /\ eof \subseteq {"near", "far"}
  /\ tun \in {"none", "connecting", "failed", "listening", "open", "closed", "lost"}
  /\ udp \in {"none", "waiting", "normal", "closed"}
  /\ relay \in {"none", "failed", "open", "closed"}
  /\ broken \in BOOLEAN /\ aborted \in BOOLEAN

\* What has been received, data of the other side or bytes that were written over, and
\* the datagrams.
ReceiptsTyped ==
  /\ got \in Seq(0 .. MaxData) /\ tgot \in Seq(0 .. MaxData)
  /\ garbled \subseteq {"back", "fwd"}
  /\ air \subseteq Datagrams /\ relayThunk \in 0 .. 2 /\ udpThunk \in 0 .. 2
  /\ heard \subseteq [n : 1 .. MaxData, whole : BOOLEAN]
  /\ answers \subseteq [from : {"target"}, n : 1 .. MaxData, whole : BOOLEAN]

LEMMA StatesStayTyped ==
  ASSUME StatesTyped, [Next]_vars
  PROVE  StatesTyped'
<1> USE DEF StatesTyped
<1>1. CASE SourceRecv
  <2>1. UNCHANGED <<cmd, named, sock, sshake, head, valid, eof, tun, relay, broken, aborted>>
    BY <1>1 DEF SourceRecv, given, proxyVars
  <2>2. /\ shake' \in {"none", "method", "auth", "tunnel", "normal"}
        /\ trs' \in {"none", "listen", "target"}
        /\ told' \in BOOLEAN /\ open' \in BOOLEAN
        /\ udp' \in {"none", "waiting", "normal", "closed"}
    BY <1>1 DEF SourceRecv, CloseSource, Refused, RequestMade, RequestFails, TunnelPkg, ConnectPkg, BindPkg,
                AssociatePkg, sourceVars
  <2> QED
    BY <2>1, <2>2
<1>2. CASE SourceEnd \/ SourceSend \/ SourceClose
  <2>1. UNCHANGED <<cmd, named, trs, told, sock, sshake, head, valid, eof, tun, relay, broken, aborted>>
    BY <1>2 DEF SourceEnd, SourceSend, SourceClose, CloseSource, given, proxyVars, udpVars
  <2>2. /\ shake' \in {shake, "none"}
        /\ udp' \in {udp, "closed"}
    BY <1>2 DEF SourceEnd, SourceSend, SourceClose, CloseSource, udpVars
  <2>3. open' \in BOOLEAN
    BY <1>2 DEF SourceEnd, SourceSend, SourceClose, CloseSource
  <2> QED
    BY <2>1, <2>2, <2>3
<1>3. CASE ProxyRecv
  <2>1. UNCHANGED <<cmd, named, shake, trs, told, open, udp, broken>>
    BY <1>3 DEF ProxyRecv, given, sourceVars
  <2>2. /\ sock' \in {"normal", "released"}
        /\ sshake' \in {"none", "method", "auth", "tunnel", "normal"}
        /\ head' \in {"init", "term"}
        /\ tun' \in {"none", "connecting", "failed", "listening", "open", "closed", "lost"}
        /\ relay' \in {"none", "failed", "open", "closed"}
        /\ UNCHANGED <<valid, eof, aborted>>
    BY <1>3 DEF ProxyRecv, MethodPkg, AuthPkg, TunnelRequest, ConnectInit, BindInit, AssociateInit, GarbledPkg,
                Release, OnClosed, ConnectClosed, AssociateClosed, Relay
  <2> QED
    BY <2>1, <2>2
<1>4. CASE ProxyEof \/ ProxyError
  <2>1. UNCHANGED <<cmd, named, shake, trs, told, open, sshake, head, valid, udp, broken, aborted>>
    BY <1>4 DEF ProxyEof, ProxyError, given, sourceVars
  <2>2. /\ sock' \in {sock, "released"}
        /\ eof' \subseteq eof \cup {"near"}
        /\ tun' \in {tun, "closed"}
        /\ relay' \in {relay, "closed"}
    BY <1>4 DEF ProxyEof, ProxyError, Release, OnClosed, ConnectClosed, AssociateClosed
  <2> QED
    BY <2>1, <2>2
<1>5. CASE Accept \/ Recover \/ TunnelUp \/ TunnelRefused \/ TunnelRecv \/ TunnelEof \/ TunnelError
  <2>1. UNCHANGED <<cmd, named, shake, trs, told, open, head, udp, relay, broken>>
    BY <1>5 DEF Accept, Recover, TunnelUp, TunnelRefused, TunnelRecv, TunnelEof, TunnelError, given, sourceVars, udpVars
  <2>2. /\ sock' \in {sock, "normal", "released", "gone"}
        /\ sshake' \in {sshake, "method"}
        /\ eof' \subseteq eof \cup {"far"}
        /\ tun' \in {tun, "open", "closed", "lost", "failed"}
    BY <1>5 DEF Accept, Recover, TunnelUp, TunnelRefused, TunnelRecv, TunnelEof, TunnelError, PassEnd
  <2>3. valid' \in BOOLEAN
    BY <1>5 DEF Accept, Recover, TunnelUp, TunnelRefused, TunnelRecv, TunnelEof, TunnelError
  <2>4. aborted' \in BOOLEAN
    BY <1>5 DEF Accept, Recover, TunnelUp, TunnelRefused, TunnelRecv, TunnelEof, TunnelError, ToSourceOrAbort
  <2> QED
    BY <2>1, <2>2, <2>3, <2>4
<1>6. CASE \/ TargetOpens \/ TargetRecv \/ TargetSend \/ TargetCloses \/ Breaks
           \/ DatagramSend \/ RelayRecv \/ DatagramRecv \/ DatagramRefused \/ TargetHears \/ TargetAnswers
  <2>1. UNCHANGED <<cmd, named, shake, trs, told, open, sock, sshake, head, valid, eof, tun, relay, aborted>>
    BY <1>6 DEF TargetOpens, TargetRecv, TargetSend, TargetCloses, Breaks, DatagramSend, RelayRecv, DatagramRecv,
                DatagramRefused, TargetHears, TargetAnswers, given, sourceVars, proxyVars, udpVars
  <2>2. udp' \in {udp, "closed"}
    BY <1>6 DEF TargetOpens, TargetRecv, TargetSend, TargetCloses, Breaks, DatagramSend, RelayRecv, DatagramRecv,
                DatagramRefused, TargetHears, TargetAnswers, udpVars
  <2>3. broken' \in BOOLEAN
    BY <1>6 DEF TargetOpens, TargetRecv, TargetSend, TargetCloses, Breaks, DatagramSend, RelayRecv, DatagramRecv,
                DatagramRefused, TargetHears, TargetAnswers
  <2> QED
    BY <2>1, <2>2, <2>3
<1>7. CASE SourceOverwrites \/ ProxyOverwrites \/ TunnelOverwrites \/ UNCHANGED vars
  BY <1>7 DEF SourceOverwrites, ProxyOverwrites, TunnelOverwrites, vars, given, sourceVars, proxyVars, udpVars
<1> QED
  BY <1>1, <1>2, <1>3, <1>4, <1>5, <1>6, <1>7 DEF Next, Source, Proxy

\* A package bears the number of its data, or none.
LEMMA TakenIsData ==
  ASSUME NEW s \in Seq(Packages), s # << >>
  PROVE  Head(s).n \in 0 .. MaxData
<1>1. Head(s) \in Packages
  BY HeadTailProperties
<1> QED
  BY <1>1, MaxDataAssumption DEF Packages

LEMMA ReceiptsStayTyped ==
  ASSUME IInv, Streams, ReceiptsTyped, [Next]_vars, LinksTyped'
  PROVE  ReceiptsTyped'
<1>1. /\ near \in Links /\ far \in Links
      /\ said \in 0 .. MaxData /\ tsaid \in 0 .. MaxData /\ said' \in 0 .. MaxData /\ tsaid' \in 0 .. MaxData
  BY DEF IInv, LinksTyped
<1> USE DEF airVars, thunks
<1>2. CASE SourceRecv
  <2>1. /\ near.back # << >> /\ UNCHANGED <<tgot, garbled, airVars>>
        /\ got' = got \/ got' = Append(got, Head(near.back).n)
    BY <1>2 DEF SourceRecv, CloseSource, Refused, TunnelPkg, sourceVars, targetVars
  <2>2. near.back \in Seq(Packages)
    BY <1>1 DEF Links
  <2>3. got' \in Seq(0 .. MaxData)
    <3>1. Head(near.back).n \in 0 .. MaxData
      BY <2>1, <2>2, TakenIsData
    <3>2. Append(got, Head(near.back).n) \in Seq(0 .. MaxData)
      BY <3>1, AppendProperties DEF ReceiptsTyped
    <3> QED
      BY <2>1, <3>2 DEF ReceiptsTyped
  <2> QED
    BY <2>1, <2>3 DEF ReceiptsTyped
<1>3. CASE TargetRecv
  <2>1. far.fwd # << >> /\ UNCHANGED <<got, garbled, airVars>> /\ tgot' = Append(tgot, Head(far.fwd).n)
    BY <1>3 DEF TargetRecv, sourceVars, udpVars
  <2>2. far.fwd \in Seq(Packages)
    BY <1>1 DEF Links
  <2>3. tgot' \in Seq(0 .. MaxData)
    BY <2>1, <2>2, TakenIsData, AppendProperties DEF ReceiptsTyped
  <2> QED
    BY <2>1, <2>3 DEF ReceiptsTyped
<1>4. CASE UNCHANGED <<got, tgot, airVars>> /\ garbled' \subseteq garbled \cup {"back", "fwd"}
  BY <1>4 DEF ReceiptsTyped
<1>5. CASE SourceEnd \/ SourceSend \/ SourceClose \/ SourceOverwrites \/ ProxyOverwrites \/ TunnelOverwrites
  BY <1>4, <1>5 DEF SourceEnd, SourceSend, SourceClose, SourceOverwrites, ProxyOverwrites, TunnelOverwrites,
                    CloseSource, sourceVars, targetVars, udpVars
<1>6. CASE \/ Accept \/ ProxyRecv \/ ProxyEof \/ ProxyError \/ Recover
           \/ TunnelUp \/ TunnelRefused \/ TunnelRecv \/ TunnelEof \/ TunnelError
  BY <1>4, <1>6 DEF Accept, ProxyRecv, ProxyEof, ProxyError, Recover, TunnelUp, TunnelRefused, TunnelRecv, TunnelEof,
                    TunnelError, sourceVars, targetVars, udpVars
<1>7. CASE TargetOpens \/ TargetSend \/ TargetCloses \/ Breaks \/ DatagramRefused
  BY <1>4, <1>7 DEF TargetOpens, TargetSend, TargetCloses, Breaks, DatagramRefused, sourceVars, targetVars, udpVars
<1>8. CASE DatagramSend \/ TargetAnswers
  <2>1. /\ UNCHANGED <<got, tgot, garbled, answers, heard, relayThunk, udpThunk>>
        /\ \/ air' = air \cup {Datagram("source", "relay", "target", said', TRUE)} /\ said' = said + 1
           \/ air' = air \cup {Datagram("target", "relay", "none", tsaid', TRUE)} /\ tsaid' = tsaid + 1
    BY <1>8 DEF DatagramSend, TargetAnswers, sourceVars, targetVars
  <2>2. /\ said' = said + 1 => Datagram("source", "relay", "target", said', TRUE) \in Datagrams
        /\ tsaid' = tsaid + 1 => Datagram("target", "relay", "none", tsaid', TRUE) \in Datagrams
    BY <1>1, MaxDataAssumption DEF Datagram, Datagrams
  <2> QED
    BY <2>1, <2>2 DEF ReceiptsTyped
<1>9. CASE RelayRecv
  <2>1. PICK d \in air : d.to = "relay" /\ air' = air \cup {Relayed(d)}
    BY <1>9 DEF RelayRecv
  <2>2. d \in Datagrams /\ (d.from = "source" => d.header = "target") /\ d.from \in {"source", "target"}
    BY <2>1 DEF ReceiptsTyped, Streams, DatagramsKnown
  <2>3. d.n \in 1 .. MaxData /\ (d.whole /\ relayThunk = 0) \in BOOLEAN
    BY <2>2 DEF Datagrams
  <2>4. d.from = "source" => Relayed(d) \in Datagrams
    BY <2>2, <2>3 DEF Relayed, Datagram, Datagrams
  <2>5. d.from = "target" => Relayed(d) \in Datagrams
    BY <2>2, <2>3 DEF Relayed, Datagram, Datagrams
  <2>6. UNCHANGED <<got, tgot, garbled, answers, heard, udpThunk>> /\ relayThunk' \in 0 .. 2
    BY <1>9 DEF RelayRecv, sourceVars, targetVars, Counted
  <2> QED
    BY <2>1, <2>2, <2>4, <2>5, <2>6 DEF ReceiptsTyped
<1>10. CASE DatagramRecv
  <2>1. PICK d \in air :
          /\ d.to = "source"
          /\ answers' = answers \cup {[from |-> d.header, n |-> d.n, whole |-> d.whole /\ udpThunk = 0]}
    BY <1>10 DEF DatagramRecv
  <2>2. d.header = "target" /\ d.n \in 1 .. MaxData /\ (d.whole /\ udpThunk = 0) \in BOOLEAN
    <3>1. d \in Datagrams
      BY DEF ReceiptsTyped
    <3> QED
      BY <2>1, <3>1 DEF Datagrams, Streams, DatagramsKnown
  <2>3. [from |-> d.header, n |-> d.n, whole |-> d.whole /\ udpThunk = 0]
          \in [from : {"target"}, n : 1 .. MaxData, whole : BOOLEAN]
    BY <2>2
  <2>4. UNCHANGED <<got, tgot, garbled, air, heard, relayThunk>> /\ udpThunk' \in 0 .. 2
    BY <1>10 DEF DatagramRecv, sourceVars, targetVars, Counted
  <2> QED
    BY <2>1, <2>3, <2>4 DEF ReceiptsTyped
<1>11. CASE TargetHears
  <2>1. PICK d \in air : heard' = heard \cup {[n |-> d.n, whole |-> d.whole]}
    BY <1>11 DEF TargetHears
  <2>2. d \in Datagrams
    BY DEF ReceiptsTyped
  <2>3. [n |-> d.n, whole |-> d.whole] \in [n : 1 .. MaxData, whole : BOOLEAN]
    BY <2>2 DEF Datagrams
  <2>4. UNCHANGED <<got, tgot, garbled, air, answers, relayThunk, udpThunk>>
    BY <1>11 DEF TargetHears, sourceVars, targetVars
  <2> QED
    BY <2>1, <2>3, <2>4 DEF ReceiptsTyped
<1>12. CASE UNCHANGED vars
  BY <1>4, <1>12 DEF vars, sourceVars, targetVars, udpVars
<1> QED
  BY <1>2, <1>3, <1>5, <1>6, <1>7, <1>8, <1>9, <1>10, <1>11, <1>12 DEF Next, Source, Proxy

\* Whatever the parties, the network and the proxy do, and whatever is written over, the
\* session keeps its types: every datagram has a sender and a receiver that exist, and an
\* answer is never given to the source's application without the target's name.
THEOREM TypeCorrect == Spec => []TypeOK
<1>1. Init => StatesTyped /\ ReceiptsTyped
  <2>1. << >> \in Seq(0 .. MaxData)
    BY EmptySeq
  <2>2. Init => StatesTyped
    BY DEF Init, StatesTyped
  <2>3. Init => ReceiptsTyped
    <3> SUFFICES ASSUME Init
                 PROVE  ReceiptsTyped
      OBVIOUS
    <3>1. /\ got = << >> /\ tgot = << >> /\ garbled = {} /\ air = {} /\ heard = {} /\ answers = {}
          /\ relayThunk = 0 /\ udpThunk = 0
      BY DEF Init
    <3> QED
      BY <2>1, <3>1 DEF ReceiptsTyped
  <2> QED
    BY <2>2, <2>3
<1>2. IInv /\ IInv' /\ Streams /\ StatesTyped /\ ReceiptsTyped /\ [Next]_vars => (StatesTyped /\ ReceiptsTyped)'
  BY StatesStayTyped, ReceiptsStayTyped DEF IInv
<1>3. IInv /\ Streams /\ StatesTyped /\ ReceiptsTyped => TypeOK
  BY DEF IInv, LinksTyped, Streams, EndsTyped, StatesTyped, ReceiptsTyped, TypeOK
<1> QED
  BY <1>1, <1>2, <1>3, IInvHolds, StreamsHold, PTL DEF Spec

-----------------------------------------------------------------------------
(* The channel of the datagrams                                             *)
(*                                                                          *)
(* Source and proxy exchange datagrams by a channel each of UdpChannel.     *)
(* ClosedOnce is inductive once the counter is a number.  NothingStranded   *)
(* is not: a poll that reports nothing clears the event, so it needs that   *)
(* an event that is due belongs to a socket that is watched, and that a     *)
(* socket that is closed holds nothing.                                     *)

\* The part of the types the argument needs: the counter counts, the phases and
\* states are those there are.
Fields ==
  /\ phase \in {"poll", "recv", "tasks"}
  /\ state \in {"prepare", "normal", "release"}
  /\ closed \in Nat
  /\ fdOpen \in BOOLEAN /\ watched \in BOOLEAN /\ edge \in BOOLEAN /\ cutShort \in BOOLEAN

SocketHolds ==
  /\ inbox # << >> => fdOpen
  /\ edge => watched

UdpInv == Fields /\ ClosedOnce /\ SocketHolds /\ NothingStranded

-----------------------------------------------------------------------------
LEMMA UdpInitInv == UdpInit => UdpInv
<1> SUFFICES ASSUME UdpInit
             PROVE  UdpInv
  OBVIOUS
<1>1. state = "prepare" /\ closed = 0 /\ inbox = << >> /\ phase = "poll" /\ ~fdOpen /\ ~watched /\ ~edge
  BY Zenon DEF UdpInit
<1>2. fdOpen \in BOOLEAN /\ watched \in BOOLEAN /\ edge \in BOOLEAN /\ cutShort \in BOOLEAN
  BY Zenon DEF UdpInit
<1> QED
  BY <1>1, <1>2 DEF UdpInv, Fields, ClosedOnce, SocketHolds, NothingStranded

\* Releasing empties the socket, once.
LEMMA UdpReleaseKeeps ==
  ASSUME UdpInv, NEW q, UdpRelease(q), phase' \in {"poll", "recv", "tasks"}, cutShort' \in BOOLEAN
  PROVE  UdpInv'
<1>1. state # "release" /\ state' = "release" /\ closed' = closed + 1 /\ inbox' = << >>
  BY DEF UdpRelease, Releases
<1>2. ~fdOpen' /\ ~watched' /\ ~edge' /\ fdOpen' \in BOOLEAN /\ watched' \in BOOLEAN /\ edge' \in BOOLEAN
  BY Zenon DEF UdpRelease
<1> QED
  BY <1>1, <1>2 DEF UdpInv, Fields, ClosedOnce, SocketHolds, NothingStranded

\* Doing nothing, and an assertion, keep the socket as it is.
LEMMA UdpStillKeeps ==
  ASSUME UdpInv, UNCHANGED <<state, sockVars, closed>>, UNCHANGED <<phase, cutShort>>
  PROVE  UdpInv'
BY DEF UdpInv, Fields, ClosedOnce, SocketHolds, NothingStranded, sockVars

LEMMA UdpCloseKeeps ==
  ASSUME UdpInv, NEW q, Close(q), UNCHANGED <<phase, cutShort>>
  PROVE  UdpInv'
<1>1. CASE UdpRelease(q)
  BY <1>1, UdpReleaseKeeps DEF UdpInv, Fields
<1>2. CASE UNCHANGED <<state, sockVars, closed>>
  BY <1>2, UdpStillKeeps
<1> QED
  BY <1>1, <1>2 DEF Close, Fail, Unmoved

LEMMA UdpStartKeeps ==
  ASSUME UdpInv, NEW q, Start(q), UNCHANGED <<phase, cutShort>>
  PROVE  UdpInv'
<1>1. CASE UNCHANGED <<state, sockVars, closed>>
  BY <1>1, UdpStillKeeps
<1>2. CASE state = "prepare" /\ state' = "normal" /\ fdOpen' = TRUE /\ watched' = TRUE /\ inbox' = << >>
           /\ edge' = FALSE /\ UNCHANGED closed
  BY <1>2 DEF UdpInv, Fields, ClosedOnce, SocketHolds, NothingStranded
<1>3. CASE state = "prepare" /\ state' = "release" /\ closed' = closed + 1 /\ UNCHANGED sockVars
  BY <1>3 DEF UdpInv, Fields, ClosedOnce, SocketHolds, NothingStranded, sockVars
<1> QED
  BY <1>1, <1>2, <1>3 DEF Start, Fail, Unmoved

-----------------------------------------------------------------------------
LEMMA RunTaskStep ==
  ASSUME UdpInv, RunTask
  PROVE  UdpInv'
<1> DEFINE q == Tail(tasks)
<1>0. UNCHANGED <<phase, cutShort>>
  BY DEF RunTask, histVars
<1>1. CASE Start(q)
  BY <1>0, <1>1, UdpStartKeeps
<1>2. CASE Close(q)
  BY <1>0, <1>2, UdpCloseKeeps
<1>3. CASE SendAsync(q)
  <2>1. CASE Close(q)
    BY <1>0, <2>1, UdpCloseKeeps
  <2>2. CASE UNCHANGED <<state, sockVars, closed>>
    BY <1>0, <2>2, UdpStillKeeps
  <2> QED
    BY <1>3, <2>1, <2>2 DEF SendAsync, Fail, Unmoved
<1> QED
  BY <1>1, <1>2, <1>3 DEF RunTask

LEMMA RecvOneStep ==
  ASSUME UdpInv, RecvOne
  PROVE  UdpInv'
<1>1. phase' = "recv" /\ cutShort' = cutShort
  BY DEF RecvOne, AfterOne
<1>2. CASE UdpRelease(tasks)
  BY <1>1, <1>2, UdpReleaseKeeps DEF UdpInv, Fields
<1>3. CASE inbox' = Tail(inbox) /\ UNCHANGED <<state, bound, fdOpen, watched, edge, tasks, closed, failure>>
  BY <1>1, <1>3 DEF UdpInv, Fields, ClosedOnce, SocketHolds, NothingStranded, RecvOne
<1> QED
  BY <1>2, <1>3 DEF RecvOne

LEMMA RecvErrorStep ==
  ASSUME UdpInv, RecvError
  PROVE  UdpInv'
<1>1. phase' = "tasks" /\ cutShort' = TRUE
  BY DEF RecvError
<1>2. CASE UdpRelease(tasks)
  BY <1>1, <1>2, UdpReleaseKeeps
<1>3. CASE UNCHANGED <<state, sockVars, closed>>
  BY <1>1, <1>3 DEF UdpInv, Fields, ClosedOnce, SocketHolds, NothingStranded, sockVars
<1> QED
  BY <1>2, <1>3 DEF RecvError, Close, Fail, Unmoved

LEMMA UdpStep == UdpInv /\ [UdpNext]_channelVars => UdpInv'
<1> SUFFICES ASSUME UdpInv, [UdpNext]_channelVars
             PROVE  UdpInv'
  OBVIOUS
<1> USE DEF UdpInv, Fields, ClosedOnce, SocketHolds, NothingStranded
<1>1. CASE Poll
  BY <1>1 DEF Poll, histVars
<1>2. CASE RecvOne
  BY <1>2, RecvOneStep
<1>3. CASE RecvEmpty
  BY <1>3 DEF RecvEmpty
<1>4. CASE RecvDone
  BY <1>4 DEF RecvDone, sockVars
<1>5. CASE RecvError
  BY <1>5, RecvErrorStep
<1>6. CASE RunTask
  BY <1>6, RunTaskStep
<1>7. CASE TasksEnd
  BY <1>7 DEF TasksEnd, sockVars, histVars
<1>8. CASE StartInLoop
  BY <1>8, UdpStartKeeps DEF StartInLoop, histVars
<1>9. ASSUME NEW call \in {"start", "originClose", "close", "send"}, Post(call)
      PROVE  UdpInv'
  BY <1>9, UdpStillKeeps DEF Post, histVars
<1>10. ASSUME NEW d \in Packets, Arrive(d)
       PROVE  UdpInv'
  BY <1>10 DEF Arrive, loopVars, histVars
<1>11. CASE UNCHANGED channelVars
  BY <1>11, UdpStillKeeps DEF channelVars, sockVars
<1> QED
  BY <1>1, <1>2, <1>3, <1>4, <1>5, <1>6, <1>7, <1>8, <1>9, <1>10, <1>11 DEF UdpNext

LEMMA UdpInvariance == UdpSpec => []UdpInv
BY UdpInitInv, UdpStep, PTL DEF UdpSpec

-----------------------------------------------------------------------------
\* on_closed of a UDP channel is called at most once, whatever closes, errors and
\* failing sends meet, and the socket and its registration go with it.
THEOREM ClosedOnceCorrect == UdpSpec => []ClosedOnce
<1>1. UdpInv => ClosedOnce
  BY DEF UdpInv
<1> QED
  BY <1>1, UdpInvariance, PTL

\* Outside do_recv nothing waits in the socket without an event due, unless an empty
\* datagram or an error has ended do_recv early.
THEOREM NothingStrandedCorrect == UdpSpec => []NothingStranded
<1>1. UdpInv => NothingStranded
  BY DEF UdpInv
<1> QED
  BY <1>1, UdpInvariance, PTL

\* A close is final: the channel stays released, and neither on_recv_pkg nor on_closed is
\* called again.
NothingAfterClosed ==
  [][state = "release" => state' = "release" /\ UNCHANGED <<handed, closed>>]_channelVars

\* A call that was posted before the close does not revive the channel or reach the
\* application through it, nor does the do_recv in whose callback it was closed
\* (udp_channel_base.cpp:198-248, udp_client_channel.cpp:250-263).
THEOREM NothingAfterClosedCorrect == UdpSpec => NothingAfterClosed
<1>1. ASSUME UdpInv, state = "release", [UdpNext]_channelVars
      PROVE  state' = "release" /\ UNCHANGED <<handed, closed>>
  <2>1. ~fdOpen
    BY <1>1 DEF UdpInv, ClosedOnce
  <2>2. CASE UNCHANGED channelVars
    BY <1>1, <2>2 DEF channelVars
  <2>3. CASE RecvOne \/ RecvEmpty
    BY <2>1, <2>3 DEF RecvOne, RecvEmpty
  <2>4. CASE Poll \/ RecvDone \/ RecvError \/ TasksEnd
    BY <1>1, <2>1, <2>4 DEF Poll, RecvDone, RecvError, TasksEnd, histVars
  <2>5. CASE RunTask \/ StartInLoop
    BY <1>1, <2>5 DEF RunTask, StartInLoop, Start, SendAsync, Close, UdpRelease, Releases, Fail, Unmoved, histVars
  <2>6. ASSUME NEW call \in {"start", "originClose", "close", "send"}, Post(call)
        PROVE  state' = "release" /\ UNCHANGED <<handed, closed>>
    BY <1>1, <2>6 DEF Post, histVars
  <2>7. ASSUME NEW d \in Packets, Arrive(d)
        PROVE  state' = "release" /\ UNCHANGED <<handed, closed>>
    BY <1>1, <2>7 DEF Arrive, histVars
  <2> QED
    BY <1>1, <2>2, <2>3, <2>4, <2>5, <2>6, <2>7 DEF UdpNext
<1>2. UdpInv /\ [UdpNext]_channelVars
        => [state = "release" => state' = "release" /\ UNCHANGED <<handed, closed>>]_channelVars
  BY <1>1
<1> QED
  BY <1>2, UdpInvariance, PTL DEF UdpSpec, NothingAfterClosed
=============================================================================

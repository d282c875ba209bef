------------------------------- MODULE Socks5 -------------------------------
(* One SOCKS5 session: a source (socks5_client_channel_base and the channel *)
(* of its command), the proxy (socks5_server_init_channel and the channel   *)
(* the command puts in its place) and a target the proxy connects to        *)
(* (CONNECT), waits for (BIND) or forwards datagrams to (ASSOCIATE).  near  *)
(* is the connection of source and proxy, far that of proxy and target.  A  *)
(* package is one element of a connection.  The source's application        *)
(* closes on every error, as tcp_client_handler_terminal does.              *)
EXTENDS Naturals, Sequences, SequencesExt

CONSTANT MaxData    \* bound: data packages of the source, and of the target

ASSUME MaxDataAssumption == MaxData \in Nat

VARIABLES
  cmd,      \* the command of the source's channel
  named,    \* TRUE: the source knows the target by its domain name
  shake,    \* _shakehand_state of the source
  trs,      \* _tunnelResState: how many replies a BIND has had
  told,     \* TRUE: the source's application has had on_connected
  open,     \* TRUE: the source has its socket
  near, far,
  sock,     \* the proxy's connection to the source: none, normal, released, gone
  sshake,   \* _shakehand_state of the proxy
  head,     \* the handler behind the origin: init, or term once it is inserted
  valid,    \* _tunnel_valid, _is_valid
  eof,      \* the connections whose end the proxy has read
  tun,      \* the proxy's end of far
  target,   \* the target's end of far: none, open, closed
  said, tsaid, \* how many data packages the source and the target have sent
  got, tgot,   \* what they have received; 0 is what no package of the other was
  garbled,  \* history: the directions in which bytes have been written over
  udp,      \* the source's UDP channel: waiting until switch_normal, then normal
  relay,    \* the proxy's UDP channel of an ASSOCIATE
  air,      \* the datagrams sent; one may arrive at any time, again, or never
  relayThunk, udpThunk, \* how many datagrams the two channels' _read_thunk holds
  heard,    \* what the target has received in datagrams
  answers,  \* what the source's application has received in datagrams, and from whom
  broken,   \* TRUE: the network has broken a connection
  aborted   \* TRUE: assert(false) has stopped the proxy

sourceVars == <<shake, trs, told, open, said, got>>
proxyVars  == <<sock, sshake, head, valid, eof, tun, aborted>>
targetVars == <<target, tsaid, tgot>>
given      == <<cmd, named>>
thunks     == <<relayThunk, udpThunk>>
airVars    == <<air, thunks, heard, answers>>
udpVars    == <<udp, relay, airVars>>
vars == <<given, sourceVars, near, far, garbled, proxyVars, targetVars, udpVars, broken>>

\* fwd runs from the source to the target; an end that has closed sends nothing
\* more (fwdFin, backFin); rst: the connection is reset.
NoLink == [fwd |-> << >>, back |-> << >>, fwdFin |-> FALSE, backFin |-> FALSE, rst |-> FALSE]

Data(n)  == [is |-> "data", n |-> n]
Pkg(is)  == [is |-> is, n |-> 0]
\* Bytes that were written over, and such bytes once they are found incomplete.
Garbled  == Pkg("garbled")
Partial  == Pkg("partial")
Packages == [is : {"method", "auth", "request", "userpsw", "refused", "granted", "denied", "reply",
                   "garbled", "partial"}, n : {0}]
              \cup [is : {"data"}, n : 1 .. MaxData]
Links == [fwd : Seq(Packages), back : Seq(Packages), fwdFin : BOOLEAN, backFin : BOOLEAN, rst : BOOLEAN]

\* header: the address in the header of SOCKS5, or none; whole: no bytes of an earlier
\* datagram follow its own.
Datagrams == [from : {"source", "relay", "target"}, to : {"source", "relay", "target"},
              header : {"none", "target"}, n : 1 .. MaxData, whole : BOOLEAN]

TypeOK ==
  /\ cmd \in {"connect", "bind", "associate"} /\ named \in BOOLEAN
  /\ shake \in {"none", "method", "auth", "tunnel", "normal"}
  /\ trs \in {"none", "listen", "target"}
  /\ told \in BOOLEAN /\ open \in BOOLEAN
  /\ near \in Links /\ far \in Links
  /\ sock \in {"none", "normal", "released", "gone"}
  /\ sshake \in {"none", "method", "auth", "tunnel", "normal"}
  /\ head \in {"init", "term"}
  /\ valid \in BOOLEAN
  /\ eof \subseteq {"near", "far"}
  /\ tun \in {"none", "connecting", "failed", "listening", "open", "closed", "lost"}
  /\ target \in {"none", "open", "closed"}
  /\ said \in 0 .. MaxData /\ tsaid \in 0 .. MaxData
  /\ got \in Seq(0 .. MaxData) /\ tgot \in Seq(0 .. MaxData)
  /\ garbled \subseteq {"back", "fwd"}
  /\ udp \in {"none", "waiting", "normal", "closed"}
  /\ relay \in {"none", "failed", "open", "closed"}
  /\ air \subseteq Datagrams /\ relayThunk \in 0 .. 2 /\ udpThunk \in 0 .. 2
  /\ heard \subseteq [n : 1 .. MaxData, whole : BOOLEAN]
  /\ answers \subseteq [from : {"target"}, n : 1 .. MaxData, whole : BOOLEAN]
  /\ broken \in BOOLEAN /\ aborted \in BOOLEAN

\* The source has connected to the proxy and sent its methods (on_connected).
Init ==
  /\ cmd \in {"connect", "bind", "associate"} /\ named \in BOOLEAN
  /\ shake = "method" /\ trs = "none" /\ told = FALSE /\ open = TRUE
  /\ near = [NoLink EXCEPT !.fwd = <<Pkg("method")>>] /\ far = NoLink
  /\ sock = "none" /\ sshake = "none" /\ head = "init" /\ valid = FALSE /\ eof = {}
  /\ tun = "none" /\ target = "none"
  /\ said = 0 /\ tsaid = 0 /\ got = << >> /\ tgot = << >> /\ garbled = {}
  /\ udp = "none" /\ relay = "none" /\ air = {} /\ heard = {} /\ answers = {}
  /\ relayThunk = 0 /\ udpThunk = 0
  /\ broken = FALSE /\ aborted = FALSE

-----------------------------------------------------------------------------
(* Sending and closing, at the ends of a connection                         *)

Reset(link)   == [link EXCEPT !.rst = TRUE]
EndFwd(link)  == [link EXCEPT !.fwdFin = TRUE]
EndBack(link) == [link EXCEPT !.backFin = TRUE]

\* The first n packages are taken.
TakeFwd(link, n)  == [link EXCEPT !.fwd = SubSeq(@, n + 1, Len(@))]
TakeBack(link, n) == [link EXCEPT !.back = SubSeq(@, n + 1, Len(@))]

\* What is sent to an end that has closed comes back as a reset.
SendFwd(link, m, there)  == IF there THEN [link EXCEPT !.fwd = Append(@, m)] ELSE Reset(link)
SendBack(link, m, there) == IF there THEN [link EXCEPT !.back = Append(@, m)] ELSE Reset(link)

\* Nothing is left in the socket; an incomplete package is in _read_thunk.
Drained(queue) == queue = << >> \/ queue = <<Partial>>

\* ::close: the other end reads the end of the stream, or a reset when
\* something was left unread.
CloseFwd(link)  == IF Drained(link.back) THEN EndFwd(link) ELSE Reset(link)
CloseBack(link) == IF Drained(link.fwd) THEN EndBack(link) ELSE Reset(link)

\* The first package is found incomplete and left in _read_thunk.
LeaveFwd(link)  == [link EXCEPT !.fwd = <<Partial>> \o Tail(@)]
LeaveBack(link) == [link EXCEPT !.back = <<Partial>> \o Tail(@)]

\* do_recv writes what a ::recv brings at ptr(), over what an earlier one of the same
\* event brought or an earlier event left incomplete, and counts both: the first i
\* packages are lost, i + 1 .. j come first, and behind them are bytes of any kind.
\* With i = j the last of them has come in two pieces.
Jumbled(queue, i, j) ==
  SubSeq(queue, i + 1, j) \o <<Garbled>> \o SubSeq(queue, j + 1, Len(queue))

\* tcp_client_handler_origin::close at the source, and on_closed.
CloseSource(link) ==
  /\ open' = FALSE /\ shake' = "none" /\ near' = CloseFwd(link)
  /\ UNCHANGED <<trs, told, said, got>>

-----------------------------------------------------------------------------
(* The source                                                               *)

\* Mutant: the split of the handshake takes all that has come.
TakesAll(queue) == Len(queue)

\* How many packages of the queue one on_recv_pkg is given.
Split(queue) == 1

\* on_tunnel_pkg of each command's channel: a BIND is connected at the second reply,
\* the others at the first; an ASSOCIATE switches its UDP channel to normal.
ConnectPkg == shake' = "normal" /\ told' = TRUE /\ UNCHANGED <<trs, udp>>

BindPkg ==
  \/ trs = "none" /\ trs' = "listen" /\ UNCHANGED <<shake, told, udp>>
  \/ trs = "listen" /\ trs' = "target" /\ shake' = "normal" /\ told' = TRUE /\ UNCHANGED udp

AssociatePkg == shake' = "normal" /\ told' = TRUE /\ udp' = "normal" /\ UNCHANGED trs

TunnelPkg ==
  /\ \/ cmd = "connect" /\ ConnectPkg
     \/ cmd = "bind" /\ BindPkg
     \/ cmd = "associate" /\ AssociatePkg
  /\ UNCHANGED <<open, said, got>>

\* make_tunnel_pkg: an ASSOCIATE makes its UDP channel first; that may fail.
RequestMade  == udp' = IF cmd = "associate" THEN "waiting" ELSE udp
RequestFails == cmd = "associate" /\ UNCHANGED udp

\* on_error, which the application answers with CMS_INNER_AUTO_CLOSE.
Refused(link) == CloseSource(link)

\* Bytes that stand where the reply should: they may read as one, as an error or as the
\* beginning of one.
Misread(m) == m.is \in {"garbled", "data"}

\* The source reads one package.
SourceRecv ==
  /\ open /\ near.back # << >>
  /\ LET m    == Head(near.back)
         rest == TakeBack(near, IF shake = "normal" THEN 1 ELSE Split(near.back))
         Says(is, state) ==
           /\ near' = SendFwd(rest, Pkg(is), sock \in {"none", "normal"})
           /\ shake' = state
           /\ UNCHANGED <<trs, told, open, said, got>>
         Requests == \/ Says("request", "tunnel") /\ RequestMade
                     \/ CloseSource(rest) /\ RequestFails
     IN  \/ shake = "method" /\ m.is = "granted" /\ Requests
         \/ shake = "method" /\ m.is = "userpsw" /\ Says("auth", "auth") /\ UNCHANGED udp
         \/ shake = "method" /\ m.is = "refused" /\ Refused(rest) /\ UNCHANGED udp
         \/ shake = "auth" /\ m.is = "granted" /\ Requests
         \/ shake = "auth" /\ m.is = "denied" /\ Refused(rest) /\ UNCHANGED udp
         \/ shake \in {"method", "auth"} /\ m.is = "garbled" /\ CloseSource(rest) /\ UNCHANGED udp
         \/ shake = "tunnel" /\ m.is # "partial" /\ near' = rest /\ TunnelPkg
         \/ shake = "tunnel" /\ Misread(m) /\ CloseSource(rest) /\ UNCHANGED udp
         \/ shake = "tunnel" /\ Misread(m) /\ near' = LeaveBack(near) /\ UNCHANGED <<sourceVars, udp>>
         \/ /\ shake = "normal" /\ near' = rest /\ got' = Append(got, m.n)
            /\ UNCHANGED <<shake, trs, told, open, said, udp>>
  /\ UNCHANGED <<given, garbled, far, proxyVars, targetVars, relay, airVars, broken>>

\* Another ::recv of the source's do_recv.
SourceOverwrites ==
  /\ open
  /\ \E i, j \in 1 .. Len(near.back) : i <= j /\ near' = [near EXCEPT !.back = Jumbled(@, i, j)]
  /\ garbled' = garbled \cup {"back"}
  /\ UNCHANGED <<given, sourceVars, far, proxyVars, targetVars, udpVars, broken>>

\* The source reads the end of the stream, or an error.
SourceEnd ==
  /\ open
  /\ near.rst \/ (Drained(near.back) /\ near.backFin)
  /\ CloseSource(near)
  /\ UNCHANGED <<given, garbled, far, proxyVars, targetVars, udpVars, broken>>

\* The application sends once it is connected.
SourceSend ==
  /\ cmd # "associate" /\ open /\ told /\ said < MaxData
  /\ said' = said + 1
  /\ near' = SendFwd(near, Data(said'), sock \in {"none", "normal"})
  /\ UNCHANGED <<given, garbled, shake, trs, told, open, got, far, proxyVars, targetVars, udpVars, broken>>

\* The application may close at any time.  In an ASSOCIATE it has no channel to
\* close: its process ends, and its UDP socket with it.
SourceClose ==
  /\ open
  /\ CloseSource(near)
  /\ udp' = IF udp = "none" THEN udp ELSE "closed"
  /\ UNCHANGED <<given, garbled, far, proxyVars, targetVars, relay, airVars, broken>>

-----------------------------------------------------------------------------
(* The proxy's connection to the source                                     *)

\* tcp_server_channel_creator::on_newfd and on_accept.
Accept ==
  /\ ~aborted /\ sock = "none"
  /\ sock' = "normal" /\ sshake' = "method"
  /\ UNCHANGED <<given, garbled, sourceVars, near, far, head, valid, eof, tun, aborted, targetVars, udpVars, broken>>

TunnelHas == tun \in {"connecting", "listening", "open"}

\* Mutant: on_closed of a CONNECT does nothing, as that of a BIND.
OnClosedNot(link) == near' = CloseBack(link) /\ UNCHANGED <<far, tun, relay>>

\* on_closed of the handler: a CONNECT closes its tunnel, an ASSOCIATE its UDP channel,
\* a BIND does nothing.
ConnectClosed ==
  IF cmd = "connect" /\ TunnelHas
  THEN tun' = "closed" /\ far' = (IF target = "none" THEN far ELSE CloseFwd(far))
  ELSE UNCHANGED <<far, tun>>

AssociateClosed == relay' = IF relay = "open" THEN "closed" ELSE relay

OnClosed(link) == near' = CloseBack(link) /\ ConnectClosed /\ AssociateClosed

\* set_release of the connection, the rest of link unread.
Release(link) ==
  /\ sock' = "released"
  /\ OnClosed(link)

ToSource(link, m) == near' = SendBack(link, m, open)

\* case SSS_METHOD: select_method of the application chooses, a user name and password
\* only from a source that offers them.
MethodPkg(link) ==
  /\ \/ ToSource(link, Pkg("granted")) /\ sshake' = "tunnel"
     \/ ToSource(link, Pkg("userpsw")) /\ sshake' = "auth"
     \/ ToSource(link, Pkg("refused")) /\ sshake' = "none"
  /\ UNCHANGED <<sock, head, valid, eof, tun, far, relay, aborted>>

\* case SSS_AUTH: check_userpsw of the application decides.
AuthPkg(link) ==
  /\ \/ ToSource(link, Pkg("granted")) /\ sshake' = "tunnel"
     \/ ToSource(link, Pkg("denied")) /\ sshake' = "none"
  /\ UNCHANGED <<sock, head, valid, eof, tun, far, relay, aborted>>

\* Mutant: the reply is sent with the connect under way.
ConnectReplies(link) == tun' = "connecting" /\ ToSource(link, Pkg("reply"))

\* init of socks5_connectcmd_server_channel.
ConnectInit(link) == tun' = "connecting" /\ near' = link

\* init of socks5_bindcmd_server_channel: its listener is up, or it is not and
\* nothing more is done.
BindInit(link) ==
  \/ tun' = "listening" /\ ToSource(link, Pkg("reply"))
  \/ tun' = "failed" /\ near' = link

\* init of socks5_associatecmd_server_channel: start calls on_ready, or fails and
\* nothing more is done.
AssociateInit(link) ==
  \/ relay' = "open" /\ ToSource(link, Pkg("reply"))
  \/ relay' = "failed" /\ near' = link

\* decode_addr: a domain comes without a port (make_tunnel_pkg), and the split ends
\* where the domain ends, so that the port is missing.
AddrDecodes == cmd = "associate" \/ ~named

\* case SSS_TUNNEL: the command's channel takes the place of this one.
TunnelRequest(link) ==
  \/ /\ AddrDecodes
     /\ sshake' = "normal" /\ head' = "term"
     /\ \/ cmd = "connect" /\ ConnectInit(link) /\ UNCHANGED relay
        \/ cmd = "bind" /\ BindInit(link) /\ UNCHANGED relay
        \/ cmd = "associate" /\ AssociateInit(link) /\ UNCHANGED tun
     /\ UNCHANGED <<sock, valid, eof, far, aborted>>
  \/ /\ ~AddrDecodes
     /\ sshake' = "none" /\ Release(link)
     /\ UNCHANGED <<head, valid, eof, aborted>>

\* on_recv_pkg of the command's channel: before the tunnel stands the package is
\* dropped.
Relay(link, m) ==
  /\ near' = link
  /\ IF valid THEN far' = SendFwd(far, m, target = "open") ELSE UNCHANGED far
  /\ UNCHANGED <<sock, sshake, head, valid, eof, tun, relay, aborted>>

\* The split of the handshake: bytes that were written over have not the version of
\* methods or of a request and are left as incomplete, or make a request that is refused.
GarbledPkg(link) ==
  \/ /\ near' = LeaveFwd(near)
     /\ UNCHANGED <<far, sock, sshake, head, valid, eof, tun, relay, aborted>>
  \/ /\ sshake = "tunnel" /\ sshake' = "none" /\ Release(link)
     /\ UNCHANGED <<head, valid, eof, aborted>>

ProxyRecv ==
  /\ ~aborted /\ sock = "normal" /\ near.fwd # << >>
  /\ LET m    == Head(near.fwd)
         rest == TakeFwd(near, 1)
     IN  \/ head = "init" /\ sshake = "method" /\ m.is = "method" /\ MethodPkg(rest)
         \/ head = "init" /\ sshake = "auth" /\ m.is # "partial" /\ AuthPkg(rest)
         \/ head = "init" /\ sshake = "tunnel" /\ m.is = "request" /\ TunnelRequest(rest)
         \/ head = "init" /\ m.is = "garbled" /\ GarbledPkg(rest)
         \/ head = "term" /\ Relay(rest, m)
  /\ UNCHANGED <<given, garbled, sourceVars, targetVars, udp, airVars, broken>>

\* Another ::recv of the proxy's do_recv, at either connection.
ProxyOverwrites ==
  /\ ~aborted /\ sock = "normal"
  /\ \E i, j \in 1 .. Len(near.fwd) : i <= j /\ near' = [near EXCEPT !.fwd = Jumbled(@, i, j)]
  /\ garbled' = garbled \cup {"fwd"}
  /\ UNCHANGED <<given, sourceVars, far, proxyVars, targetVars, udpVars, broken>>

TunnelOverwrites ==
  /\ ~aborted /\ tun = "open"
  /\ \E i, j \in 1 .. Len(far.back) : i <= j /\ far' = [far EXCEPT !.back = Jumbled(@, i, j)]
  /\ garbled' = garbled \cup {"back"}
  /\ UNCHANGED <<given, sourceVars, near, proxyVars, targetVars, udpVars, broken>>

\* CEC_CLOSE_BY_PEER.  During the handshake it closes; afterwards it is passed on
\* as shutdown(SHUT_WR) of a tunnel that stands and the connection is kept.
ProxyEof ==
  /\ ~aborted /\ sock = "normal" /\ "near" \notin eof
  /\ Drained(near.fwd) /\ near.fwdFin
  /\ eof' = eof \cup {"near"}
  /\ \/ head = "init" /\ Release(near)
     \/ /\ head = "term"
        /\ far' = IF tun = "open" THEN EndFwd(far) ELSE far
        /\ UNCHANGED <<near, sock, tun, relay>>
  /\ UNCHANGED <<given, garbled, sourceVars, sshake, head, valid, aborted, targetVars, udp, airVars, broken>>

\* CEC_READ_FAILED.
ProxyError ==
  /\ ~aborted /\ sock = "normal" /\ near.rst
  /\ Release(near)
  /\ UNCHANGED <<given, garbled, sourceVars, sshake, head, valid, eof, aborted, targetVars, udp, airVars, broken>>

\* on_idle_recover drops the released connection.  The channel of a BIND takes its
\* tcp_server with it: the tunnel is deleted, its descriptor is not closed.
Recover ==
  /\ ~aborted /\ sock = "released"
  /\ sock' = "gone"
  /\ tun' = IF tun = "listening" THEN "closed" ELSE IF tun = "open" THEN "lost" ELSE tun
  /\ UNCHANGED <<given, garbled, sourceVars, near, far, sshake, head, valid, eof, aborted, targetVars, udpVars, broken>>

-----------------------------------------------------------------------------
(* The proxy's connection to the target                                     *)

\* tcp_server_handler_origin::send asserts that it is normal.
ToSourceOrAbort(m) ==
  IF sock = "normal"
  THEN ToSource(near, m) /\ UNCHANGED aborted
  ELSE aborted' = TRUE /\ UNCHANGED near

\* on_connected of the tunnel of a CONNECT, on_accept of that of a BIND.
TunnelUp ==
  /\ ~aborted /\ tun \in {"connecting", "listening"} /\ target # "none"
  /\ tun' = "open" /\ valid' = TRUE
  /\ ToSourceOrAbort(Pkg("reply"))
  /\ UNCHANGED <<given, garbled, sourceVars, far, sock, sshake, head, eof, targetVars, udpVars, broken>>

\* on_sockio_write_connect with an error: the socket is closed, nobody is told.
TunnelRefused ==
  /\ ~aborted /\ tun = "connecting" /\ target = "none"
  /\ tun' = "failed"
  /\ UNCHANGED <<given, garbled, sourceVars, near, far, sock, sshake, head, valid, eof, aborted, targetVars, udpVars, broken>>

\* on_recv_pkg of the tunnel.
TunnelRecv ==
  /\ ~aborted /\ tun = "open" /\ far.back # << >>
  /\ far' = TakeBack(far, 1)
  /\ ToSourceOrAbort(Head(far.back))
  /\ UNCHANGED <<given, garbled, sourceVars, sock, sshake, head, valid, eof, tun, targetVars, udpVars, broken>>

\* Mutant: CONNECT passes the end on as BIND does.
PassEndRead == eof' = eof \cup {"far"} /\ UNCHANGED near

\* shutdown of the source's connection: SHUT_WR for a CONNECT, SHUT_RD for a BIND,
\* of which the source sees nothing.
PassEnd ==
  /\ eof' = eof \cup {"far"}
  /\ near' = IF cmd = "connect" /\ sock = "normal" THEN EndBack(near) ELSE near

\* CEC_CLOSE_BY_PEER of the tunnel.
TunnelEof ==
  /\ ~aborted /\ tun = "open" /\ "far" \notin eof
  /\ far.back = << >> /\ far.backFin
  /\ PassEnd
  /\ UNCHANGED <<given, garbled, sourceVars, far, sock, sshake, head, valid, tun, aborted, targetVars, udpVars, broken>>

\* CEC_READ_FAILED of the tunnel: it closes, and on_closed closes the other.
TunnelError ==
  /\ ~aborted /\ tun = "open" /\ far.rst
  /\ tun' = "closed"
  /\ IF sock = "normal"
     THEN sock' = "released" /\ near' = CloseBack(near)
     ELSE UNCHANGED <<sock, near>>
  /\ UNCHANGED <<given, garbled, sourceVars, far, sshake, head, valid, eof, aborted, targetVars, udpVars, broken>>

-----------------------------------------------------------------------------
(* The target and the network                                               *)

\* The target answers the connect of the proxy, or connects to its listener.
TargetOpens ==
  /\ target = "none" /\ tun \in {"connecting", "listening"}
  /\ target' = "open"
  /\ UNCHANGED <<given, garbled, sourceVars, near, far, proxyVars, tsaid, tgot, udpVars, broken>>

TargetRecv ==
  /\ target = "open" /\ far.fwd # << >>
  /\ tgot' = Append(tgot, Head(far.fwd).n)
  /\ far' = TakeFwd(far, 1)
  /\ UNCHANGED <<given, garbled, sourceVars, near, proxyVars, target, tsaid, udpVars, broken>>

TargetSend ==
  /\ target = "open" /\ tsaid < MaxData
  /\ tsaid' = tsaid + 1
  /\ far' = SendBack(far, Data(tsaid'), tun # "closed")
  /\ UNCHANGED <<given, garbled, sourceVars, near, proxyVars, target, tgot, udpVars, broken>>

TargetCloses ==
  /\ target = "open"
  /\ target' = "closed"
  /\ far' = CloseBack(far)
  /\ UNCHANGED <<given, garbled, sourceVars, near, proxyVars, tsaid, tgot, udpVars, broken>>

\* A connection breaks: both its ends read an error.
Breaks ==
  /\ ~broken /\ broken' = TRUE
  /\ \/ sock # "none" /\ near' = Reset(near) /\ UNCHANGED far
     \/ target # "none" /\ far' = Reset(far) /\ UNCHANGED near
  /\ UNCHANGED <<given, garbled, sourceVars, proxyVars, targetVars, udpVars>>

-----------------------------------------------------------------------------
(* The datagrams of an ASSOCIATE                                            *)

Datagram(from, to, header, n, whole) ==
  [from |-> from, to |-> to, header |-> header, n |-> n, whole |-> whole]

\* _read_thunk after another datagram: it is never emptied, and 2 stands for more.
Counted(thunk) == IF thunk = 0 THEN 1 ELSE 2

\* send of the source's UDP channel puts the target's address before the data.
DatagramSend ==
  /\ udp = "normal" /\ said < MaxData
  /\ said' = said + 1
  /\ air' = air \cup {Datagram("source", "relay", "target", said', TRUE)}
  /\ UNCHANGED <<given, garbled, shake, trs, told, open, got, near, far, proxyVars, targetVars, udp, relay, thunks, heard, answers, broken>>

\* What on_recv_pkg of the relay sends on: the source's without their header, the
\* others' to the source with the sender's address in a header.  recvfrom writes a
\* datagram at the front of the thunk, and what the thunk held before is sent on too.
Relayed(d) ==
  LET whole == d.whole /\ relayThunk = 0
  IN  IF d.from = "source" THEN Datagram("relay", d.header, "none", d.n, whole)
                           ELSE Datagram("relay", "source", d.from, d.n, whole)

RelayRecv ==
  /\ ~aborted /\ relay = "open"
  /\ \E d \in air : d.to = "relay" /\ air' = air \cup {Relayed(d)}
  /\ relayThunk' = Counted(relayThunk)
  /\ UNCHANGED <<given, garbled, sourceVars, near, far, proxyVars, targetVars, udp, relay, udpThunk, heard, answers, broken>>

\* on_recv_pkg of the source's UDP channel takes the sender from the header.
DatagramRecv ==
  /\ udp = "normal"
  /\ \E d \in air :
       /\ d.to = "source"
       /\ answers' = answers \cup {[from |-> d.header, n |-> d.n, whole |-> d.whole /\ udpThunk = 0]}
  /\ udpThunk' = Counted(udpThunk)
  /\ UNCHANGED <<given, garbled, sourceVars, near, far, proxyVars, targetVars, udp, relay, air, relayThunk, heard, broken>>

\* A datagram to a relay that is closed comes back as an error of the source's
\* socket, which closes.
DatagramRefused ==
  /\ udp = "normal" /\ relay = "closed" /\ said > 0
  /\ udp' = "closed"
  /\ UNCHANGED <<given, garbled, sourceVars, near, far, proxyVars, targetVars, relay, airVars, broken>>

\* The target answers where it has heard from.
TargetHears ==
  /\ \E d \in air : d.to = "target" /\ heard' = heard \cup {[n |-> d.n, whole |-> d.whole]}
  /\ UNCHANGED <<given, garbled, sourceVars, near, far, proxyVars, targetVars, udp, relay, air, thunks, answers, broken>>

TargetAnswers ==
  /\ heard # {} /\ tsaid < MaxData
  /\ tsaid' = tsaid + 1
  /\ air' = air \cup {Datagram("target", "relay", "none", tsaid', TRUE)}
  /\ UNCHANGED <<given, garbled, sourceVars, near, far, proxyVars, target, tgot, udp, relay, thunks, heard, answers, broken>>

-----------------------------------------------------------------------------
Source == SourceRecv \/ SourceEnd
Proxy  == Accept \/ ProxyRecv \/ ProxyEof \/ ProxyError \/ Recover
            \/ TunnelUp \/ TunnelRecv \/ TunnelEof \/ TunnelError

Next ==
  \/ Source \/ SourceOverwrites \/ SourceSend \/ SourceClose
  \/ Proxy \/ ProxyOverwrites \/ TunnelOverwrites \/ TunnelRefused
  \/ TargetOpens \/ TargetRecv \/ TargetSend \/ TargetCloses \/ Breaks
  \/ DatagramSend \/ RelayRecv \/ DatagramRecv \/ DatagramRefused
  \/ TargetHears \/ TargetAnswers

Spec == Init /\ [][Next]_vars

\* Every reactor serves its sockets.
FairSpec == Spec /\ WF_vars(Source) /\ WF_vars(Proxy)

-----------------------------------------------------------------------------
\* The application is told on_connected only when there is a target at the other
\* end of the tunnel, or a relay that has been opened for its datagrams, although
\* what it waits for is sent by four handlers.
ToldMeansTarget == told => (target # "none" \/ relay \in {"open", "closed"})

\* Neither end of an ASSOCIATE hears itself, or the other under a wrong name: what the
\* target hears begins with what the source has sent, without a header, and what the
\* source hears with an answer of the target that is given as the target's.  No more
\* than its beginning: only the first datagram a relay takes is sent on as it came.
DatagramsHonest ==
  /\ \A h \in heard : h.n <= said /\ (relayThunk <= 1 => h.whole)
  /\ \A a \in answers : a.from = "target" /\ a.n <= tsaid
  /\ \A d \in air : d.to = "target" => d.header = "none"

\* As long as no ::recv of the three reactors writes over bytes that are not yet parsed
\* (tcp_channel_base.cpp:171-203), what each side has received over its connection is a
\* prefix of what the other has sent and none of the handshake is in it, whatever the
\* handlers' order; and the datagrams are honest.
StreamIntact ==
  /\ "back" \notin garbled => \A i \in 1 .. Len(got) : got[i] = i
  /\ "fwd" \notin garbled => \A i \in 1 .. Len(tgot) : tgot[i] = i
  /\ DatagramsHonest

\* In a CONNECT session the assertion of send is never met: nothing comes out of a
\* tunnel for a connection that has been released.
ConnectNeverAborts == cmd = "connect" => ~aborted

\* In a CONNECT session an end of one side reaches the other: a connected source
\* closes when the target has gone, and a target reads an end or an error when the
\* source has gone.  In an ASSOCIATE the relay does not outlive a connection that
\* breaks.
EndReaches ==
  /\ (cmd = "connect" /\ told /\ target = "closed") ~> ~open
  /\ (cmd = "connect" /\ target = "open" /\ ~open) ~> (far.fwdFin \/ far.rst \/ target = "closed")
  /\ (relay = "open" /\ near.rst) ~> relay = "closed"
=============================================================================

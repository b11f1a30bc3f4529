---------------------------- MODULE PeerResolver ----------------------------
(***************************************************************************)
(* The peer resolvers of the event client: which peer to connect to, and   *)
(* when to leave it for another (minblockheight, preferorg, preferpeer,    *)
(* balanced).                                                              *)
(*                                                                         *)
(* Block numbers are unsigned and wrap at MaxUint, which also stands for   *)
(* "no block received yet".  A peer is [url, msp, height].  A resolver is  *)
(* [kind, msp, preferred, lag, reconnect, min]; last is the last block.    *)
(***************************************************************************)
EXTENDS Discovery

MaxUint == 15
Plus1(n) == (n + 1) % (MaxUint + 1)

\* The thresholds that the channel's policy gives.
BlockHeightLagThreshold(mode, configured, default) ==
  CASE mode = "latest"      -> 0
    [] mode = "byThreshold" -> configured
    [] OTHER                -> IF configured <= 0 THEN default ELSE configured

\* Zero is documented to turn the check off; it becomes the default, and as an
\* option of the client (WithReconnectBlockHeightThreshold) it is taken as it is.
ReconnectThreshold(configured, default) == IF configured <= 0 THEN default ELSE configured

\* SetFromBlock and SetSnapshot: the block after the first, or last, one.
MinBlockHeightFrom(block) == Plus1(block)

MaxHeight(peers) == Max({0} \cup {p.height : p \in peers})

FilterByBlockHeight(r, min, peers) ==
  IF min = 0 /\ (r.lag < 0 \/ Cardinality(peers) = 1 \/ MaxHeight(peers) <= r.lag) THEN peers
  ELSE LET cutoff == IF min > 0 THEN min ELSE MaxHeight(peers) - r.lag
       IN  {p \in peers : p.height >= cutoff}

\* The height that the next block needs.
MinBlockHeight(r, last) ==
  IF r.min = 0 THEN 0
  ELSE IF last = MaxUint \/ r.min > last THEN r.min ELSE Plus1(last)

\* Filter: the peers that have the next block; failing that those that have
\* the one before; failing that those that are close to the highest.
Filter(r, last, peers) ==
  LET min == MinBlockHeight(r, last)
      first == FilterByBlockHeight(r, min, peers)
      second == FilterByBlockHeight(r, min - 1, peers)
  IN  IF first # {} \/ min = 0 THEN first
      ELSE IF second # {} THEN second ELSE FilterByBlockHeight(r, 0, peers)

\* The connected peer is left when it has nothing more to deliver and
\* another peer is far ahead of what was received.
LagsBehind(r, last, peers, peer) ==
  /\ MaxHeight(peers) > r.reconnect
  /\ ~(Plus1(last) < peer.height)
  /\ Plus1(last) < MaxHeight(peers) - r.reconnect

----------------------------------------------------------------------------
(* The resolvers                                                            *)

OwnOrg(r, peers) == {p \in peers : p.msp = r.msp}
Preferred(r, peers) == {p \in peers : p.url \in r.preferred}

ResolvePreferOrg(r, last, peers) ==
  LET filtered == Filter(r, last, peers)
  IN  IF OwnOrg(r, filtered) # {} THEN OwnOrg(r, filtered) ELSE filtered

ResolvePreferPeer(r, last, peers) ==
  LET preferred == Preferred(r, Filter(r, last, peers))
  IN  IF preferred # {} THEN preferred ELSE ResolvePreferOrg(r, last, peers)

\* Resolve: the peers the load balance policy may choose from.
Resolve(r, last, peers) ==
  CASE r.kind = "balanced"       -> peers
    [] r.kind = "minBlockHeight" -> Filter(r, last, peers)
    [] r.kind = "preferOrg"      -> ResolvePreferOrg(r, last, peers)
    [] r.kind = "preferPeer"     -> ResolvePreferPeer(r, last, peers)

DisconnectPreferOrg(r, last, peers, peer) ==
  IF peer.msp # r.msp /\ OwnOrg(r, Filter(r, last, peers)) # {} THEN TRUE
  ELSE LagsBehind(r, last, peers, peer)

DisconnectPreferPeer(r, last, peers, peer) ==
  IF peer.url \notin r.preferred /\ Preferred(r, Filter(r, last, peers)) # {} THEN TRUE
  ELSE DisconnectPreferOrg(r, last, peers, peer)

ShouldDisconnect(r, last, peers, peer) ==
  CASE r.kind = "balanced"       -> FALSE
    [] r.kind = "minBlockHeight" -> LagsBehind(r, last, peers, peer)
    [] r.kind = "preferOrg"      -> DisconnectPreferOrg(r, last, peers, peer)
    [] r.kind = "preferPeer"     -> DisconnectPreferPeer(r, last, peers, peer)

----------------------------------------------------------------------------
(* What the event client relies on                                          *)

\* What a client needs for the peer that it was just sent to not to be left at
\* the next look at the heights.  In every other case the code may send it on at
\* once, and again: a client that asks for old blocks is sent to peers that have
\* exactly the blocks it received (minblockheight.go:66-72), a lag above the
\* reconnect threshold admits peers that are then too far behind, and a preferred
\* peer of another org is left for any peer of the client's own (preferpeer.go:86).
Steady(r, peers) ==
  /\ r.min = 0
  /\ r.lag \in 0 .. r.reconnect
  /\ r.kind = "preferPeer" => \A p \in Preferred(r, peers) : p.msp = r.msp

\* Some peer is found whenever there is one.  A client with steady settings is
\* not asked to leave the peer that was just chosen; and whatever the settings a
\* peer is left only where another one is ahead of what was received, or is
\* preferred to it, so that the client can gain by it.
ResolverSettles(r, last, peers) ==
  /\ peers # {} => Resolve(r, last, peers) # {}
  /\ Steady(r, peers) => \A p \in Resolve(r, last, peers) : ~ShouldDisconnect(r, last, peers, p)
  /\ \A p \in peers : ShouldDisconnect(r, last, peers, p) =>
       \E q \in peers \ {p} :
         \/ q.height > Plus1(last)
         \/ q.msp = r.msp /\ p.msp # r.msp
         \/ q.url \in r.preferred /\ p.url \notin r.preferred

\* From the membership that a peer reports to the peer that the event client is
\* sent to: it was reported, by an org of the channel, and the channel does not
\* bar it as an event source under the address it is configured with; and where
\* such a peer was reported, and is configured, there is one to be sent to.
EventPeersAllowed(r, last, members, config, msps, channelPeers) ==
  LET address(p) == IF p.endpoint \in DOMAIN config THEN config[p.endpoint] ELSE p.endpoint
      known(p) == address(p) \in DOMAIN config \/ \E c \in channelPeers : c.url = address(p)
      barred(p) == \E c \in channelPeers : c.url = address(p) /\ ~c.eventSource
      allowed == {p \in members : Creatable(p) /\ p.msp \in msps /\ known(p) /\ ~barred(p)}
      chosen == Resolve(r, last, EventEndpoints(AsChannelPeers(members, config, msps), channelPeers, config))
  IN  /\ \A u \in {p.url : p \in chosen} : \E p \in allowed : address(p) = u
      /\ allowed # {} => chosen # {}
=============================================================================

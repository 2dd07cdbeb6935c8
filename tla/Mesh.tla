---------------------------------- MODULE Mesh ----------------------------------
(***************************************************************************)
(* How the peers of a match come to be connected (rtc.ts, and beginMesh()  *)
(* and the senders of main.ts): each offers to every higher seat, answers  *)
(* the lower ones, passes on its ICE candidates, and sends its pads over   *)
(* its data channels, or through the server as long as these are not all   *)
(* open.                                                                   *)
(*                                                                         *)
(* The server passes messages on in the order they were sent, after the    *)
(* start it has broadcast (Rooms).  External: RTCPeerConnection queues its *)
(* calls, finds candidates once it has a local description, and opens its  *)
(* channels, or never does, when both sides have both descriptions.        *)
(***************************************************************************)
EXTENDS Integers, Sequences, FiniteSets

CONSTANTS Peers  \* all in every roster

ASSUME MeshAssumption == IsFiniteSet(Peers) /\ Peers = 0 .. Cardinality(Peers) - 1

VARIABLES
  net,      \* <<from, to>> -> the messages on their way
  meshed,   \* seats whose beginMesh() has made a mesh
  offers,   \* seat -> remotes that are still to be offered to, lowest first
  links,    \* seat -> remote -> the connection to it
  lostIce,  \* <<seat, remote>> whose candidate was dropped
  sessions  \* seats with a LockstepSession

meshVars == <<net, meshed, offers, links, lostIce, sessions>>

Other(s) == Peers \ {s}
Channels == {"inp", "ctl"}
NoLink == [made |-> FALSE, remote |-> FALSE, todo |-> "-", sought |-> FALSE, cand |-> FALSE,
           inp |-> "none", ctl |-> "none"]
Made(s) == {r \in Other(s) : links[s][r].made}
Posted(from, to, m) == [net EXCEPT ![<<from, to>>] = Append(@, m)]
SetLink(s, r, link) == links' = [links EXCEPT ![s][r] = link]

(* meshOfferTargets() *)
OfferTargets(s) == [i \in 1 .. Cardinality({r \in Peers : r > s}) |-> s + i]

-------------------------------------------------------------------------------
MeshInit ==
  /\ net = [p \in {q \in Peers \X Peers : q[1] # q[2]} |-> <<>>]
  /\ meshed = {} /\ offers = [s \in Peers |-> <<>>]
  /\ links = [s \in Peers |-> [r \in Other(s) |-> NoLink]]
  /\ lostIce = {} /\ sessions = {}

(* onStart: the mesh is there at once, the offers are made one by one. *)
Begin(s) ==
  /\ s \notin meshed
  /\ meshed' = meshed \cup {s}
  /\ offers' = [offers EXCEPT ![s] = OfferTargets(s)]
  /\ UNCHANGED <<net, links, lostIce, sessions>>

(* offerTo(): a connection and its two channels, then createOffer() and     *)
(* setLocalDescription() are awaited.                                       *)
OfferTo(s) ==
  /\ s \in meshed /\ offers[s] # <<>>
  /\ LET r == Head(offers[s])
     IN  \/ /\ ~links[s][r].made
            /\ SetLink(s, r, [NoLink EXCEPT !.made = TRUE, !.inp = "bound", !.ctl = "bound"])
            /\ UNCHANGED <<net, offers>>
         \/ /\ links[s][r].made
            /\ net' = Posted(s, r, "offer")
            /\ SetLink(s, r, [links[s][r] EXCEPT !.sought = TRUE])
            /\ offers' = [offers EXCEPT ![s] = Tail(@)]
  /\ UNCHANGED <<meshed, lostIce, sessions>>

(* startLockstep(), when all offers have been made *)
StartSession(s) ==
  /\ s \in meshed \ sessions /\ offers[s] = <<>>
  /\ sessions' = sessions \cup {s}
  /\ UNCHANGED <<net, meshed, offers, links, lostIce>>

(* onicecandidate *)
Candidate(s, r) ==
  /\ links[s][r].sought
  /\ SetLink(s, r, [links[s][r] EXCEPT !.sought = FALSE])
  /\ net' = Posted(s, r, "ice")
  /\ UNCHANGED <<meshed, offers, lostIce, sessions>>

-------------------------------------------------------------------------------
\* Mutant: only an answer finds its connection.
HandleIceLate(link) == link.made /\ link.remote

(* handleIce(): without a connection the candidate is gone. *)
HandleIce(link) == link.made

(* onSdp and onIce of a peer that has a mesh: handleSdp() makes the         *)
(* connection at once and goes on when its calls have been answered.        *)
Deliver(r, s) ==
  /\ s \in meshed /\ net[<<r, s>>] # <<>>
  /\ LET m == Head(net[<<r, s>>])
         link == links[s][r]
     IN  /\ net' = [net EXCEPT ![<<r, s>>] = Tail(@)]
         /\ CASE m = "ice" ->
                   /\ lostIce' = IF HandleIce(link) THEN lostIce ELSE lostIce \cup {<<s, r>>}
                   /\ SetLink(s, r, [link EXCEPT !.cand = HandleIce(link)])
              [] m = "offer" ->
                   /\ SetLink(s, r, [link EXCEPT !.made = TRUE, !.todo = "answer"])
                   /\ UNCHANGED lostIce
              [] m = "answer" ->
                   /\ SetLink(s, r, [link EXCEPT !.made = TRUE, !.remote = TRUE])
                   /\ UNCHANGED lostIce
  /\ UNCHANGED <<meshed, offers, sessions>>

(* The rest of handleSdp() of an offer: the answer is set and sent. *)
Answer(s, r) ==
  /\ links[s][r].todo = "answer"
  /\ SetLink(s, r, [links[s][r] EXCEPT !.todo = "-", !.remote = TRUE, !.sought = TRUE])
  /\ net' = Posted(s, r, "answer")
  /\ UNCHANGED <<meshed, offers, lostIce, sessions>>

(* A channel opens at its offerer, or is brought to the answerer and opens  *)
(* there.                                                                   *)
Open(s, r, channel) ==
  /\ links[s][r].remote /\ links[r][s].remote /\ links[s][r].cand /\ links[r][s].cand
  /\ links[s][r][channel] # "open"
  /\ SetLink(s, r, [links[s][r] EXCEPT ![channel] = "open"])
  /\ UNCHANGED <<net, meshed, offers, lostIce, sessions>>

(* A connection fails, and its channels are closed on both sides. *)
Fail(s, r) ==
  /\ s < r /\ "open" \in {links[s][r].inp, links[s][r].ctl}
  /\ LET Closed(link) == [link EXCEPT !.inp = "closed", !.ctl = "closed", !.remote = FALSE]
     IN  links' = [links EXCEPT ![s][r] = Closed(@), ![r][s] = Closed(@)]
  /\ UNCHANGED <<net, meshed, offers, lostIce, sessions>>

MeshNext ==
  \/ \E s \in Peers : Begin(s) \/ OfferTo(s) \/ StartSession(s)
  \/ \E s, r \in Peers :
       /\ s # r
       /\ Candidate(s, r) \/ Deliver(r, s) \/ Answer(s, r) \/ Fail(s, r)
            \/ \E channel \in Channels : Open(s, r, channel)

MeshSpec == MeshInit /\ [][MeshNext]_meshVars

-------------------------------------------------------------------------------
(* openDataChannelCount() *)
OpenChannels(s) == {p \in Other(s) \X Channels : links[s][p[1]][p[2]] = "open"}
OpenCount(s) == Cardinality(OpenChannels(s))

\* Mutant: two for every peer that a channel is known of.
ExpectedBound(s) == 2 * Cardinality({r \in Other(s) : links[s][r].inp # "none"})

(* expectedDataChannelCount(): two for every connection *)
Expected(s) == 2 * Cardinality(Made(s))

(* shouldWsRelay(): through the server too, unless all channels are open. *)
ShouldRelay(s) == ~(Expected(s) > 0 /\ OpenCount(s) >= Expected(s))

(* sendInpAll() reaches a peer over its own channel or through the server. *)
Reaches(s, r) == ShouldRelay(s) \/ links[s][r].inp = "open"

-------------------------------------------------------------------------------
(* Once a peer has had the offers and answers of a remote, its pads reach   *)
(* it, whether the channels open, fail, or one of the two is late.          *)
EveryoneReached ==
  \A s \in sessions : \A r \in Other(s) :
    net[<<r, s>>] = <<>> /\ r \in sessions => Reaches(s, r)

(* No candidate overtakes the offer or answer it belongs to. *)
NoCandidateLost == lostIce = {}
===============================================================================

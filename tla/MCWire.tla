-------------------------------- MODULE MCWire ------------------------------
(***************************************************************************)
(* The connections tried: every protocol of both crates, within a crate and *)
(* from one to the other.                                                  *)
(***************************************************************************)
EXTENDS Wire

N == INSTANCE NetworkCodecs
M == INSTANCE Network2Codecs
L == INSTANCE LocalCodecs

\* At most n of the samples, evenly spread.
Spread(samples, n) ==
    LET step == (Len(samples) \div n) + 1
    IN  {samples[i] : i \in {j \in 1..Len(samples) : j % step = 1 \/ step = 1}}
Between(enc, dec) ==
    LET samples == Samples(dec)
    IN  [enc |-> enc, dec |-> dec, style |-> Own, unread |-> {},
         first |-> Spread(samples, 24), then |-> samples[1]]
Link(crate, lanes) == [crate |-> crate, lanes |-> lanes]

\* The messages of the node-to-node protocols.
OfNetwork == <<N!ChainSyncMessage(N!HeaderContent), N!BlockFetchMessage,
               N!PeerSharingMessage, N!TxSubmissionMessage,
               N!HandshakeMessage(N!VersionDataN2N), N!KeepAliveMessage>>
OfNetwork2 == <<M!ChainSyncMessage(M!HeaderContent), M!BlockFetchMessage,
                M!PeerSharingMessage, M!TxSubmissionMessage,
                M!HandshakeMessage(M!VersionDataN2N), M!KeepAliveMessage>>
OfLeios == <<M!LeiosNotifyMessage, M!LeiosFetchMessage>>
\* Those of the node-to-client protocols.
AnswerList == L!Answers(N!Point)
OfClients ==
    <<N!HandshakeMessage(N!VersionDataN2C), N!ChainSyncMessage(N!BlockContent),
      N!ChainSyncMessage(N!SkippedContent), L!LocalStateMessage(N!Point, L!Request, AnyCbor),
      L!LocalMsgSubmissionMessage, L!LocalMsgNotificationMessage>>
    \o Tupled([i \in 1..Len(AnswerList) |->
          L!LocalStateMessage(N!Point, AnyCbor, AnswerList[i].of)])
OfMonitor == <<L!TxMonitorMessage>>
\* The submission of transactions: rejections come from a node, which writes
\* them as they are read, or from a server of the crate.
Submissions ==
    LET codec == L!LocalTxSubmissionMessage
        all == Samples(codec)
        rejected == SelectSeq(all, LAMBDA m : m[1] = "RejectTx")
        others == SelectSeq(all, LAMBDA m : m[1] # "RejectTx")
        lane == Between(codec, codec)
        fromNode == [lane EXCEPT !.style = [Own EXCEPT !.own = FALSE]]
        fromCrate == [lane EXCEPT !.unread = {"RejectTx"},
                        !.first = Spread(rejected, 8) \cup Spread(others, Len(others))]
    IN  <<Link("network", <<fromNode>>), Link("network", <<fromCrate>>)>>

\* Beside each protocol runs keep-alive, with one exchange.
Ping(codec) == [enc |-> codec, dec |-> codec, style |-> Own, unread |-> {},
                first |-> {<<"KeepAlive", <<Num(1)>>>>}, then |-> <<"Done", <<>>>>]
PingN == Ping(OfNetwork[6])
PingM == Ping(OfNetwork2[6])
\* Messages with a label of a later version, and of a protocol the receiver
\* does not have.
Later == <<Variant(<<Case(99, "Later", <<U8>>)>>)>>
LaterTo(dec) == [enc |-> Later[1], dec |-> dec, style |-> Own, unread |-> {"Later"},
                 first |-> {<<"Later", <<Num(1)>>>>}, then |-> <<"Later", <<Num(1)>>>>]

Pairs2(crate, encs, decs, ping) ==
    Tupled([i \in 1..Len(encs) |-> Link(crate, <<Between(encs[i], decs[i]), ping>>)])
LinkTable ==
    Pairs2("network", OfNetwork, OfNetwork, PingN)
    \o Pairs2("network", OfNetwork2, OfNetwork, PingN)
    \o Pairs2("network2", OfNetwork2, OfNetwork2, PingM)
    \o Pairs2("network2", OfNetwork, OfNetwork2, PingM)
    \o Pairs2("network2", OfLeios, OfLeios, PingM)
    \o <<Link("network", <<LaterTo(OfNetwork[2]), PingN>>),
         Link("network2", <<LaterTo(OfNetwork2[2]), PingM>>),
         Link("network2", <<LaterTo(Unsupported), PingM>>)>>
    \o Tupled([i \in 1..Len(OfClients) |->
          Link("network", <<Between(OfClients[i], OfClients[i])>>)])
    \o Submissions
\* The last one is txmonitor's, which has a run of its own.
AllLinks == Append(LinkTable, Link("network", <<Between(OfMonitor[1], OfMonitor[1])>>))
MCLinkAt(i) == LET table == AllLinks IN table[i]
MCLinks == 1..Len(LinkTable)
MonitorLinks == {Len(AllLinks)}
=============================================================================

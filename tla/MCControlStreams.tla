-------------------------- MODULE MCControlStreams --------------------------
(* Instances of ControlStreams: a peer that sends anything, and two ends.  *)
EXTENDS ControlStreams

Plain(capacity) == IF capacity = 0 THEN NoSettings
                   ELSE With(NoSettings, "QPACK_MAX_TABLE_CAPACITY", capacity)
Offer(role, drafts, n) ==
    EnableWebtransport(role, WithMaxima(ForDraftVersions(drafts, 1), n))

\* A peer of the library: e, against scripts of its three streams.
Scripted1(e, opens, local, previous, one, two, three) ==
    [local |-> [x \in Ends |-> IF x = e THEN local ELSE NoSettings],
     limit |-> [x \in Ends |-> 4], previous |-> previous, resetAt |-> TRUE, goaways |-> FALSE,
     opens |-> opens,
     scripted |-> {Peer(e)}, script |-> [x \in {Peer(e)} |-> <<one, two, three>>]]

Wire(s) == SettingsFrame(FromSettings(s))
Good == Wire(Plain(2))
Bad == {SettingsFrame(<< <<"HTTP2", 0>> >>), SettingsFrame(<< <<"H3_DATAGRAM", 2>> >>),
        SettingsFrame(<< <<"GREASE", 1>>, <<"GREASE", 2>> >>),
        SettingsFrame(<< <<"WT_ENABLED", 2>> >>)}
Frame(k) == Type(k)
AnyFrame == {Good, Goaway(0), Goaway(4), Goaway(6), MaxPushId(0), MaxPushId(1), Frame("unknown"),
        Frame("data"), Frame("headers"), Frame("push"), Frame("http2"), Frame("wtstream"),
        Frame("malformed")}

\* Any first frame; any frame behind SETTINGS, and any behind one that may be
\* accepted there.
Lasting == {Goaway(0), Goaway(4), Goaway(6), MaxPushId(0), MaxPushId(1), Frame("unknown")}
Controls == {<<Type("control"), f>> : f \in AnyFrame \cup Bad} \cup
            {<<Type("control"), Good, f>> : f \in AnyFrame} \cup
            {<<Type("control"), Good, f, g>> : f \in Lasting, g \in AnyFrame}
FrameScopes ==
    {Scripted1(e, {}, Plain(0), NoSettings, c, <<>>, <<>>) : e \in Ends, c \in Controls}

\* Types: each beside a control stream, and two of a kind.
Encoder(n) == <<Type("encoder"), SetCapacity(n)>>
Decoder(k) == <<Type("decoder"), Frame(k)>>
Kinds == {<<Type("control"), Good>>, Encoder(2), Encoder(3), Decoder("cancel"), Decoder("ack"),
          <<Type("push")>>, <<Type("unknown"), Frame("x")>>}
Pairs == (Kinds \X {<<>>}) \cup
         ({Encoder(2), Decoder("cancel")} \X {Encoder(2), Decoder("cancel")})
TypeScopes ==
    {Scripted1(e, {"decoder"}, Plain(2), NoSettings, <<Type("control"), Good>>, p[1], p[2])
        : e \in Ends, p \in Pairs}

\* A resumed session whose limits may have shrunk.
Resumed(d) ==
    {Scripted1("client", {}, Offer("client", d, 5), Offer("server", d, 5),
               <<Type("control"), Wire(Offer("server", f, n))>>, <<>>, <<>>)
        : f \in {{"14"}, {"15"}, {"17"}}, n \in {4, 5}}
ResumedScopes == Resumed({"14"}) \cup Resumed({"15"}) \cup Resumed({"14", "17"})

Both(client, server, opens, resetAt, goaways) ==
    [local |-> [x \in Ends |-> IF x = "client" THEN client ELSE server],
     opens |-> opens, limit |-> [x \in Ends |-> 3], previous |-> NoSettings, resetAt |-> resetAt,
     goaways |-> goaways, scripted |-> {}, script |-> <<>>]
CapacityScopes == {Both(Plain(a), Plain(b), {"control", "encoder"}, TRUE, FALSE) : a \in {0, 2}, b \in {4}}
GoawayScopes == {Both(NoSettings, NoSettings, {"control"}, TRUE, TRUE)}

\* Every pair of offers, and the settings made for one draft.
NegotiationScopes ==
    {Both(Offer("client", c, p[1]), Offer("server", s, p[2]), {"control"}, p[3], FALSE)
        : c, s \in {{}, {"17"}, {"15"}, {"14"}, {"07"}, {"15", "17"}, {"07", "14"}, {"14", "15"}},
          p \in {<<5, 5, TRUE>>, <<5, 0, TRUE>>, <<0, 5, TRUE>>, <<0, 0, FALSE>>}} \cup
    {Both(EnableWebtransport("client", BuildClientSettings(d, 5)),
          EnableWebtransport("server", BuildServerSettings(d, 5)), {"control"}, TRUE, FALSE)
        : d \in Range(DraftOrder)}

MCScopes == FrameScopes \cup TypeScopes \cup ResumedScopes \cup CapacityScopes \cup GoawayScopes
            \cup NegotiationScopes
=============================================================================

------------------------------- MODULE MCMcp -------------------------------
(* Small instances of McpService for TLC.                                    *)
EXTENDS McpService, TLC

CONSTANTS c1, c2, i1, i2

\* Two servers, and a tool the separator "-" does not split.
MCReadWords == {"get"}
MCWriteWords == {"create"}

MCWordsOf ==
    ("get_issue" :> <<"get", "issue">>) @@ ("create_issue" :> <<"create", "issue">>)
    @@ ("hub-get_issue" :> <<"hub", "get", "issue">>)
    @@ ("hub-create_issue" :> <<"hub", "create", "issue">>)
    @@ ("hub" :> <<"hub">>) @@ ("ungrouped" :> <<"ungrouped">>)
    @@ ("text" :> <<"issue">>) @@ ("issue" :> <<"issue">>)

Parts(server, own) == [server |-> server, own |-> own]

MCSplit ==
    ("-" :> (("hub-get_issue" :> Parts("hub", "get_issue"))
          @@ ("hub-create_issue" :> Parts("hub", "create_issue"))))
    @@ ("__" :> (("hub-get_issue" :> Parts("ungrouped", "hub-get_issue"))
              @@ ("hub-create_issue" :> Parts("ungrouped", "hub-create_issue"))))

MCBefore == {<<"hub-create_issue", "hub-get_issue">>}

Tool(name) == [name |-> name, description |-> "text", annotations |-> NoAnnotations]

\* One name is listed twice.
MCListings ==
    [i \in {i1, i2} |->
        {<<Tool("hub-get_issue"), Tool("hub-create_issue"), Tool("hub-create_issue")>>}]

AsGrouped(cap) == [cap |-> cap, separator |-> "-", allow |-> {"hub-create_issue"}]
AsUngrouped(cap) == [cap |-> cap, separator |-> "__", allow |-> {"hub-get_issue"}]

CallOf(name) == [op |-> "call", name |-> name]
ActivateOf(server) == [op |-> "activate", server |-> server]

MCSections == <<AsGrouped(2), AsUngrouped(1), AsGrouped(2)>>
MCEarlier == {AsUngrouped(1)}
MCRequest ==
    (c1 :> {CallOf("hub-create_issue")})
    @@ (c2 :> {CallOf("hub-get_issue"), ActivateOf("hub"), [op |-> "check"],
               [op |-> "team"]})

MCSymmetry == Permutations({i1, i2})

\* For liveness: one slot, no edit, and three requests, of one identity.
MCOneSection == <<AsGrouped(1)>>
MCNoEarlier == {}
MCCallsOnly ==
    (c1 :> {ActivateOf("hub"), CallOf("hub-create_issue")})
    @@ (c2 :> {CallOf("hub-get_issue"), [op |-> "search", query |-> "issue"],
               [op |-> "check"]})
MCAnyAsks == (c1 :> {"inline", "mute"}) @@ (c2 :> {"peer"})

MCAsks == (c1 :> {"inline"}) @@ (c2 :> {"peer"})
=============================================================================

---------------------------- MODULE MCCallChain ----------------------------
EXTENDS CallChain

MCHeaderKind ==
    [h \in Headers |-> IF h = "x-key-bin" THEN "binary" ELSE "ascii"]

(* A text, a longer one that begins with it, one that cannot be sent, and  *)
(* one that can be sent but not read.                                      *)
MCBearer == [type : {"bearer"}, text : {<<1>>, <<1, 2>>, <<0>>, <<3>>}]
MCApiKey ==
    [type : {"api_key"}, header : {"x-key", "x-key-bin", "x-request-id"}, text : {<<1>>}]
        \cup [type : {"api_key"}, header : {"x-key"}, text : {<<1, 2>>, << >>}]
MCCustom == [type : {"custom"}, verdict : {"ok", "PermissionDenied"}]

MCAuths == MCBearer \cup MCApiKey \cup MCCustom

MCChains == {<<"request_id", "auth">>, <<"auth", "passive", "request_id">>, << >>}

MCFirst == [chain : MCChains, client : MCAuths, server : MCAuths]

(* The second hop is set up in one of four ways.                           *)
MCSecond ==
    {[chain |-> c, client |-> k, server |-> [type |-> "bearer", text |-> <<1>>]] :
        c \in {<<"request_id", "auth">>, <<"auth">>},
        k \in [type : {"bearer"}, text : {<<1>>, <<1, 2>>}]}

MCSettings == {<<first, second>> : first \in MCFirst, second \in MCSecond}

MCByte == 0..9
MCUnprintable == {<<0>>, <<3>>}
MCUnparsable == {<<0>>}
MCOwnIds == {Absent, Plain(<<7>>), Plain(<<3>>)}
MCReadings == {Plain(<<8>>), Plain(<<9>>)}

=============================================================================

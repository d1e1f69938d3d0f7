----------------------------- MODULE MCSnapIdl -----------------------------
EXTENDS SnapIdl

Type(name, default, number, max, item) ==
  [name |-> name, default |-> default, number |-> number, max |-> max, item |-> item]
Named(name) == Type(name, "", <<>>, <<>>, <<>>)
Field(name, type) == [kind |-> "field", name |-> name, type |-> type]
ArrayOf(item) == Type("array", "", <<>>, <<2>>, <<item>>)

Import(file) == [kind |-> "import", file |-> file]
Enum(values) == [kind |-> "enum", name |-> "Team", values |-> values]
Struct(body) == [kind |-> "struct", name |-> "S", body |-> body]
Component(name, body) == [kind |-> "component", name |-> name, body |-> body]
Ref(name, component) == [name |-> name, component |-> component]
Endpoint(name, components, rpcs) ==
  [kind |-> "endpoint", name |-> name, components |-> components, rpcs |-> rpcs]
Entity(name, components, rpcs) ==
  [kind |-> "entity", name |-> name, components |-> components, rpcs |-> rpcs]
Rpc(kind, name, args) == [kind |-> kind, name |-> name, args |-> args]

U8(default) == Field("x", Type("u8", "", default, <<>>, <<>>))
Text(max) == Field("y", Type("string", "", <<>>, <<max>>, <<>>))
Quantized(options) == Field("q", Type("qf32", "", options, options, <<>>))

AllDeclarations ==
  [ game |-> { Import("common"), Struct(<<Text(8)>>),
               Component("C", <<U8(<<1>>), [kind |-> "spread", name |-> "S"]>>),
               Component("PeerState",
                         <<U8(<<300>>), Field("a", ArrayOf(Type("Team", "red", <<>>, <<>>, <<>>)))>>),
               Component("TeamValues", <<Quantized(<<1>>)>>),
               Endpoint("Peer", <<Ref("t", "TeamValues")>>, <<Rpc("event", "Go", <<U8(<<>>)>>)>>),
               Entity("E", <<>>, <<Rpc("stream", "Go", <<Text(4)>>),
                                   Rpc("command", "GoGo", <<Field("in", Named("S"))>>)>>),
               Entity("EGo", <<Ref("c", "C"), Ref("t", "TeamValues")>>, <<Rpc("event", "Go", <<>>)>>) },
    common |-> { Import("teams"), Import("game") },
    teams |-> { Enum(<<"red", "blue">>), Enum(<<"blue", "red">>) } ]
=============================================================================

------------------------------ MODULE SnapIdl ------------------------------
(***************************************************************************)
(* The .snap compiler: an author edits source files, and builds of client  *)
(* and server are compiled from them at different times.  A build carries  *)
(* a hash of its manifest; peers with equal hashes talk to each other, and *)
(* then read each other's packets by the layouts of their own build.       *)
(*                                                                         *)
(* A declaration is a record as the parser makes it.  A type is a record   *)
(* of what the compiler and the field helpers look at: the name, a text as *)
(* default ("": none) and, as sequences of at most one, a number as        *)
(* default, a maximum and the item of an array.  The arguments of one RPC  *)
(* have different names, and no name is a reserved word.                   *)
(***************************************************************************)
EXTENDS Integers, Sequences, SequencesExt, FiniteSets

CONSTANTS
  Root,             \* the file that is compiled
  Menu,             \* the declarations the author may write, per file
  FieldHelpers,     \* field types of the language, those of the model
  MaxFields,        \* fields of one definition
  MaxDeclarations   \* bound: declarations in all files

ASSUME SnapAssumption == Root \in DOMAIN Menu /\ {MaxFields, MaxDeclarations} \subseteq Nat

VARIABLES files,    \* the declarations in each file
          built     \* an earlier build, NoBuild before it

vars == <<files, built>>

NoBuild == [ok |-> FALSE]

-----------------------------------------------------------------------------
(* Loading.                                                                *)

RECURSIVE Visit(_, _, _)

Importable(file, imported) == file \notin imported

\* The declarations of a file behind those of its imports, the last import
\* first.  active are the files being visited, imported all so far.
Visit(file, active, imported) ==
  LET Include(sofar, d) ==
        IF ~sofar.ok THEN sofar
        ELSE IF d.kind # "import"
        THEN [sofar EXCEPT !.declarations = Append(@, d)]
        ELSE IF ~Importable(d.file, sofar.imported) THEN [sofar EXCEPT !.ok = FALSE]
        ELSE LET sub == Visit(d.file, active \cup {file}, sofar.imported \cup {d.file})
             IN  [sub EXCEPT !.declarations = @ \o sofar.declarations]
  IN  FoldLeft(Include,
               [ok |-> file \notin active, imported |-> imported, declarations |-> <<>>],
               files[file])

-----------------------------------------------------------------------------
(* Checking.                                                               *)

Of(ast, kinds) == SelectSeq(ast, LAMBDA d : d.kind \in kinds)
Endpoints(ast) == Of(ast, {"endpoint", "entity"})

ByName(ast, kind) ==
  LET D == ToSet(Of(ast, {kind}))
  IN  [n \in {d.name : d \in D} |-> CHOOSE d \in D : d.name = n]

Context(ast) == [enums |-> ByName(ast, "enum"), structs |-> ByName(ast, "struct")]

NamesOf(fields) == {fields[i].name : i \in DOMAIN fields}
KnownType(context, name) == name \in FieldHelpers \cup DOMAIN context.enums

RECURSIVE Expand(_, _, _)

\* The fields of a body, those of a spread struct in its place.
Expand(context, body, stack) ==
  LET Rejected == [ok |-> FALSE, fields |-> <<>>]
      Part(item) ==
        IF item.kind = "field"
        THEN [ok |-> KnownType(context, item.type.name), fields |-> <<item>>]
        ELSE IF item.name \notin DOMAIN context.structs \/ item.name \in stack THEN Rejected
        ELSE Expand(context, context.structs[item.name].body, stack \cup {item.name})
      Include(sofar, item) ==
        LET part == Part(item) IN
        IF sofar.ok /\ part.ok /\ NamesOf(sofar.fields) \cap NamesOf(part.fields) = {}
        THEN [sofar EXCEPT !.fields = @ \o part.fields]
        ELSE Rejected
  IN  FoldLeft(Include, [ok |-> TRUE, fields |-> <<>>], body)

\* A name that is given twice to components stands for the later one.
Members(items) ==
  [n \in NamesOf(items) |-> Last(SelectSeq(items, LAMBDA item : item.name = n)).component]

IsStruct(context, arg) == arg.type.name \in DOMAIN context.structs
Spread(arg) == <<[kind |-> "spread", name |-> arg.type.name]>>

ComponentFields(context, c) == Expand(context, c.body, {c.name}).fields

\* A struct is spread when it is the only argument.
RpcFields(context, rpc) ==
  IF Len(rpc.args) = 1 /\ IsStruct(context, rpc.args[1])
  THEN Expand(context, Spread(rpc.args[1]), {rpc.name}).fields
  ELSE rpc.args

\* validateAst and buildContext.
Checked(ast) ==
  LET context == Context(ast)
      components == ByName(ast, "component")
  IN  /\ \A i, j \in DOMAIN ast : ast[i].name = ast[j].name => i = j
      /\ \A c \in ToSet(Of(ast, {"component"})) : Expand(context, c.body, {c.name}).ok
      /\ \A d \in ToSet(Endpoints(ast)) :
           /\ \A item \in ToSet(d.components) : item.component \in DOMAIN components
           /\ \A rpc \in ToSet(d.rpcs) : \A arg \in ToSet(rpc.args) :
                IF IsStruct(context, arg)
                THEN Expand(context, Spread(arg), {d.name, rpc.name}).ok
                ELSE KnownType(context, arg.type.name)
      /\ \A e \in ToSet(Of(ast, {"enum"})) : e.values # <<>> /\ IsInjective(e.values)

-----------------------------------------------------------------------------
(* The manifest.  Ids are positions; the hash is taken of all of it, with  *)
(* keys sorted, so that it stands for the manifest as a value.             *)

FieldIds(fields) ==
  [n \in NamesOf(fields) |-> (CHOOSE i \in DOMAIN fields : fields[i].name = n) - 1]
FieldTypes(fields) ==
  [n \in NamesOf(fields) |-> (CHOOSE f \in ToSet(fields) : f.name = n).type]

\* Mutant: the order of the values is not recorded.
UnorderedValues(e) == ToSet(e.values)

LockedValues(e) == e.values

\* All RPCs in order of declaration, with the name of their endpoint.
Rpcs(ast) ==
  FlattenSeq([i \in DOMAIN Endpoints(ast) |->
    LET d == Endpoints(ast)[i]
    IN  [j \in DOMAIN d.rpcs |-> [endpoint |-> d.name, place |-> j, rpc |-> d.rpcs[j]]]])

\* Mutant: the ids of RPCs start again in every endpoint.
RpcIdInEndpoint(ast, i) == Rpcs(ast)[i].place

RpcId(ast, i) == i

RuntimeName(entry) == <<entry.endpoint, entry.rpc.name>>

Locked(id, fields) == [id |-> id, fields |-> FieldIds(fields), types |-> FieldTypes(fields)]

\* A later RPC of the same kind and name takes the place of the earlier.
LockedRpcs(ast, kind) ==
  LET rpcs == Rpcs(ast)
      places == {i \in DOMAIN rpcs : rpcs[i].rpc.kind = kind}
      last(n) == CHOOSE i \in places :
                   /\ RuntimeName(rpcs[i]) = n
                   /\ \A j \in places : RuntimeName(rpcs[j]) = n => j <= i
  IN  [n \in {RuntimeName(rpcs[i]) : i \in places} |->
         Locked(RpcId(ast, last(n)), RpcFields(Context(ast), rpcs[last(n)].rpc))]

Manifest(ast) ==
  LET Place(kind, name) ==
        SelectInSeq(Of(ast, {kind}), LAMBDA d : d.name = name)
      components == ByName(ast, "component")
      enums == ByName(ast, "enum")
  IN  [ enums      |-> [n \in DOMAIN enums |-> LockedValues(enums[n])],
        components |-> [n \in DOMAIN components |->
                          Locked(Place("component", n),
                                 ComponentFields(Context(ast), components[n]))],
        endpoints  |-> [n \in {d.name : d \in ToSet(Endpoints(ast))} |->
                          Members((CHOOSE d \in ToSet(Endpoints(ast)) : d.name = n).components)],
        entities   |-> [n \in DOMAIN ByName(ast, "entity") |-> Place("entity", n)],
        commands   |-> LockedRpcs(ast, "command"),
        events     |-> LockedRpcs(ast, "event"),
        streams    |-> LockedRpcs(ast, "stream") ]

-----------------------------------------------------------------------------
(* The generated module.                                                   *)

RECURSIVE Emits(_, _), Codec(_, _)

\* The compiler finds what the call of the field helper needs.
Emits(context, type) ==
  CASE type.name \in DOMAIN context.enums -> Contains(context.enums[type.name].values, type.default)
    [] type.name \in {"string", "bytes"}  -> type.max # <<>>
    [] type.name = "array"                -> /\ type.item # <<>> /\ type.max # <<>>
                                             /\ Emits(context, type.item[1])
    [] OTHER                              -> TRUE

\* The call of a field helper: its name, values of an enum, defaults, maximum and
\* item; 0 stands for false too.  A name that is neither an enum nor a field type
\* is called all the same.
Codec(context, type) ==
  LET call == [helper |-> type.name, values |-> <<>>, default |-> type.default,
               number |-> type.number, max |-> type.max, item |-> <<>>]
  IN  CASE type.name \in DOMAIN context.enums ->
             [call EXCEPT !.helper = "enumOf", !.values = context.enums[type.name].values]
        [] type.name = "string" -> [call EXCEPT !.helper = "stringOf"]
        [] type.name = "bytes" -> [call EXCEPT !.helper = "bytesOf", !.default = ""]
        [] type.name = "array" ->
             [call EXCEPT !.helper = "arrayOf", !.default = "",
                          !.item = <<Codec(context, type.item[1])>>]
        [] type.number = <<>> /\ type.max = <<>> -> [call EXCEPT !.number = <<0>>]
        [] OTHER -> call

\* The fields of a schema in the order they are written, each with its bit.
Layout(context, fields) ==
  [i \in DOMAIN fields |-> [ name  |-> fields[i].name, id |-> FieldIds(fields)[fields[i].name],
                             codec |-> Codec(context, fields[i].type) ]]

NeedsPeerEntity(ast) ==
  Rpcs(ast) # <<>> \/ \E d \in ToSet(ast) : d.kind = "endpoint" /\ d.name = "Peer"

\* Peer has PeerState, and the components of peer {}.
Prefabs(ast) ==
  LET entities == Of(ast, {"entity"})
      peer == Of(SelectSeq(ast, LAMBDA d : d.name = "Peer"), {"endpoint"})
      own  == IF peer = <<>> THEN <<>> ELSE peer[1].components
      state == <<[name |-> "peerState", component |-> "PeerState"]>>
  IN  (IF NeedsPeerEntity(ast)
       THEN <<[id |-> 0, name |-> "Peer", components |-> Members(state \o own)]>> ELSE <<>>)
      \o [i \in DOMAIN entities |-> [ id |-> i, name |-> entities[i].name,
                                      components |-> Members(entities[i].components) ]]

Components(ast) ==
  LET components == Of(ast, {"component"})
  IN  [i \in DOMAIN components |->
         [ id     |-> i, name |-> components[i].name,
           fields |-> Layout(Context(ast), ComponentFields(Context(ast), components[i])) ]]

Definitions(ast) ==
  LET rpcs == Rpcs(ast)
  IN  [i \in DOMAIN rpcs |->
         [ id     |-> LockedRpcs(ast, rpcs[i].rpc.kind)[RuntimeName(rpcs[i])].id,
           name   |-> RuntimeName(rpcs[i]), kind |-> rpcs[i].rpc.kind,
           fields |-> Layout(Context(ast), RpcFields(Context(ast), rpcs[i].rpc)) ]]

StructBodies(ast) ==
  {Expand(Context(ast), s.body, {s.name}) : s \in ToSet(Of(ast, {"struct"}))}

DefinitionBodies(ast) ==
  {ComponentFields(Context(ast), c) : c \in ToSet(Of(ast, {"component"}))}
    \cup {RpcFields(Context(ast), entry.rpc) : entry \in ToSet(Rpcs(ast))}

\* The types of all that is written out, structs that nothing uses included.
EmittedTypes(ast) ==
  UNION { {f.type : f \in ToSet(fields)} :
            fields \in DefinitionBodies(ast) \cup {s.fields : s \in StructBodies(ast)} }

Emitted(ast) ==
  /\ \A s \in StructBodies(ast) : s.ok
  /\ \A fields \in DefinitionBodies(ast) : Len(fields) <= MaxFields
  /\ \A type \in EmittedTypes(ast) : Emits(Context(ast), type)

Sources == Visit(Root, {}, {})

Accepted(loaded) ==
  loaded.ok /\ Checked(loaded.declarations) /\ Emitted(loaded.declarations)

Compile ==
  LET loaded == Sources
      ast == loaded.declarations
  IN  IF ~Accepted(loaded) THEN NoBuild
      ELSE [ ok         |-> TRUE,
             hash       |-> Manifest(ast),
             components |-> Components(ast),
             prefabs    |-> Prefabs(ast),
             rpcs       |-> Definitions(ast) ]

-----------------------------------------------------------------------------
(* The import of the generated module.                                     *)

Calls(ast) == {Codec(Context(ast), type) : type \in EmittedTypes(ast)}

RECURSIVE HelpersOf(_)
HelpersOf(call) ==
  {call.helper} \cup IF call.item = <<>> THEN {} ELSE HelpersOf(call.item[1])

Imports(ast) ==
  {"defineComponent", "defineEntity", "defineCommand", "defineEvent", "defineProtocol",
   "defineStream", "WorldEntity"}
    \cup (IF NeedsPeerEntity(ast) THEN {"PeerState"} ELSE {})
    \cup UNION {HelpersOf(call) : call \in Calls(ast)}

\* The names that the module declares, in its order.
Consts(ast) ==
  LET names(D) == [i \in DOMAIN D |-> D[i].name]
      rpcs == Rpcs(ast)
  IN  [i \in DOMAIN Of(ast, {"enum"}) |-> Of(ast, {"enum"})[i].name \o "Values"]
      \o [i \in DOMAIN Of(ast, {"struct"}) |-> Of(ast, {"struct"})[i].name \o "Fields"]
      \o names(Components(ast)) \o names(Prefabs(ast))
      \o [i \in DOMAIN rpcs |-> rpcs[i].endpoint \o rpcs[i].rpc.name]
      \o <<"protocolHash", "protocol", "internal", "worldEndpoint", "peerEndpoint",
           "entityEndpoint", "validateEndpointCtx">>

RECURSIVE Accepts(_)

\* The helper is one that SnapScript exports, and does not refuse its arguments.
Accepts(call) ==
  LET max == call.max[1]
      default == call.number[1]
  IN  CASE call.helper = "enumOf"   -> TRUE
        [] call.helper = "bool"     -> TRUE
        [] call.helper = "u8"       -> call.number # <<>> /\ default \in 0..255
        [] call.helper = "i8"       -> call.number # <<>> /\ default \in -128..127
        [] call.helper = "qf32"     -> call.max # <<>> /\ call.number # <<>> /\ max > 0
        [] call.helper = "stringOf" -> Len(call.default) <= max
        [] call.helper = "bytesOf"  -> max >= 0
        [] call.helper = "arrayOf"  -> max >= 0 /\ Accepts(call.item[1])
        [] OTHER                    -> FALSE

\* The module runs up to defineProtocol: no name is declared twice, and every field
\* helper returns.
Evaluates(ast) ==
  /\ IsInjective(Consts(ast))
  /\ ToSet(Consts(ast)) \cap Imports(ast) = {}
  /\ \A call \in Calls(ast) : Accepts(call)

\* An entity without components gets one of its own, with its name and its id.
Primary(prefabs) == SelectSeq(prefabs, LAMBDA p : DOMAIN p.components = {})

Entries(definitions) ==
  {[id |-> definitions[i].id, name |-> definitions[i].name] : i \in DOMAIN definitions}

\* The components that defineProtocol registers.
RegisteredComponents(ast) ==
  (IF NeedsPeerEntity(ast) THEN {[id |-> 0, name |-> "PeerState"]} ELSE {})
    \cup Entries(Components(ast)) \cup Entries(Primary(Prefabs(ast)))

\* A registry refuses an id or a name that another definition has.
Registers(entries) ==
  \A a, b \in entries : a.id = b.id \/ a.name = b.name => a = b

-----------------------------------------------------------------------------

Init ==
  /\ files = [f \in DOMAIN Menu |-> <<>>]
  /\ built = NoBuild

\* The author writes a declaration anywhere in a file, or deletes one.
Write(f, i, d) ==
  /\ FoldLeft(LAMBDA n, g : n + Len(files[g]), 0, SetToSeq(DOMAIN files)) < MaxDeclarations
  /\ files' = [files EXCEPT ![f] = InsertAt(@, i, d)]
  /\ UNCHANGED built

Erase(f, i) ==
  /\ files' = [files EXCEPT ![f] = RemoveAt(@, i)]
  /\ UNCHANGED built

\* One side is built from the sources as they are.
Build ==
  /\ Accepted(Sources)
  /\ built' = Compile
  /\ UNCHANGED files

Next ==
  \/ \E f \in DOMAIN Menu : \E i \in 1..(Len(files[f]) + 1), d \in Menu[f] : Write(f, i, d)
  \/ \E f \in DOMAIN Menu : \E i \in DOMAIN files[f] : Erase(f, i)
  \/ Build

Spec == Init /\ [][Next]_vars

-----------------------------------------------------------------------------

\* Builds with the same hash, whatever sources they come from, write and read
\* the same bytes: the same components and RPCs under the same ids, with the same
\* fields, bits, codecs and defaults, and the same prefabs.  (The hash does not
\* cover channels: how reliably an RPC is sent is the sender's business.)
LayoutsAgree ==
  LET now == Compile IN
  built.ok /\ now.ok /\ now.hash = built.hash =>
    /\ now.components = built.components
    /\ now.prefabs = built.prefabs
    /\ now.rpcs = built.rpcs

\* The ids that the compiler gives by position, over all endpoints, imported files
\* and built-in definitions, are never given twice, but for one case: of a module
\* that runs up to defineProtocol, all RPCs are registered there, and all components
\* unless an entity without components stands at the position of a component.
GeneratedLoads ==
  LET loaded == Sources
      ast == loaded.declarations
      positions(D) == {D[i].id : i \in DOMAIN D}
  IN  Accepted(loaded) /\ Evaluates(ast) =>
        /\ Registers(Entries(Definitions(ast)))
        /\ Registers(RegisteredComponents(ast)) <=>
             positions(Primary(Prefabs(ast))) \cap positions(Components(ast)) = {}
=============================================================================

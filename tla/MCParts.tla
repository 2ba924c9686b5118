------------------------------- MODULE MCParts -------------------------------
(***************************************************************************)
(* The components that share no state with the others, explored in one     *)
(* run: `part` is the one that moves, the others stay where they began.    *)
(***************************************************************************)
EXTENDS VaultStore, ServiceTokens, HttpCalls, RunCommand, ProxyCerts, Daemon, CommandCalls,
        SkillSync, InstructionFile, OpenApiImport, ProxyRequests, OutputFilter, Aliases

VARIABLE part

partVars == <<part, vaultVars, tokenVars, httpVars, runVars, certVars, daemonVars, commandVars,
              syncVars, fileVars, importVars, proxyVars, filterVars, aliasVars>>

-----------------------------------------------------------------------------
TheWords == <<"w1", "w2", "w3">>

\* Local commands, one dimension at a time: what is checked, how the process may
\* end, and the arguments.  Without success_codes only 0 is listed.
TheArgNames == <<"owner", "path", "repo">>
Call == [adapter |-> "command", lacks |-> {}, manifestOnly |-> FALSE, success |-> {"zero"},
         order |-> TheArgNames, style |-> [n \in ToSet(TheArgNames) |-> "flag"],
         input |-> [n \in ToSet(TheArgNames) |-> "text"]]
Script == [Call EXCEPT !.adapter = "applescript"]
CallWith(sequence, path, repo, input) ==
  [Call EXCEPT !.order = sequence, !.style = [owner |-> "meta", path |-> path, repo |-> repo],
               !.input = input]
OfValue(n, v) == IF v = "absent" THEN << >> ELSE n :> v
TheActions ==
  {[Call EXCEPT !.lacks = l] : l \in SUBSET {"executable", "allowlist", "permission"}}
  \union {[Call EXCEPT !.success = s] : s \in {{"zero", "other"}, {"other"}}}
  \union {[Script EXCEPT !.lacks = l, !.manifestOnly = m] : m \in BOOLEAN,
            l \in {k \in SUBSET (Lacks \ {"executable", "allowlist", "permission"}) : Cardinality(k) < 3}}
  \union {CallWith(TheArgNames, p, r,
                   [Call.input EXCEPT !["path"] = IF p = "boolean" THEN "true" ELSE "text"]) :
            p \in Styles, r \in Styles \ {"boolean"}}
  \union {CallWith(<<"repo", "path", "owner">>, p, r,
                   OfValue("owner", o) @@ OfValue("repo", v)
                     @@ ("path" :> IF p = "boolean" THEN "false" ELSE f)) :
            p \in {"flag", "boolean", "positional"}, r \in {"positional", "repo-positional", "repo-flag"},
            o \in {"absent", "blank", "text"}, v \in {"absent", "blank", "text", "slashed"},
            f \in {"blank", "true"}}

\* Four services: a fixed host with and without a port, a glob and any host;
\* paths that are exact, have parameters for a segment or a part of one, or are
\* wildcards; and what a schema may hold.
Host(name, port) == [name |-> name, port |-> port]
NoDefault == <<"none", "">>
Arg(type, required, default) == [type |-> type, required |-> required, default |-> default, enum |-> {}]
Act(method, path, args, idempotent) ==
  [method |-> method, path |-> path, args |-> args, idempotent |-> idempotent,
   paged |-> FALSE, filtered |-> FALSE]
Read(path) == Act("GET", path, << >>, TRUE)
TheManifests ==
  << [host |-> Host("h", ""), base |-> <<>>,
      actions |-> <<Read(<<"users", "{id}">>), Read(<<"users", "me">>),
                    Act("POST", <<"users">>,
                        "name" :> [Arg("string", TRUE, NoDefault) EXCEPT !.enum = {<<"string", "n">>}], FALSE)>>],
     [host |-> Host("*.h", ""), base |-> <<"users">>,
      actions |-> <<[Read(<<"me">>) EXCEPT !.paged = TRUE], Read(<<"{id}.json">>)>>],
     [host |-> Host("h", "8080"), base |-> <<>>,
      actions |-> <<Read(<<"{x}", "{id}">>),
                    Act("GET", <<"{x}", "me">>, "n" :> Arg("number", FALSE, <<"integer", "7">>), TRUE)>>],
     [host |-> Host("*", ""), base |-> <<>>,
      actions |-> <<[Read(<<"users", "*">>) EXCEPT !.filtered = TRUE], Read(<<"users", "{id}.json">>)>>] >>
TheTexts == {"", "7", "8", "n", "o", ".."}
TheGlobs == "*.json" :> [v \in TheTexts |-> v \o ".json"] @@ "*.h" :> [v \in TheTexts |-> v \o ".h"]
Param(name, glob) == [name |-> name, glob |-> glob]
TheParams == "{id}" :> Param("id", "*") @@ "{x}" :> Param("x", "*") @@ "{id}.json" :> Param("id", "*.json")
AnyRequest == [method |-> "POST", host |-> Host("h", "443"), path |-> <<"users">>, query |-> << >>,
               body |-> [kind |-> "none"], keyed |-> TRUE]
TheRequests ==
  {[AnyRequest EXCEPT !.method = m, !.host = h, !.path = p, !.query = q] :
     m \in {"GET", "POST"}, h \in {Host("h", "443"), Host("h", "8080"), Host("o.h", ""), Host("o", "")},
     p \in {<<"users">>, <<"users", "me">>, <<"users", "7">>, <<"users", "7.json">>, <<"o", "me">>},
     q \in {<< >>} \union {"id" :> <<"string", v>> : v \in {"", "7", "8", ".."}}}
  \union {[AnyRequest EXCEPT !.query = q, !.body = b, !.keyed = k] :
            q \in {<< >>, "name" :> <<"string", "n">>}, k \in BOOLEAN,
            b \in {[kind |-> "none"], [kind |-> "text"], [kind |-> "value", value |-> <<"array", "o">>]}
                 \union {[kind |-> "object", args |-> "name" :> v] : v \in {<<"string", "o">>, <<"integer", "7">>}}}

\* Lists of objects and of bare values, one object, and texts.
Object(fields) == [map |-> TRUE, fields |-> fields]
Things == {[map |-> FALSE, fields |-> "" :> 14], Object("b" :> 3)}
          \union {Object(f) : f \in {"a" :> x @@ "b" :> y : x \in {Null, 2}, y \in {Null, 9}}}
Output(kind, items, text, beside, failed) ==
  [kind |-> kind, items |-> items, text |-> text, beside |-> beside, failed |-> failed]
Lines(s) == [i \in DOMAIN s |-> [line |-> s[i], times |-> 1, size |-> 5]]
TheOutputs ==
  {Output("list", s, <<>>, b, FALSE) : s \in UNION {[1..n -> Things] : n \in 0..2}, b \in {0, 16}}
  \union {Output("list", [i \in 1..3 |-> Object("a" :> 4)], <<>>, 0, f) : f \in BOOLEAN}
  \union {Output("object", <<o>>, <<>>, 0, FALSE) : o \in {x \in Things : x.map}}
  \union {Output("text", <<>>, Lines(s), 0, f) :
            s \in UNION {[1..n -> {"l", "m"}] : n \in 1..3}, f \in BOOLEAN}
TheConfigs ==
  UNION {[raw : {FALSE}, select : {{}, {"a"}}, exclude : {{}, {"b"}}, maxItems : {n},
          dropNulls : {TRUE}, textFilter : {TRUE}, strip : {{"m"}}, keep : {{}}, dedup : {TRUE},
          maxLines : {n}, budget : {0, 8, 12}, compact : {TRUE}] : n \in {0, 1}}
  \union [raw : {TRUE}, select : {{}}, exclude : {{}}, maxItems : {0}, dropNulls : {FALSE},
          textFilter : {FALSE}, strip : {{}}, keep : {{"l"}}, dedup : {FALSE}, maxLines : {0},
          budget : {0}, compact : {FALSE}]
  \union [raw : {FALSE}, select : {{}}, exclude : {{}}, maxItems : {0}, dropNulls : {FALSE},
          textFilter : BOOLEAN, strip : {{}}, keep : {{"l"}}, dedup : {FALSE}, maxLines : {0},
          budget : {8}, compact : {FALSE}]

\* One name is a service's, a suggestion and, of another action, a generated
\* shortcut.
Shortcuts(names, generated) == [names |-> names, generated |-> generated]
TheCatalog ==
  "s" :> [suggested |-> <<"n1">>,
          actions |-> <<Shortcuts(<<"n2">>, FALSE), Shortcuts(<<"n2", "n1">>, TRUE)>>]
  @@ "n2" :> [suggested |-> <<>>, actions |-> <<Shortcuts(<<"n1">>, FALSE)>>]

\* OpenAPI documents.
ThePlaceholders == "/a" :> {} @@ "/b/{id}" :> {"id"}

NoSecurity == [given |-> FALSE, array |-> TRUE, reqs |-> <<>>]
Securities ==
  {NoSecurity, [NoSecurity EXCEPT !.given = TRUE, !.array = FALSE]}
  \union [given : {TRUE}, array : {TRUE},
          reqs : {<<>>, <<{}>>, <<{"bearer"}>>, <<{}, {"query"}>>, <<{"odd"}>>, <<{"ghost"}>>,
                  <<{"bearer", "query"}>>, <<{"bearer"}, {"query"}>>}]

Parameters == [name : {"id", "q"}, in : {"path", "query", "header", "cookie"},
               required : BOOLEAN, default : {"none", "fits"}]
IdInPath == [name |-> "id", in |-> "path", required |-> TRUE, default |-> "none"]

Props(names, d) == [n \in names |-> [default |-> d]]
Part(names, required) == [props |-> Props(names, "none"), required |-> required]
Parts == {Part({}, {}), Part({"id"}, {}), Part({"q"}, {"q"}), Part({"id", "q"}, {"id"}),
          [props |-> Props({"q"}, "fits"), required |-> {}],
          [props |-> Props({"q"}, "odd"), required |-> {}]}

NoBody == [media |-> "none", required |-> FALSE, kind |-> "object", mode |-> "plain",
           parent |-> Part({}, {}), subs |-> <<>>, complex |-> FALSE]
JsonBody == [NoBody EXCEPT !.media = "json", !.required = TRUE]
Bodies ==
  {NoBody, [JsonBody EXCEPT !.media = "other"]}
  \union {[JsonBody EXCEPT !.kind = k, !.required = r] : k \in {"empty", "object", "array"}, r \in BOOLEAN}
  \union {[JsonBody EXCEPT !.parent = p, !.required = r] : p \in Parts, r \in BOOLEAN}
  \union {[JsonBody EXCEPT !.mode = m, !.parent = p, !.subs = s, !.complex = c] :
            m \in {"allOf", "oneOf"}, p \in Parts, c \in BOOLEAN,
            s \in UNION {[1..n -> Parts] : n \in {1, 2}} \union [1..3 -> {Part({"q"}, {"q"})}]}

Operation(path, method, key) ==
  [path |-> path, method |-> method, key |-> key, refs |-> 0, tagged |-> TRUE,
   shared |-> IF path = "/b/{id}" THEN <<IdInPath>> ELSE <<>>,
   own |-> <<>>, body |-> NoBody, security |-> NoSecurity]

Name(n) == [of |-> <<n>>, length |-> 0]
Get == Operation("/a", "get", <<Name("x")>>)
Post == Operation("/b/{id}", "post", <<Name("y")>>)
PlainDocument == [head |-> "ok", schemes |-> {"bearer", "query", "odd"}, security |-> NoSecurity,
          byTag |-> FALSE, ops |-> <<Get, Post>>]

\* One dimension at a time: what is at the top, keys that collide, parameters that
\* override each other and a body with their names, bodies, and security.
Tops ==
  {[PlainDocument EXCEPT !.head = h, !.byTag = b, !.ops[1].tagged = t, !.ops[2].tagged = u, !.ops[2].refs = r] :
     h \in {"ok", "version", "url", "remote http"}, b, t, u \in BOOLEAN, r \in {0, 7, 8}}
Collisions ==
  {[PlainDocument EXCEPT !.ops = [i \in 1..4 |-> Operation(IF i < 3 THEN "/a" ELSE "/b/{id}",
                                                            IF i \in {1, 3} THEN "get" ELSE "post", k[i])]] :
     k \in [1..4 -> {<<Name("x")>>, <<Name("x"), Hash(Post, 6)>>, <<Name("x"), Hash(Post, 8)>>}]}
Overrides ==
  {[PlainDocument EXCEPT !.ops = <<[Post EXCEPT !.shared = s, !.own = o, !.body.parent = p,
                                                !.body.media = IF p.props = <<>> THEN "none" ELSE "json"]>>] :
     s, o \in {<<>>} \union {<<a>> : a \in Parameters},
     p \in {Part({}, {}), Part({"id"}, {}), Part({"id", "q"}, {"id"})}}
Sent ==
  {[PlainDocument EXCEPT !.ops[1].method = "post", !.ops[1].body = b, !.ops[2].body = b] : b \in Bodies}
Secured ==
  {[PlainDocument EXCEPT !.schemes = s, !.security = c, !.ops[2].security = d] :
     s \in {{}, {"bearer"}, {"bearer", "query", "odd"}}, c, d \in Securities}
Samples == Tops \union Collisions \union Overrides \union Sent \union Secured
TheDocuments == Samples  \* Samples is evaluated once, TheDocuments wherever it is used

-----------------------------------------------------------------------------
PartNames == {"vault", "tokens", "http", "run", "certs", "daemon", "command", "sync", "file",
              "import", "proxy", "filter", "aliases"}

\* A part that does not move begins in one state only.
Choice(p, x, S) == IF part = p THEN TRUE ELSE x = CHOOSE y \in S : TRUE

Init ==
  /\ part \in PartNames
  /\ Choice("http", call, Calls)
  /\ Choice("run", run, [pc : {"build"}, proxied : BOOLEAN, result : {"none"}, exit : {0}])
  /\ Choice("command", action, Actions)
  /\ catalog = [s \in Skills |-> 1]
  /\ Choice("sync", skill, [Skills -> {NoDir, UserDir, Legacy}])
  /\ recorded = {}
  /\ Choice("file", agent, BOOLEAN) /\ Choice("file", global, {"absent", "old"})
  /\ Choice("import", doc, Documents)
  /\ Choice("aliases", links, [ShortNames -> {"none", "stale", "other"}])
  /\ Choice("filter", original, TheOutputs) /\ Choice("filter", config, TheConfigs)
  /\ VaultInit /\ TokensInit /\ HttpInit /\ RunInit /\ CertsInit /\ DaemonInit /\ CommandInit
  /\ SyncInit /\ InstructionInit /\ ImportInit /\ ProxyInit /\ FilterInit /\ AliasInit

Stays(p, moving, vs) == IF p = moving THEN TRUE ELSE UNCHANGED vs

Only(p) ==
  /\ part = p /\ UNCHANGED part
  /\ Stays("vault", p, vaultVars)
  /\ Stays("tokens", p, tokenVars)
  /\ Stays("http", p, httpVars)
  /\ Stays("run", p, runVars)
  /\ Stays("certs", p, certVars)
  /\ Stays("daemon", p, daemonVars)
  /\ Stays("command", p, commandVars)
  /\ Stays("sync", p, syncVars)
  /\ Stays("file", p, fileVars)
  /\ Stays("import", p, importVars)
  /\ Stays("proxy", p, proxyVars)
  /\ Stays("filter", p, filterVars)
  /\ Stays("aliases", p, aliasVars)

Next ==
  \/ Only("vault") /\ VaultNext
  \/ Only("tokens") /\ TokensNext
  \/ Only("http") /\ HttpNext
  \/ Only("run") /\ RunNext
  \/ Only("certs") /\ CertsNext
  \/ Only("daemon") /\ DaemonNext
  \/ Only("command") /\ CommandNext
  \/ Only("sync") /\ SyncNext
  \/ Only("file") /\ InstructionNext
  \/ Only("import") /\ ImportNext
  \/ Only("proxy") /\ ProxyNext
  \/ Only("filter") /\ FilterNext
  \/ Only("aliases") /\ AliasNext

\* RunFairness, of the part that is the command.
Spec == Init /\ [][Next]_partVars /\ WF_partVars(Only("run") /\ CommandStep)

\* The type invariant of the component that moves.
PartsTypeOK ==
  /\ part = "vault" => VaultTypeOK
  /\ part = "tokens" => TokensTypeOK
  /\ part = "http" => HttpTypeOK
  /\ part = "run" => RunTypeOK
  /\ part = "certs" => CertsTypeOK
  /\ part = "daemon" => DaemonTypeOK
  /\ part = "command" => CommandTypeOK
  /\ part = "sync" => SyncTypeOK
  /\ part = "file" => InstructionTypeOK
  /\ part = "import" => ImportTypeOK
  /\ part = "proxy" => ProxyTypeOK
  /\ part = "filter" => FilterTypeOK
  /\ part = "aliases" => AliasTypeOK

=============================================================================

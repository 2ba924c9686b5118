---------------------------- MODULE OpenApiImport ----------------------------
(***************************************************************************)
(* kimbap service generate: an OpenAPI document becomes a manifest, the    *)
(* manifest is validated and becomes the action definitions calls run by.  *)
(* The document is external.  Operations are taken one at a time, sorted   *)
(* paths first, because the key of one depends on the keys before it.      *)
(*                                                                         *)
(* A string is what the properties tell apart: a key is the sequence of    *)
(* its normalized name and the suffixes appended to it, a security scheme  *)
(* is named for the credential it stands for, a default is one that fits   *)
(* the declared type or not.                                               *)
(***************************************************************************)
EXTENDS Naturals, Sequences, FiniteSets, SequencesExt, Selection

CONSTANTS
  Documents,    \* the documents and the options a manifest may be generated from
  Placeholders  \* the names a path has in braces

\* The operations are the entries of two levels of maps: by path, then by method.
ASSUME DocumentsAssumption ==
  \A d \in Documents :
    /\ IsSequence(d.ops)
    /\ \A i \in DOMAIN d.ops : IsSequence(d.ops[i].key)
    /\ \A i, j \in DOMAIN d.ops :
         <<d.ops[i].path, d.ops[i].method>> = <<d.ops[j].path, d.ops[j].method>> => i = j
    /\ d.schemes \intersect {"none", "inherit", "error"} = {}

VARIABLES
  doc,      \* the document and the options, chosen once
  stage,    \* "document", "operations", "validate", "convert", "done", "failed"
  taken,    \* operations looked at
  auth,     \* the service's credential, "none" without one
  manifest, \* the service's actions by key
  defs      \* the action definitions by key

importVars == <<doc, stage, taken, auth, manifest, defs>>

ImportInit ==
  /\ doc \in Documents
  /\ stage = "document"
  /\ taken = 0
  /\ auth = "none"
  /\ manifest = <<>>
  /\ defs = <<>>

(***************************************************************************)
(* Security.                                                               *)
(***************************************************************************)
Requirements(reqs) == SelectSeq(reqs, LAMBDA r : r # {})
Compound(reqs) ==
  LET some == Requirements(reqs)
  IN some # <<>> /\ (Len(some) > 1 \/ Cardinality(some[1]) > 1)
Scheme(reqs) == CHOOSE s \in Requirements(reqs)[1] : TRUE

\* extractAuth, of the whole document: what is missing or malformed is no credential.
RootAuth ==
  LET security == doc.security
  IN IF \/ doc.schemes = {} \/ ~security.array
        \/ Requirements(security.reqs) = <<>>
     THEN "none"
     ELSE IF Compound(security.reqs) THEN "error"
     ELSE IF Scheme(security.reqs) \notin doc.schemes THEN "none"
     ELSE IF Scheme(security.reqs) = "odd" THEN "error" ELSE Scheme(security.reqs)

\* extractOperationAuth: what is missing or malformed fails.
OperationAuth(op) ==
  LET security == op.security
  IN IF ~security.given THEN "inherit"
     ELSE IF ~security.array \/ Compound(security.reqs) THEN "error"
     ELSE IF Requirements(security.reqs) = <<>> THEN "none"
     ELSE IF Scheme(security.reqs) \in doc.schemes \ {"odd"} THEN Scheme(security.reqs) ELSE "error"

(***************************************************************************)
(* One operation.                                                          *)
(***************************************************************************)
\* Parameters of the path, then of the operation; the later of the same place and
\* name takes the place of the earlier.
Overridden(seq, p) ==
  LET same == {i \in DOMAIN seq : seq[i].in = p.in /\ seq[i].name = p.name}
  IN IF same = {} THEN Append(seq, p) ELSE [i \in DOMAIN seq |-> IF i \in same THEN p ELSE seq[i]]
MergedParameters(op) ==
  FoldLeft(Overridden, <<>>, SelectSeq(op.shared \o op.own, LAMBDA p : p.in # "cookie"))

\* addOrUpdateArg: one argument per name, wherever it goes, the last of that name.
With(args, name, required, default) ==
  [n \in DOMAIN args \union {name} |->
     IF n = name THEN [required |-> required, default |-> default] ELSE args[n]]
ParameterArgs(op) ==
  LET all == MergedParameters(op)
      last(n) == all[Max({i \in DOMAIN all : all[i].name = n})]
  IN [n \in {p.name : p \in ToSet(all)} |->
        [required |-> last(n).required \/ last(n).in = "path", default |-> last(n).default]]
NamesIn(op, where) == {p.name : p \in {q \in ToSet(MergedParameters(op)) : q.in = where}}

\* resolveCompositeSchema: the parts of an allOf, or the first variant, over the
\* schema they stand in; or an opaque object.
Opaque(body) == body.mode = "oneOf" /\ (body.complex \/ Len(body.subs) >= 3)
Composed(body) ==
  <<body.parent>> \o (CASE body.mode = "plain" -> <<>>
                        [] body.mode = "oneOf" -> <<Head(body.subs)>>
                        [] OTHER -> body.subs)
Properties(body) ==
  LET parts == Composed(body)
      in(n) == {i \in DOMAIN parts : n \in DOMAIN parts[i].props}
  IN [n \in UNION {DOMAIN part.props : part \in ToSet(parts)} |-> parts[Max(in(n))].props[n]]
RequiredOf(body) == UNION {part.required : part \in ToSet(Composed(body))}

HasSchema(body) == body.media = "json" /\ body.kind # "empty"
\* An opaque body has no arguments, and no template.
Spelled(body) == HasSchema(body) /\ ~Opaque(body)
\* A body without properties is an argument of its own.
Whole(body) == Spelled(body) /\ Properties(body) = <<>>
BodyNames(body) == IF Spelled(body) /\ ~Whole(body) THEN DOMAIN Properties(body) ELSE {}

Args(op) ==
  LET names == BodyNames(op.body)
      all == ParameterArgs(op)
      fromBody == [n \in names |-> [required |-> op.body.required /\ n \in RequiredOf(op.body),
                                    default |-> Properties(op.body)[n].default]]
  IN IF Whole(op.body) THEN With(all, "body", op.body.required, "none")
     ELSE [n \in DOMAIN all \union names |-> IF n \in names THEN fromBody[n] ELSE all[n]]

BuildAction(op) ==
  [path |-> op.path, method |-> op.method, args |-> Args(op), auth |-> OperationAuth(op),
   query |-> NamesIn(op, "query"), header |-> NamesIn(op, "header"),
   pathParams |-> NamesIn(op, "path"), body |-> BodyNames(op.body),
   risk |-> IF op.method \in {"get", "head", "options"} THEN "low"
            ELSE IF op.method = "delete" THEN "high" ELSE "medium"]

\* Mutant: the operation's own key, even if another operation has it.
KeyAsGiven(op) == op.key

\* ensureUniqueActionKey: a longer and longer hash of method and path, then a number;
\* in the order they are tried.
Hash(op, size) == [of |-> <<op.path, op.method>>, length |-> size]
Number(n) == [of |-> <<>>, length |-> n]
KeysFor(op) ==
  LET full == Append(op.key, Hash(op, 8))
  IN <<op.key, Append(op.key, Hash(op, 6)), full>>
       \o [n \in 1..Len(doc.ops) |-> Append(full, Number(n + 1))]

UniqueKey(op) ==
  LET free == {i \in DOMAIN KeysFor(op) : KeysFor(op)[i] \notin DOMAIN manifest}
  IN KeysFor(op)[CHOOSE i \in free : \A j \in free : i <= j]

(***************************************************************************)
(* The steps.                                                              *)
(***************************************************************************)
Fail == stage' = "failed" /\ UNCHANGED <<taken, auth, manifest, defs>>

ReadHead ==
  /\ stage = "document"
  /\ IF doc.head \in {"version", "url"} \/ RootAuth = "error" THEN Fail
     ELSE stage' = "operations" /\ auth' = RootAuth /\ UNCHANGED <<taken, manifest, defs>>
  /\ UNCHANGED doc

\* The filters on tags and on path prefixes, as one: an operation passes or not.
Wanted(op) == ~doc.byTag \/ op.tagged

\* A chain of eight references is too long.
TooDeep(op) == op.refs >= 8

TakeOperation ==
  /\ stage = "operations" /\ taken < Len(doc.ops)
  /\ LET op == doc.ops[taken + 1]
     IN IF TooDeep(op) \/ (Wanted(op) /\ OperationAuth(op) = "error") THEN Fail
        ELSE /\ taken' = taken + 1
             /\ manifest' = IF Wanted(op)
                            THEN [k \in DOMAIN manifest \union {UniqueKey(op)} |->
                                    IF k = UniqueKey(op) THEN BuildAction(op) ELSE manifest[k]]
                            ELSE manifest
             /\ UNCHANGED <<stage, auth, defs>>
  /\ UNCHANGED doc

EndOperations ==
  /\ stage = "operations" /\ taken = Len(doc.ops)
  /\ IF doc.byTag /\ ~\E op \in ToSet(doc.ops) : Wanted(op) THEN Fail
     ELSE stage' = "validate" /\ UNCHANGED <<taken, auth, manifest, defs>>
  /\ UNCHANGED doc

RequiredArgs(action) == {n \in DOMAIN action.args : action.args[n].required}

\* validateHTTPManifest and the rules of arguments.
Valid(action) ==
  /\ \A n \in DOMAIN action.args :
       action.args[n].default # "none" => ~action.args[n].required /\ action.args[n].default = "fits"
  /\ action.pathParams \subseteq Placeholders[action.path]
  /\ Placeholders[action.path] \ action.pathParams \subseteq RequiredArgs(action)
  /\ action.query \union action.header \union action.body
       \subseteq DOMAIN action.args \union action.pathParams

ValidateManifest ==
  /\ stage = "validate"
  /\ IF /\ doc.head # "remote http"
        /\ manifest # <<>>
        /\ \A k \in DOMAIN manifest : Valid(manifest[k])
     THEN stage' = "convert" /\ UNCHANGED <<taken, auth, manifest, defs>>
     ELSE Fail
  /\ UNCHANGED doc

\* buildInputSchema: an input without arguments may hold anything; a parameter of the
\* path is required whatever its argument says.
InputSchema(action) ==
  [open |-> action.args = <<>> /\ action.pathParams = {},
   props |-> DOMAIN action.args \union action.pathParams,
   required |-> RequiredArgs(action) \union action.pathParams]

Definition(action) ==
  [path |-> action.path, method |-> action.method, input |-> InputSchema(action),
   sent |-> action.query \union action.header \union action.body,
   template |-> action.body,
   auth |-> IF action.auth = "inherit" THEN auth ELSE action.auth,
   defaults |-> {n \in DOMAIN action.args : action.args[n].default = "fits"},
   idempotent |-> action.method \in {"get", "head", "options"}]

Convert ==
  /\ stage = "convert"
  /\ stage' = "done"
  /\ defs' = [k \in DOMAIN manifest |-> Definition(manifest[k])]
  /\ UNCHANGED <<doc, taken, auth, manifest>>

ImportNext == ReadHead \/ TakeOperation \/ EndOperations \/ ValidateManifest \/ Convert

ImportSpec == ImportInit /\ [][ImportNext]_importVars
-----------------------------------------------------------------------------
ImportTypeOK ==
  /\ stage \in {"document", "operations", "validate", "convert", "done", "failed"}
  /\ taken \in 0..Len(doc.ops)
  /\ auth \in {"none"} \union (doc.schemes \ {"odd"})
  /\ defs # <<>> => DOMAIN defs = DOMAIN manifest

\* The credential an operation asks for, when the document defines it.
Asked(op) ==
  LET security == IF op.security.given THEN op.security ELSE doc.security
      some == IF security.array THEN Requirements(security.reqs) ELSE <<>>
  IN IF some = <<>> \/ ~(some[1] \subseteq doc.schemes) THEN {} ELSE some[1]

OwnActions(op) == {k \in DOMAIN defs : defs[k].path = op.path /\ defs[k].method = op.method}

\* buildBody: what the template says, what the input calls "body", or all the input.
CanSendBody(d) == d.template # {} \/ "body" \in d.input.props \/ d.input.open
HasBody(op) == HasSchema(op.body) /\ op.method \notin {"get", "head"}

Serves(d, op) ==
  /\ Placeholders[op.path] \subseteq d.input.required
  /\ d.sent \subseteq d.input.props
  /\ HasBody(op) => CanSendBody(d) \/ (Opaque(op.body) /\ MergedParameters(op) # <<>>)
  /\ op.body.required /\ Spelled(op.body) =>
       RequiredOf(op.body) \intersect BodyNames(op.body) \subseteq d.input.required
  /\ Asked(op) # {} => d.auth \in Asked(op)

Imported == {i \in DOMAIN doc.ops : Wanted(doc.ops[i])}

\* What an import accepts it keeps whole: every selected operation has an action of
\* its own, whatever keys collide; the action asks for every placeholder of its
\* path, for every property its body must have and for everything its templates
\* name, also where parameters and body share a name; a JSON body with a schema
\* can be sent, but for an opaque one of an operation that has parameters too; and
\* an operation that needs a credential is given that one.
ImportKeepsOperations ==
  stage = "done" =>
    /\ Cardinality(DOMAIN defs) = Cardinality(Imported)
    /\ \A i \in Imported :
         /\ Cardinality(OwnActions(doc.ops[i])) = 1
         /\ \A k \in OwnActions(doc.ops[i]) : Serves(defs[k], doc.ops[i])
=============================================================================

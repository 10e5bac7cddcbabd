------------------------------- MODULE CgiMeta -------------------------------
(***************************************************************************)
(* The meta-variables of src/src/cad_cgi.c: what the accessors read in the *)
(* environment of the process, and what they keep of it until the response *)
(* is freed.  malloc succeeds here.                                        *)
(***************************************************************************)
EXTENDS CgiText, FiniteSets

CONSTANTS
    UNSET,         \* what getenv answers for a variable that is not there
    NULL,
    StringFields,  \* the variables that are only copied
    IntMax         \* INT_MAX

VARIABLES
    env,      \* the environment of the process: texts, numbers and UNSET
    env0,     \* what it was when the process started
    meta,     \* what the accessors have kept
    input,    \* the stream of the request: "open" or "freed"
    frees,    \* how many times it was freed
    answers   \* for each accessor, what it answered during this response

\* The variables that are more than copied, but for the form.
Read == {"auth_type", "content_length", "content_type", "gateway_interface",
         "query_string", "server_port", "server_protocol"}

\* A text is never the null pointer, and each variable is read in one way.
ASSUME NULLAssumption ==
    NULL \notin Seq(Int) \cup {"", "form", "garbage", "path", "fragment", "wild free", "double free"}
ASSUME StringFieldsAssumption == StringFields \cap (Read \cup {"input_as_form"}) = {}

metaVars == <<env, env0, meta, input, frees, answers>>

Accessors == Read \cup {"input_as_form"} \cup StringFields

\* What strtol gives, kept between 1 and INT_MAX; `other` stands for the rest.
Clamped(n, other) ==
    IF n = UNSET \/ n <= 0 THEN other
    ELSE IF n > IntMax THEN IntMax ELSE n

\* What malloc leaves in a field that is a pointer: zeroes, or anything.
Uninitialised == {NULL, "garbage"}

NewMeta(form) ==
    [content_length    |-> Clamped(env.content_length, 0),
     content_type      |-> NULL,
     gateway_interface |-> NoVersion,
     strings           |-> [f \in StringFields |-> NULL],
     query_string      |-> NULL,
     input_as_form     |-> form,
     server_port       |-> -1,
     server_protocol   |-> [protocol |-> NULL, version |-> NoVersion]]

\* An accessor returns, and keeps something or not.
Answers(a, x, kept) ==
    /\ meta' = kept
    /\ answers' = [answers EXCEPT ![a] = @ \cup {x}]
    /\ UNCHANGED <<env0, input, frees>>

AuthType ==
    CASE env.auth_type \in {UNSET, ""} -> "Auth_none"
      [] env.auth_type = "Basic"       -> "Auth_basic"
      [] env.auth_type = "Digest"      -> "Auth_digest"
      [] OTHER                         -> "Auth_invalid"

\* Nothing is kept of AUTH_TYPE.
auth_type ==
    /\ Answers("auth_type", AuthType, meta)
    /\ UNCHANGED env

content_length_ ==
    /\ Answers("content_length", meta.content_length, meta)
    /\ UNCHANGED env

\* A type that was parsed and is empty is NULL, and is parsed again.
ContentType ==
    IF meta.content_type # NULL /\ meta.content_type.type # <<>> THEN meta.content_type
    ELSE content_type(IF env.content_type = UNSET THEN <<>> ELSE env.content_type)

content_type_ ==
    /\ Answers("content_type", ContentType, [meta EXCEPT !.content_type = ContentType])
    /\ UNCHANGED env

\* Mutant: the version is parsed at each call, on what the last call left.
gateway_interface_always ==
    LET now == IF env.gateway_interface # UNSET
               THEN gateway_interface(env.gateway_interface, meta.gateway_interface)
               ELSE meta.gateway_interface
    IN  /\ Answers("gateway_interface", now, [meta EXCEPT !.gateway_interface = now])
        /\ UNCHANGED env

\* The version is parsed until it has a major number, on what the last call left.
GatewayInterface ==
    IF meta.gateway_interface.major = 0 /\ env.gateway_interface # UNSET
    THEN gateway_interface(env.gateway_interface, meta.gateway_interface)
    ELSE meta.gateway_interface

gateway_interface_ ==
    /\ Answers("gateway_interface", GatewayInterface,
               [meta EXCEPT !.gateway_interface = GatewayInterface])
    /\ UNCHANGED env

\* path_info, path_translated: a copy, or an empty string, is made once.
StringField(f) ==
    IF meta.strings[f] # NULL THEN meta.strings[f]
    ELSE IF env[f] = UNSET THEN "" ELSE env[f]

string_field(f) ==
    /\ Answers(f, StringField(f), [meta EXCEPT !.strings[f] = StringField(f)])
    /\ UNCHANGED env

\* The table is kept by its text; QueryParser models the parser.
QueryString ==
    IF meta.query_string = NULL /\ env.query_string # UNSET THEN env.query_string
    ELSE meta.query_string

query_string ==
    /\ Answers("query_string", QueryString, [meta EXCEPT !.query_string = QueryString])
    /\ UNCHANGED env

\* The stream is freed.
FreeInput ==
    /\ input' = "freed"
    /\ frees' = frees + 1

\* The form is parsed once in a response, and the stream is freed: the user's, or that of
\* a context that was made without one, which free_cgi frees again.  The field is not
\* initialised.
Form == IF meta.input_as_form = NULL THEN "form" ELSE meta.input_as_form

input_as_form ==
    /\ IF meta.input_as_form = NULL THEN FreeInput ELSE UNCHANGED <<input, frees>>
    /\ meta' = [meta EXCEPT !.input_as_form = Form]
    /\ answers' = [answers EXCEPT !["input_as_form"] = @ \cup {Form}]
    /\ UNCHANGED <<env, env0>>

\* A port that is not positive is looked up each time.
ServerPort ==
    IF meta.server_port = -1 THEN Clamped(env.server_port, -1) ELSE meta.server_port

server_port ==
    /\ Answers("server_port", ServerPort, [meta EXCEPT !.server_port = ServerPort])
    /\ UNCHANGED env

\* The protocol is parsed once; the environment loses its version.
ParsesProtocol == meta.server_protocol.protocol = NULL /\ env.server_protocol # UNSET

ServerProtocol ==
    LET parsed == server_protocol(env.server_protocol)
    IN  IF meta.server_protocol.protocol # NULL THEN meta.server_protocol
        ELSE IF ParsesProtocol
             THEN [protocol |-> parsed.protocol, version |-> parsed.version]
             ELSE [protocol |-> <<>>, version |-> NoVersion]

server_protocol_ ==
    /\ Answers("server_protocol", ServerProtocol,
               [meta EXCEPT !.server_protocol = ServerProtocol])
    /\ env' = IF ParsesProtocol
              THEN [env EXCEPT !.server_protocol = server_protocol(@).left] ELSE env

MetaCall ==
    \/ auth_type \/ content_length_ \/ content_type_ \/ gateway_interface_
    \/ (\E f \in StringFields : string_field(f))
    \/ query_string \/ server_port \/ server_protocol_

\* During a response each accessor has one answer, however often and in whatever
\* order they are called.
MetaStable == \A a \in Accessors : Cardinality(answers[a]) <= 1

\* The version of the protocol is that of the environment the process was given:
\* not so in a second response of a process.
ProtocolFaithful ==
    env0.server_protocol # UNSET =>
        LET parsed == server_protocol(env0.server_protocol)
        IN  answers["server_protocol"]
               \subseteq {[protocol |-> parsed.protocol, version |-> parsed.version]}
=============================================================================

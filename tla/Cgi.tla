--------------------------------- MODULE Cgi ---------------------------------
(***************************************************************************)
(* The life of a CGI process of src/src/cad_cgi.c: the context, the        *)
(* response that run makes and gives to the handler, the calls of the      *)
(* handler, the flush and the frees of the user.  Between two processes a  *)
(* browser keeps the cookies that it was sent, and sends them back.        *)
(***************************************************************************)
EXTENDS CgiCookies

CONSTANTS
    Requests,     \* records: the constructor of the context (fd), the environment (env),
                  \* the parts of the interface that the handler uses (uses)
    MaxCalls,     \* bound: how many calls handlers make in a process, the body apart
    MaxRuns,      \* bound: how often run is called in a process
    MaxRequests   \* bound: how many processes there are

\* An environment says of each variable what it holds, or that it is not there.
ASSUME RequestsAssumption ==
    \A r \in Requests : /\ Read \cup StringFields \subseteq DOMAIN r.env
                        /\ r.env.server_protocol \in Seq(Int) \cup {UNSET}

VARIABLES
    pc,          \* where the process is
    fd,          \* "stdin" or "stream": which constructor made the context
    uses,        \* what the handler uses
    calls, runs, requests,
    response,    \* the fields of the response
    out,         \* the cookies that were written, the later in place of the earlier
    browser,     \* the cookies of the browser: names to encoded values
    remembered   \* the cookies that the flushed responses meant it to have

cgiVars == <<pc, fd, uses, calls, runs, requests, response, out, browser, remembered>>
vars == <<cgiVars, cookieVars, metaVars>>

NoEnvironment == [content_length |-> UNSET, server_protocol |-> UNSET]
NoResponse == [status |-> 0, content_type |-> NULL, path |-> NULL, fragment |-> NULL,
               headers |-> <<>>, body |-> NULL]

TypeOK ==
    /\ pc \in {"idle", "ready", "handler", "returned", "flushed", "crashed"}
    /\ pc \in {"idle", "ready"} => jar = <<>> /\ response = NoResponse
    /\ \A n \in DOMAIN jar : jar[n] \in DOMAIN heap
    /\ DOMAIN touched \subseteq DOMAIN jar
    /\ DOMAIN response.headers \cap {"Status", "Content-Type", "Location", "Cookie",
                                     "Set-Cookie"} = {}
    /\ frees \in Nat /\ runs \in 0 .. MaxRuns

Init ==
    /\ pc = "idle"
    /\ fd = "stdin"
    /\ uses = {}
    /\ calls = 0 /\ runs = 0 /\ requests = 0
    /\ response = NoResponse
    /\ out = <<>>
    /\ browser = <<>> /\ remembered = <<>>
    /\ heap = <<>> /\ jar = <<>> /\ touched = <<>>
    /\ faults = 0
    /\ mishap = NULL
    /\ env = NoEnvironment /\ env0 = NoEnvironment
    /\ meta = NewMeta(NULL)
    /\ input = "freed"
    /\ frees = 0
    /\ answers = [a \in Accessors |-> {}]

------------------------------------------------------------------------------
\* The context

\* What a browser that has these cookies sends in HTTP_COOKIE.
HeaderOf(cookies) ==
    LET order == SetToSeq(DOMAIN cookies)
        cookie(n) == n \o <<EQUAL>> \o cookies[n]
    IN  FlattenSeq([k \in DOMAIN order |->
            IF k = 1 THEN cookie(order[k]) ELSE <<SEMICOLON, SPACE>> \o cookie(order[k])])

Header == HeaderOf(browser)

\* A process starts for a request, and makes a context with one of the constructors.
new_cad_cgi ==
    /\ pc = "idle"
    /\ requests < MaxRequests
    /\ pc' = "ready"
    /\ \E r \in Requests : fd' = r.fd /\ uses' = r.uses /\ env' = r.env /\ env0' = r.env
    /\ requests' = requests + 1
    /\ runs' = 0
    /\ input' = "open"
    /\ frees' = 0
    /\ UNCHANGED <<calls, response, out, browser, remembered, cookieVars, meta, answers>>

\* run makes the response, and calls the handler.  The cookies that the browser sent
\* are given their values as set_value does, on a value that is not initialised.
run ==
    /\ pc = "ready"
    /\ runs < MaxRuns
    /\ runs' = runs + 1
    /\ pc' = "handler"
    /\ LET parsed == Parsed(Header)
       IN  /\ heap' = parsed.cookies
           /\ jar' = parsed.jar
           /\ mishap' \in AfterFree(parsed.cookies # <<>>)
    /\ \E form \in Uninitialised : meta' = NewMeta(form)
    /\ answers' = [a \in Accessors |-> {}]
    /\ UNCHANGED <<fd, uses, calls, requests, response, out, browser, remembered, touched,
                   faults, env, env0, input, frees>>

\* run writes to the stream of a response that malloc refused.
run_no_memory ==
    /\ pc = "ready"
    /\ runs < MaxRuns
    /\ MallocFails
    /\ pc' = "crashed"
    /\ UNCHANGED <<fd, uses, calls, runs, requests, response, out, browser, remembered, heap,
                   jar, touched, mishap, metaVars>>

\* The jar, the meta-variables and the rest of the response are freed.
free_response ==
    /\ heap' = Freed(heap, InJar)
    /\ mishap' \in {IF m = NULL /\ meta.input_as_form = "garbage" THEN "wild free" ELSE m :
                       m \in AfterFrees(InJar)}
    /\ jar' = <<>>
    /\ touched' = <<>>
    /\ response' = NoResponse

\* The handler returns another status than 0: run writes an error instead of the
\* response, frees the response, and returns NULL.
run_fails ==
    /\ pc = "handler"
    /\ pc' = "ready"
    /\ free_response
    /\ UNCHANGED <<fd, uses, calls, runs, requests, out, browser, remembered, faults, metaVars>>

\* The cookies of f, and those of g that f has not.
Over(f, g) == [n \in DOMAIN f \cup DOMAIN g |-> IF n \in DOMAIN f THEN f[n] ELSE g[n]]

\* What a browser keeps of the lines of a response.
Merged(lines) == [n \in {line.name : line \in lines} |->
                     (CHOOSE line \in lines : line.name = n).value]

\* Nothing is left of the memory of a process.
ProcessEnds ==
    /\ fd' = "stdin" /\ uses' = {} /\ calls' = 0 /\ runs' = 0
    /\ heap' = <<>>
    /\ env' = NoEnvironment /\ env0' = NoEnvironment
    /\ meta' = NewMeta(NULL)
    /\ answers' = [a \in Accessors |-> {}]
    /\ UNCHANGED <<requests, response, remembered, jar, touched, faults, mishap>>

\* The context is freed, with the streams if it made them, and the process ends.
\* What it wrote goes to the browser.
free_cgi ==
    /\ pc = "ready"
    /\ pc' = "idle"
    /\ browser' = Over(out, browser)
    /\ out' = <<>>
    /\ IF fd = "stdin" THEN FreeInput ELSE UNCHANGED <<input, frees>>
    /\ ProcessEnds

------------------------------------------------------------------------------
\* The response

\* The handler puts some text to the body's stream.
body ==
    /\ pc = "handler"
    /\ response.body = NULL
    /\ response' = [response EXCEPT !.body = "text"]
    /\ UNCHANGED <<pc, fd, uses, calls, runs, requests, out, browser, remembered, cookieVars,
                   metaVars>>

\* Mutant: the old fragment is kept though it was freed.
redirect_dangles(path, fragment) ==
    /\ response.body = NULL
    /\ \/ /\ response' = [response EXCEPT !.path = path, !.fragment = fragment]
          /\ UNCHANGED faults
       \/ /\ MallocFails
          /\ response' = [response EXCEPT !.path = NULL]

\* The old path and fragment are freed, the new ones copied, or neither is kept: the
\* malloc of the path may fail, or that of the fragment, after which the path is freed.
redirect(path, fragment) ==
    /\ response.body = NULL
    /\ \/ /\ response' = [response EXCEPT !.path = path, !.fragment = fragment]
          /\ UNCHANGED faults
       \/ /\ MallocFails
          /\ response' = [response EXCEPT !.path = NULL, !.fragment = NULL]

set_status(status) ==
    /\ response' = [response EXCEPT !.status = status]
    /\ UNCHANGED faults

set_content_type(type) ==
    \/ /\ response' = [response EXCEPT !.content_type = type]
       /\ UNCHANGED faults
    \/ /\ MallocFails
       /\ response' = [response EXCEPT !.content_type = NULL]

\* The fields that the response writes itself are refused; a failing malloc leaves
\* the old value.
set_header(field, value) ==
    /\ field \notin {"Status", "Content-Type", "Location", "Cookie", "Set-Cookie"}
    /\ \/ /\ response' = [response EXCEPT !.headers = Put(@, field, value)]
          /\ UNCHANGED faults
       \/ /\ MallocFails
          /\ UNCHANGED response

ResponseCall ==
    \/ \E fragment \in {"", "fragment"} : redirect("path", fragment)
    \/ set_status(404)
    \/ set_content_type("text/html")
    \/ \E field \in {"X-Field", "Set-Cookie", "Location"} : set_header(field, "value")

\* The handler calls a function of the response, of a cookie or the jar, or of the
\* meta-variables.
handler ==
    /\ pc = "handler"
    /\ calls < MaxCalls
    /\ calls' = calls + 1
    /\ \/ /\ "response" \in uses
          /\ ResponseCall
          /\ UNCHANGED <<heap, jar, touched, mishap, metaVars>>
       \/ /\ "cookies" \in uses
          /\ CookieCall
          /\ UNCHANGED <<response, metaVars>>
       \/ /\ "meta" \in uses
          /\ MetaCall \/ input_as_form
          /\ UNCHANGED <<response, cookieVars>>
    /\ UNCHANGED <<pc, fd, uses, runs, requests, out, browser, remembered>>

\* The handler returns 0, and run returns the response.
run_returns ==
    /\ pc = "handler"
    /\ pc' = "returned"
    /\ UNCHANGED <<fd, uses, calls, runs, requests, response, out, browser, remembered,
                   cookieVars, metaVars>>

\* The user flushes the response: the fields, the headers, the cookies, the body.  A
\* changed cookie without a value is encoded, a body to which nothing was put is read:
\* both are NULL.
flush_response ==
    /\ pc = "returned"
    /\ ~NullValue /\ response.body # NULL
    /\ out' = Over(Merged({flush_cookie(k) : k \in ToFlush}), out)
    /\ heap' = Unchanged
    /\ remembered' = Over(touched, remembered)
    /\ pc' = "flushed"
    /\ UNCHANGED <<fd, uses, calls, runs, requests, response, browser, jar, touched, faults,
                   mishap, metaVars>>

\* The lines before were written, as far as they left the buffer of the stream.
flush_null ==
    /\ pc = "returned"
    /\ NullValue \/ response.body = NULL
    /\ pc' = "crashed"
    /\ \E lines \in SUBSET {flush_cookie(k) : k \in {j \in ToFlush : heap[j].value # NoValue}} :
          out' = Over(Merged(lines), out)
    /\ UNCHANGED <<fd, uses, calls, runs, requests, response, browser, remembered,
                   cookieVars, metaVars>>

\* The user frees the response, flushed or not.
free ==
    /\ pc \in {"returned", "flushed"}
    /\ free_response
    /\ pc' = "ready"
    /\ UNCHANGED <<fd, uses, calls, runs, requests, out, browser, remembered, faults, metaVars>>

Stopped ==
    /\ pc = "crashed" \/ (pc = "idle" /\ requests = MaxRequests)
    /\ UNCHANGED vars

Next ==
    \/ new_cad_cgi \/ run \/ run_no_memory \/ run_fails \/ body \/ handler \/ run_returns
    \/ flush_response \/ flush_null \/ free \/ free_cgi \/ Stopped

Spec == Init /\ [][Next]_vars

------------------------------------------------------------------------------

\* Any cookies of those names and values come back from a browser as they were sent.
RoundTrip ==
    \A some \in SUBSET Names : \A cookies \in [some -> Values] :
        parse_cookies(HeaderOf([n \in some |-> encode_value(cookies[n])])) = cookies

\* What the handlers of the flushed responses set is what the next process finds in
\* its jar, and nothing else: changes are sent, once flushed and only then, values
\* come back unaltered, a failing handler or a dismissed response changes nothing.
SessionRemembers == pc = "idle" => parse_cookies(Header) = remembered

\* As long as the handler puts no cookie in the jar that is there already (Resets: the
\* code has no test for it, and frees what it keeps), no cookie is freed twice, none while
\* it is in the jar, and none is lost: once the response is freed the only cookies alive
\* are those that the handler did not put in the jar.  A browser sends each name once; of
\* two cookies with one name the code loses the first (cad_cgi_cookies.c:321).
FreedOnce ==
    /\ mishap # "double free"
    /\ JarAlive
    /\ pc \in {"idle", "ready"} => \A k \in DOMAIN heap : ~(heap[k].alive /\ heap[k].kept)

\* A path is never without its fragment nor a fragment without its path, whichever
\* malloc fails: flush_response reads the fragment if there is a path.
RedirectWhole == (response.path = NULL) <=> (response.fragment = NULL)

\* What is freed is NULL or was set before: not so, set_value frees the value of a cookie
\* that never had one, and free_response a form that was never read.
FreesWhatWasSet == mishap # "wild free"

\* The stream of the request is freed at most once in a process: not so, input_as_form
\* frees a stream that free_cgi frees again.
InputFreedOnce == frees <= 1

\* The process never reads through NULL: not so, flush does.
NoCrash == pc # "crashed"

\* A changed cookie that was given no value can be flushed: not so, though the code
\* has a test for it.
ValuelessFlushes == pc = "crashed" => ~NullValue

\* A response that was marked as a redirect can be flushed: not so.
RedirectFlushes == pc = "crashed" => response.path = NULL
=============================================================================

------------------------------ MODULE CgiProofs ------------------------------
(***************************************************************************)
(* What the life of a CGI process keeps, for all requests, names, values   *)
(* and bounds.  Where a handler must be careful, as that of the runs is,   *)
(* the theorem says so: it sets a cookie in the jar once.  Then what the   *)
(* conversions of text give, for texts of any length: the jar of a         *)
(* browser, the form, the body of a response, the content type and a pair  *)
(* of cookies.                                                             *)
(***************************************************************************)
EXTENDS Cgi, MCCgiText, FiniteSetTheorems, WellFoundedInduction, TLAPS

------------------------------------------------------------------------------
\* The redirect

\* The fields of the response are there, the path with its fragment.
RedirectInv ==
    /\ DOMAIN response = DOMAIN NoResponse
    /\ RedirectWhole

\* new_cad_cgi_response leaves both NULL.
LEMMA RedirectInit == Init => RedirectInv
BY DEF Init, RedirectInv, RedirectWhole, NoResponse

\* The setters leave the response whole, redirect with both fields or with none.
LEMMA RedirectCall == RedirectInv /\ ResponseCall => RedirectInv'
<1> SUFFICES ASSUME RedirectInv, ResponseCall PROVE RedirectInv'
  OBVIOUS
<1> USE DEF RedirectInv, RedirectWhole
<1>1. CASE \E fragment \in {"", "fragment"} : redirect("path", fragment)
  BY <1>1, NULLAssumption DEF redirect, NoResponse
<1>2. CASE set_status(404)
  BY <1>2 DEF set_status, NoResponse
<1>3. CASE set_content_type("text/html")
  BY <1>3 DEF set_content_type, NoResponse
<1>4. CASE \E field \in {"X-Field", "Set-Cookie", "Location"} : set_header(field, "value")
  BY <1>4 DEF set_header, NoResponse
<1> QED
  BY <1>1, <1>2, <1>3, <1>4 DEF ResponseCall

\* No step of a process breaks the response.
LEMMA RedirectStep == RedirectInv /\ [Next]_vars => RedirectInv'
<1> SUFFICES ASSUME RedirectInv, [Next]_vars PROVE RedirectInv'
  OBVIOUS
<1> USE DEF RedirectInv, RedirectWhole
<1>1. CASE free_response
  BY <1>1 DEF free_response, NoResponse
<1>2. CASE body
  BY <1>2 DEF body, NoResponse
<1>3. CASE handler
  <2>1. CASE ResponseCall
    BY <2>1, RedirectCall
  <2>2. CASE UNCHANGED response
    BY <2>2
  <2> QED
    BY <1>3, <2>1, <2>2 DEF handler
<1>4. CASE UNCHANGED response
  BY <1>4
<1>5. CASE new_cad_cgi \/ run \/ run_no_memory \/ run_returns
  BY <1>4, <1>5 DEF new_cad_cgi, run, run_no_memory, run_returns
<1>6. CASE run_fails \/ free
  BY <1>1, <1>6 DEF run_fails, free
<1>7. CASE flush_response \/ flush_null \/ free_cgi
  BY <1>4, <1>7 DEF flush_response, flush_null, free_cgi, ProcessEnds
<1>8. CASE Stopped \/ UNCHANGED vars
  BY <1>4, <1>8 DEF Stopped, vars, cgiVars
<1> QED
  BY <1>2, <1>3, <1>5, <1>6, <1>7, <1>8 DEF Next

\* Whatever malloc refuses, and in whatever order a handler calls the response,
\* flush_response never finds a path without a fragment.
THEOREM RedirectWholeHolds == Spec => []RedirectWhole
<1>1. RedirectInv => RedirectWhole
  BY DEF RedirectInv
<1> QED
  BY <1>1, RedirectInit, RedirectStep, PTL DEF Spec
------------------------------------------------------------------------------
\* The cookies

CookieFields == DOMAIN new_cad_cgi_cookie(NULL, NULL)

\* A cookie is whole.
CookieWhole(c) == DOMAIN c = CookieFields

\* The jar holds living cookies under their names, and all living cookies that were
\* ever in it; it is empty between two responses.
CookieInv ==
    /\ mishap # "double free"
    /\ \A n \in DOMAIN jar : jar[n] \in DOMAIN heap
    /\ JarAlive
    /\ \A k \in DOMAIN heap : CookieWhole(heap[k])
    /\ \A k \in DOMAIN heap : heap[k].alive /\ heap[k].kept => k \in InJar
    /\ pc \in {"idle", "ready"} => DOMAIN jar = {}

\* No process has started.
LEMMA CookieInit == Init => CookieInv
<1> SUFFICES ASSUME Init PROVE CookieInv
  OBVIOUS
<1>1. DOMAIN heap = {} /\ DOMAIN jar = {}
  BY DEF Init
<1>2. mishap # "double free"
  BY NULLAssumption DEF Init
<1> QED
  BY <1>1, <1>2 DEF CookieInv, JarAlive

\* The same cookie, with other values.
Same(c, d) == CookieWhole(d) /\ d.name = c.name /\ d.alive = c.alive /\ d.kept = c.kept

\* What is known of a cookie that is changed and neither freed nor put in the jar.
LEMMA CookieChanges ==
    ASSUME CookieInv, NEW k \in DOMAIN heap, NEW c, Same(heap[k], c),
           heap' = [heap EXCEPT ![k] = c], UNCHANGED <<pc, jar>>, mishap' # "double free"
    PROVE  CookieInv'
<1> USE DEF Same
<1>1. DOMAIN heap' = DOMAIN heap
  OBVIOUS
<1>2. heap'[k] = c /\ \A j \in DOMAIN heap : j # k => heap'[j] = heap[j]
  OBVIOUS
<1>3. \A j \in DOMAIN heap : /\ heap'[j].name = heap[j].name
                             /\ heap'[j].alive = heap[j].alive
                             /\ heap'[j].kept = heap[j].kept
  BY <1>2
<1>4. \A j \in DOMAIN heap : CookieWhole(heap'[j])
  BY <1>2 DEF CookieInv
<1>5. \A n \in DOMAIN jar : jar'[n] \in DOMAIN heap'
  BY <1>1 DEF CookieInv
<1>6. JarAlive'
  BY <1>3 DEF CookieInv, JarAlive
<1>7. InJar' = InJar
  BY DEF InJar
<1>8. \A j \in DOMAIN heap' : heap'[j].alive /\ heap'[j].kept => j \in InJar'
  BY <1>1, <1>3, <1>7 DEF CookieInv
<1>9. pc' \in {"idle", "ready"} => DOMAIN jar' = {}
  BY DEF CookieInv
<1> QED
  BY <1>1, <1>4, <1>5, <1>6, <1>8, <1>9 DEF CookieInv

\* The fields that the setters assign leave it the same cookie.
LEMMA CookieFieldSet ==
    ASSUME NEW c, CookieWhole(c), NEW v
    PROVE  /\ Same(c, [c EXCEPT !.value = v, !.wild = FALSE])
           /\ Same(c, [c EXCEPT !.expires = v])
           /\ Same(c, [c EXCEPT !.max_age = v])
           /\ Same(c, [c EXCEPT !.domain = v])
           /\ Same(c, [c EXCEPT !.path = v])
           /\ Same(c, [c EXCEPT !.flag = v])
           /\ Same(c, [c EXCEPT !.changed = v])
<1>1. DOMAIN c = {"name", "value", "changed", "expires", "max_age", "flag", "domain",
                  "path", "wild", "alive", "kept"}
  BY DEF CookieWhole, CookieFields, new_cad_cgi_cookie
<1>2. CookieFields = DOMAIN c
  BY DEF CookieWhole
<1> USE <1>1, <1>2 DEF Same, CookieWhole
<1>3. Same(c, [c EXCEPT !.value = v, !.wild = FALSE])
  OBVIOUS
<1>4. Same(c, [c EXCEPT !.expires = v]) /\ Same(c, [c EXCEPT !.max_age = v])
  OBVIOUS
<1>5. Same(c, [c EXCEPT !.domain = v]) /\ Same(c, [c EXCEPT !.path = v])
  OBVIOUS
<1>6. Same(c, [c EXCEPT !.flag = v]) /\ Same(c, [c EXCEPT !.changed = v])
  OBVIOUS
<1> QED
  BY <1>3, <1>4, <1>5, <1>6

\* The setters change no more than that.
LEMMA CookieSetters ==
    ASSUME CookieInv, NEW k \in DOMAIN heap, UNCHANGED pc,
           \/ \E v \in Values : set_value(k, v)
           \/ set_expires(k, 1) \/ set_max_age(k, 1)
           \/ set_domain(k, "domain") \/ set_path(k, "path") \/ set_flag(k, "secure")
    PROVE  CookieInv'
<1>1. CookieWhole(heap[k])
  BY DEF CookieInv
<1>2. ASSUME NEW d, Same(heap[k], d), Changed(k, d) PROVE \E c : heap' = [heap EXCEPT ![k] = c] /\ Same(heap[k], c)
  <2>1. Same(d, [d EXCEPT !.changed = TRUE])
    BY <1>2, CookieFieldSet DEF Same
  <2>2. heap' = [heap EXCEPT ![k] = [d EXCEPT !.changed = TRUE]]
    BY <1>2 DEF Changed
  <2> QED
    BY <1>2, <2>1, <2>2 DEF Same
<1>3. \E c : heap' = [heap EXCEPT ![k] = c] /\ Same(heap[k], c)
  <2>1. ASSUME NEW v \in Values, set_value(k, v)
        PROVE  \E c : heap' = [heap EXCEPT ![k] = c] /\ Same(heap[k], c)
    <3>1. CASE Changed(k, [heap[k] EXCEPT !.value = v, !.wild = FALSE])
      BY <1>1, <1>2, <3>1, CookieFieldSet
    <3>2. CASE heap' = [heap EXCEPT ![k] = [@ EXCEPT !.value = NoValue, !.wild = FALSE]]
      BY <1>1, <3>2, CookieFieldSet
    <3> QED
      BY <2>1, <3>1, <3>2 DEF set_value
  <2>2. CASE set_expires(k, 1)
    BY <1>1, <1>2, <2>2, CookieFieldSet DEF set_expires
  <2>3. CASE set_max_age(k, 1)
    BY <1>1, <1>2, <2>3, CookieFieldSet DEF set_max_age
  <2>4. CASE set_domain(k, "domain")
    BY <1>1, <1>2, <2>4, CookieFieldSet DEF set_domain
  <2>5. CASE set_path(k, "path")
    BY <1>1, <1>2, <2>5, CookieFieldSet DEF set_path
  <2>6. CASE set_flag(k, "secure")
    BY <1>1, <1>2, <2>6, CookieFieldSet DEF set_flag
  <2> QED
    BY <2>1, <2>2, <2>3, <2>4, <2>5, <2>6
<1>4. jar' = jar
  BY DEF set_value, set_expires, set_max_age, set_domain, set_path, set_flag, Changed
<1>5. mishap' # "double free"
  BY NULLAssumption
     DEF CookieInv, AfterFree, set_value, set_expires, set_max_age, set_domain, set_path, set_flag
<1> QED
  BY <1>3, <1>4, <1>5, CookieChanges

\* A cookie that the handler makes is not in the jar.
LEMMA CookieNew ==
    ASSUME CookieInv, NEW n, new_cookie(n), UNCHANGED pc
    PROVE  CookieInv'
<1>1. PICK k \in Made \ DOMAIN heap : heap' = Put(heap, k, new_cad_cgi_cookie(n, NoValue))
  BY DEF new_cookie
<1> DEFINE c == new_cad_cgi_cookie(n, NoValue)
<1>2. CookieWhole(c) /\ c.kept = FALSE
  BY DEF CookieWhole, CookieFields, new_cad_cgi_cookie
<1> HIDE DEF c
<1>3. /\ DOMAIN heap' = DOMAIN heap \cup {k} /\ heap'[k] = c
      /\ \A j \in DOMAIN heap : heap'[j] = heap[j]
  BY <1>1 DEF Put, c
<1>4. UNCHANGED <<jar, mishap>> /\ InJar' = InJar
  BY DEF new_cookie, InJar
<1>5. \A m \in DOMAIN jar' : jar'[m] \in DOMAIN heap'
  BY <1>3, <1>4 DEF CookieInv
<1>6. JarAlive'
  BY <1>3, <1>4 DEF CookieInv, JarAlive
<1>7. \A j \in DOMAIN heap' : CookieWhole(heap'[j])
  BY <1>2, <1>3 DEF CookieInv
<1>8. \A j \in DOMAIN heap' : heap'[j].alive /\ heap'[j].kept => j \in InJar'
  BY <1>2, <1>3, <1>4 DEF CookieInv
<1> QED
  BY <1>4, <1>5, <1>6, <1>7, <1>8 DEF CookieInv

\* What freeing a set of cookies leaves of each.
LEMMA FreedCookies ==
    ASSUME NEW K, \A k \in DOMAIN heap : CookieWhole(heap[k])
    PROVE  /\ DOMAIN Freed(heap, K) = DOMAIN heap
           /\ \A k \in DOMAIN heap : /\ CookieWhole(Freed(heap, K)[k])
                                     /\ Freed(heap, K)[k].name = heap[k].name
                                     /\ Freed(heap, K)[k].kept = heap[k].kept
           /\ \A k \in DOMAIN heap \cap K : Freed(heap, K)[k].alive = FALSE
           /\ \A k \in DOMAIN heap \ K : Freed(heap, K)[k] = heap[k]
<1>1. DOMAIN Freed(heap, K) = DOMAIN heap
  BY DEF Freed
<1>2. ASSUME NEW k \in DOMAIN heap, k \in K
      PROVE  /\ CookieWhole(Freed(heap, K)[k])
             /\ Freed(heap, K)[k].name = heap[k].name
             /\ Freed(heap, K)[k].kept = heap[k].kept
             /\ Freed(heap, K)[k].alive = FALSE
  <2>1. Freed(heap, K)[k] = [heap[k] EXCEPT !.alive = FALSE]
    BY <1>2 DEF Freed
  <2>2. DOMAIN heap[k] = {"name", "value", "changed", "expires", "max_age", "flag",
                          "domain", "path", "wild", "alive", "kept"}
    BY DEF CookieWhole, CookieFields, new_cad_cgi_cookie
  <2>3. CookieWhole(heap[k])
    OBVIOUS
  <2> QED
    BY <2>1, <2>2, <2>3 DEF CookieWhole
<1>3. ASSUME NEW k \in DOMAIN heap, k \notin K PROVE Freed(heap, K)[k] = heap[k]
  BY <1>3 DEF Freed
<1> QED
  BY <1>1, <1>2, <1>3

\* Freeing living cookies is no double free.
LEMMA FreedWell ==
    ASSUME CookieInv, NEW K \in SUBSET DOMAIN heap, \A k \in K : heap[k].alive
    PROVE  "double free" \notin AfterFrees(K)
BY NULLAssumption DEF CookieInv, AfterFrees, AfterFree

\* The handler frees a cookie that is not in the jar.
LEMMA CookieFree ==
    ASSUME CookieInv, NEW k \in DOMAIN heap, free_cookie(k), UNCHANGED pc
    PROVE  CookieInv'
<1>1. heap' = Freed(heap, {k}) /\ jar' = jar /\ k \notin InJar /\ heap[k].alive
  BY DEF free_cookie, Usable
<1>2. mishap' # "double free"
  BY <1>1, FreedWell DEF free_cookie
<1>3. InJar' = InJar /\ \A n \in DOMAIN jar : jar[n] # k
  BY <1>1 DEF InJar
<1>4. /\ DOMAIN heap' = DOMAIN heap
      /\ \A j \in DOMAIN heap : CookieWhole(heap'[j])
      /\ heap'[k].alive = FALSE
      /\ \A j \in DOMAIN heap \ {k} : heap'[j] = heap[j]
  <2>1. \A j \in DOMAIN heap : CookieWhole(heap[j])
    BY DEF CookieInv
  <2>2. k \in DOMAIN heap \cap {k}
    OBVIOUS
  <2> HIDE DEF CookieInv
  <2> QED
    BY <1>1, <2>1, <2>2, FreedCookies
<1>5. JarAlive'
  BY <1>1, <1>3, <1>4 DEF CookieInv, JarAlive
<1>6. \A j \in DOMAIN heap' : heap'[j].alive /\ heap'[j].kept => j \in InJar'
  BY <1>3, <1>4 DEF CookieInv
<1>7. \A n \in DOMAIN jar' : jar'[n] \in DOMAIN heap'
  BY <1>1, <1>4 DEF CookieInv
<1>8. pc' \in {"idle", "ready"} => DOMAIN jar' = {}
  BY <1>1 DEF CookieInv
<1> QED
  BY <1>2, <1>4, <1>5, <1>6, <1>7, <1>8 DEF CookieInv

\* A cookie that goes in the jar takes the place of the one that is freed.
LEMMA CookieSet ==
    ASSUME CookieInv, ~Resets, pc = "handler", NEW k \in DOMAIN heap, set(k),
           UNCHANGED pc
    PROVE  CookieInv'
<1> DEFINE n == heap[k].name
           old == IF n \in DOMAIN jar THEN {jar[n]} ELSE {}
           left == Freed(heap, old)
<1>1. /\ heap[k].alive /\ k \notin InJar /\ jar' = Put(jar, n, k)
      /\ heap' = [left EXCEPT ![k].kept = TRUE] /\ mishap' \in AfterFrees(old)
  BY DEF set, Usable
<1>2. /\ old \in SUBSET DOMAIN heap /\ \A j \in old : heap[j].alive
      /\ k \notin old /\ \A m \in DOMAIN jar : m # n => jar[m] \notin old /\ jar[m] # k
  BY <1>1 DEF CookieInv, JarAlive, InJar
<1>3. mishap' # "double free"
  BY <1>1, <1>2, FreedWell
<1>4. /\ DOMAIN left = DOMAIN heap
      /\ \A j \in DOMAIN heap : CookieWhole(left[j]) /\ left[j].name = heap[j].name
      /\ \A j \in DOMAIN heap \cap old : left[j].alive = FALSE
      /\ \A j \in DOMAIN heap \ old : left[j] = heap[j]
  <2>1. \A j \in DOMAIN heap : CookieWhole(heap[j])
    BY DEF CookieInv
  <2> QED
    BY <2>1, FreedCookies
<1> HIDE DEF left
<1>5. /\ DOMAIN heap' = DOMAIN heap /\ heap'[k] = [heap[k] EXCEPT !.kept = TRUE]
      /\ \A j \in DOMAIN heap : j # k => heap'[j] = left[j]
  BY <1>1, <1>2, <1>4
<1>6. /\ CookieWhole(heap'[k]) /\ heap'[k].name = n /\ heap'[k].alive
  <2>1. DOMAIN heap[k] = {"name", "value", "changed", "expires", "max_age", "flag",
                          "domain", "path", "wild", "alive", "kept"} /\ CookieWhole(heap[k])
    BY DEF CookieInv, CookieWhole, CookieFields, new_cad_cgi_cookie
  <2> QED
    BY <1>1, <1>5, <2>1 DEF CookieWhole
<1>7. /\ DOMAIN jar' = DOMAIN jar \cup {n} /\ jar'[n] = k
      /\ \A m \in DOMAIN jar : m # n => jar'[m] = jar[m]
  BY <1>1 DEF Put
<1> HIDE DEF n, old
<1>8. \A m \in DOMAIN jar' : jar'[m] \in DOMAIN heap'
  BY <1>5, <1>7 DEF CookieInv
<1>9. JarAlive'
  <2>1. ASSUME NEW m \in DOMAIN jar, m # n
        PROVE  heap'[jar[m]].alive /\ heap'[jar[m]].name = m
    <3>1. jar[m] \in DOMAIN heap \ old /\ jar[m] # k
      BY <1>2, <2>1 DEF CookieInv
    <3>2. heap'[jar[m]] = heap[jar[m]]
      BY <1>4, <1>5, <3>1
    <3> QED
      BY <2>1, <3>2 DEF CookieInv, JarAlive
  <2> QED
    BY <1>6, <1>7, <2>1 DEF JarAlive
<1>10. \A j \in DOMAIN heap' : CookieWhole(heap'[j])
  BY <1>4, <1>5, <1>6
<1>11. ASSUME NEW j \in DOMAIN heap', heap'[j].alive, heap'[j].kept PROVE j \in InJar'
  <2>1. CASE j = k
    BY <1>7, <2>1 DEF InJar
  <2>2. CASE j # k
    <3>1. heap'[j] = left[j]
      BY <1>5, <2>2
    <3>2. j \notin old /\ left[j] = heap[j]
      BY <1>4, <1>5, <1>11, <3>1
    <3>3. PICK m \in DOMAIN jar : jar[m] = j
      <4>1. j \in DOMAIN heap /\ heap[j].alive /\ heap[j].kept
        BY <1>5, <1>11, <3>1, <3>2
      <4>2. j \in InJar
        BY <4>1 DEF CookieInv
      <4> QED
        BY <4>2 DEF InJar
    <3>4. m # n
      BY <3>2, <3>3 DEF old
    <3> QED
      BY <1>7, <3>3, <3>4 DEF InJar
  <2> QED
    BY <2>1, <2>2
<1> QED
  BY <1>3, <1>8, <1>9, <1>10, <1>11 DEF CookieInv

\* A response that is freed frees the living cookies of its jar.
LEMMA CookieFreeResponse ==
    ASSUME CookieInv, free_response
    PROVE  CookieInv'
<1>1. InJar \in SUBSET DOMAIN heap /\ \A k \in InJar : heap[k].alive
  BY DEF CookieInv, JarAlive, InJar
<1>2. mishap' # "double free"
  BY <1>1, FreedWell DEF free_response
<1>3. heap' = Freed(heap, InJar) /\ jar' = <<>>
  BY DEF free_response
<1>4. DOMAIN jar' = {}
  BY <1>3
<1>5. /\ DOMAIN heap' = DOMAIN heap
      /\ \A k \in DOMAIN heap : CookieWhole(heap'[k]) /\ heap'[k].kept = heap[k].kept
      /\ \A k \in DOMAIN heap \cap InJar : heap'[k].alive = FALSE
      /\ \A k \in DOMAIN heap \ InJar : heap'[k] = heap[k]
  <2>1. \A j \in DOMAIN heap : CookieWhole(heap[j])
    BY DEF CookieInv
  <2> QED
    BY <1>3, <2>1, FreedCookies
<1>6. \A k \in DOMAIN heap' : ~(heap'[k].alive /\ heap'[k].kept)
  BY <1>5 DEF CookieInv
<1>7. JarAlive'
  BY <1>4 DEF JarAlive
<1>8. \A k \in DOMAIN heap' : CookieWhole(heap'[k])
  BY <1>5
<1> QED
  BY <1>2, <1>4, <1>6, <1>7, <1>8 DEF CookieInv

\* The jar that run makes holds the cookies that it makes.
LEMMA CookieRun == ASSUME CookieInv, run PROVE CookieInv'
<1> DEFINE sent == parse_cookies(Header)
           parsed == Parsed(Header)
<1>1. /\ heap' = parsed.cookies /\ jar' = parsed.jar /\ pc' = "handler"
      /\ mishap' # "double free"
  BY NULLAssumption DEF run, AfterFree, CookieInv
<1>2. /\ DOMAIN jar' = DOMAIN sent /\ \A n \in DOMAIN sent : jar'[n] = Sent(n)
      /\ DOMAIN heap' = {Sent(n) : n \in DOMAIN sent}
      /\ \A k \in DOMAIN heap' :
            heap'[k] = [new_cad_cgi_cookie(k[2], sent[k[2]]) EXCEPT !.wild = FALSE, !.kept = TRUE]
  BY <1>1 DEF Parsed
<1> HIDE DEF sent, parsed
<1>3. ASSUME NEW n, NEW v
      PROVE  LET c == [new_cad_cgi_cookie(n, v) EXCEPT !.wild = FALSE, !.kept = TRUE]
             IN  CookieWhole(c) /\ c.alive = TRUE /\ c.name = n
  BY DEF new_cad_cgi_cookie, CookieWhole, CookieFields
<1>4. \A n : Sent(n)[2] = n
  BY DEF Sent
<1>5. \A n \in DOMAIN jar' : jar'[n] \in DOMAIN heap'
  BY <1>2
<1>6. JarAlive'
  <2>1. ASSUME NEW n \in DOMAIN jar' PROVE heap'[jar'[n]].alive /\ heap'[jar'[n]].name = n
    <3>1. jar'[n] = Sent(n) /\ Sent(n) \in DOMAIN heap'
      BY <1>2
    <3>2. heap'[Sent(n)] = [new_cad_cgi_cookie(n, sent[n]) EXCEPT !.wild = FALSE, !.kept = TRUE]
      BY <1>2, <1>4, <3>1
    <3> QED
      BY <1>3, <3>1, <3>2
  <2> QED
    BY <2>1 DEF JarAlive
<1>7. ASSUME NEW k \in DOMAIN heap' PROVE CookieWhole(heap'[k])
  <2>1. heap'[k] = [new_cad_cgi_cookie(k[2], sent[k[2]]) EXCEPT !.wild = FALSE, !.kept = TRUE]
    BY <1>2
  <2>2. CookieWhole([new_cad_cgi_cookie(k[2], sent[k[2]]) EXCEPT !.wild = FALSE, !.kept = TRUE])
    BY <1>3
  <2> QED
    BY <2>1, <2>2
<1>8. \A k \in DOMAIN heap' : k \in InJar'
  BY <1>2 DEF InJar
<1> QED
  BY <1>1, <1>5, <1>6, <1>7, <1>8 DEF CookieInv

\* The handler's calls, of a cookie and of the others.
LEMMA CookieHandler == ASSUME CookieInv, ~Resets, handler PROVE CookieInv'
<1>1. pc = "handler" /\ pc' = pc
  BY DEF handler
<1>2. CASE CookieCall
  <2>1. CASE \E n \in Names : new_cookie(n)
    BY <1>1, <2>1, CookieNew
  <2>2. ASSUME NEW k \in DOMAIN heap, set(k) PROVE CookieInv'
    BY <1>1, <2>2, CookieSet
  <2>3. ASSUME NEW k \in DOMAIN heap, free_cookie(k) PROVE CookieInv'
    BY <1>1, <2>3, CookieFree
  <2>4. ASSUME NEW k \in DOMAIN heap,
               \/ \E v \in Values : set_value(k, v)
               \/ set_expires(k, 1) \/ set_max_age(k, 1)
               \/ set_domain(k, "domain") \/ set_path(k, "path") \/ set_flag(k, "secure")
        PROVE  CookieInv'
    BY <1>1, <2>4, CookieSetters
  <2> QED
    BY <1>2, <2>1, <2>2, <2>3, <2>4 DEF CookieCall
<1>3. CASE UNCHANGED <<heap, jar, mishap>>
  BY <1>1, <1>3 DEF CookieInv, JarAlive, InJar
<1> QED
  BY <1>2, <1>3 DEF handler, cookieVars

\* No step frees a cookie twice or loses one.
LEMMA CookieStep == ASSUME CookieInv, ~Resets, [Next]_vars PROVE CookieInv'
<1>1. ASSUME UNCHANGED <<heap, jar, mishap>>,
             pc' \in {"idle", "ready"} => DOMAIN jar = {}
      PROVE  CookieInv'
  BY <1>1 DEF CookieInv, JarAlive, InJar
<1>2. CASE new_cad_cgi
  BY <1>1, <1>2 DEF new_cad_cgi, CookieInv, cookieVars
<1>3. CASE run
  BY <1>3, CookieRun
<1>4. CASE run_no_memory \/ body \/ run_returns \/ flush_null
  BY <1>1, <1>4
     DEF run_no_memory, body, run_returns, flush_null, metaVars, cookieVars
<1>5. CASE handler
  BY <1>5, CookieHandler
<1>6. CASE run_fails \/ free
  BY <1>6, CookieFreeResponse DEF run_fails, free, metaVars
<1>7. CASE flush_response
  <2>1. UNCHANGED <<jar, mishap>> /\ pc' = "flushed" /\ heap' = Unchanged
    BY <1>7 DEF flush_response, metaVars
  <2>2. DOMAIN heap' = DOMAIN heap
    BY <2>1 DEF Unchanged
  <2>3. ASSUME NEW k \in DOMAIN heap PROVE Same(heap[k], heap'[k])
    <3>1. CookieWhole(heap[k])
      BY DEF CookieInv
    <3>2. CASE k \in InJar
      <4>1. heap'[k] = [heap[k] EXCEPT !.changed = FALSE]
        BY <2>1, <3>2 DEF Unchanged
      <4>2. Same(heap[k], [heap[k] EXCEPT !.changed = FALSE])
        BY <3>1, CookieFieldSet
      <4> QED
        BY <4>1, <4>2
    <3>3. CASE k \notin InJar
      BY <2>1, <3>1, <3>3 DEF Unchanged, Same
    <3> QED
      BY <3>2, <3>3
  <2>4. JarAlive'
    BY <2>1, <2>3 DEF CookieInv, JarAlive, Same
  <2>5. InJar' = InJar
    BY <2>1 DEF InJar
  <2>6. \A k \in DOMAIN heap' : heap'[k].alive /\ heap'[k].kept => k \in InJar'
    BY <2>2, <2>3, <2>5 DEF CookieInv, Same
  <2>7. \A n \in DOMAIN jar' : jar'[n] \in DOMAIN heap'
    BY <2>1, <2>2 DEF CookieInv
  <2>8. \A k \in DOMAIN heap' : CookieWhole(heap'[k])
    BY <2>2, <2>3 DEF Same
  <2>9. mishap' # "double free" /\ pc' \notin {"idle", "ready"}
    BY <2>1 DEF CookieInv
  <2> QED
    BY <2>4, <2>6, <2>7, <2>8, <2>9 DEF CookieInv
<1>8. CASE free_cgi
  <2>1. heap' = <<>> /\ UNCHANGED <<jar, mishap>> /\ pc = "ready"
    BY <1>8 DEF free_cgi, ProcessEnds
  <2>2. DOMAIN jar' = {} /\ mishap' # "double free"
    BY <2>1 DEF CookieInv
  <2>3. DOMAIN heap' = {}
    BY <2>1
  <2> QED
    BY <2>2, <2>3 DEF CookieInv, JarAlive
<1>9. CASE Stopped \/ UNCHANGED vars
  BY <1>1, <1>9 DEF Stopped, vars, cgiVars, cookieVars, metaVars, CookieInv
<1> QED
  BY <1>2, <1>3, <1>4, <1>5, <1>6, <1>7, <1>8, <1>9 DEF Next

\* Cookies are replaced, freed by the handler and freed with the jar, and never twice,
\* never in the jar, and all those that were ever in it in the end.
THEOREM FreedOnceHolds == ASSUME ~Resets PROVE Spec => []FreedOnce
<1>1. CookieInv => FreedOnce
  <2> SUFFICES ASSUME CookieInv PROVE FreedOnce
    OBVIOUS
  <2>1. pc \in {"idle", "ready"} => InJar = {}
    BY DEF CookieInv, InJar
  <2> QED
    BY <2>1 DEF CookieInv, FreedOnce
<1>2. CookieInv /\ [Next]_vars => CookieInv'
  BY CookieStep
<1> QED
  BY <1>1, <1>2, CookieInit, PTL DEF Spec

------------------------------------------------------------------------------
\* The meta-variables

\* A version that is read has a major number, or is read again as it was.
MajorKnown ==
    \A r \in Requests :
        LET given == r.env.gateway_interface
            version == gateway_interface(given, NoVersion)
        IN  given # UNSET => version.major # 0 \/ gateway_interface(given, version) = version

\* What an accessor would answer now.
Now(a) ==
    CASE a = "auth_type"         -> AuthType
      [] a = "content_length"    -> meta.content_length
      [] a = "content_type"      -> ContentType
      [] a = "gateway_interface" -> GatewayInterface
      [] a = "query_string"      -> QueryString
      [] a = "server_port"       -> ServerPort
      [] a = "server_protocol"   -> ServerProtocol
      [] a = "input_as_form"     -> Form
      [] OTHER                   -> StringField(a)

\* The environment holds what a request does, but for the protocol, which was cut
\* perhaps; the version that is kept is the one it names, if any is kept.
MetaShape ==
    /\ DOMAIN meta = {"content_length", "content_type", "gateway_interface", "strings",
                      "query_string", "input_as_form", "server_port", "server_protocol"}
    /\ DOMAIN meta.strings = StringFields
    /\ DOMAIN answers = Accessors
    /\ pc # "idle" => /\ Read \cup StringFields \subseteq DOMAIN env
                      /\ env.server_protocol \in Seq(Int) \cup {UNSET}
                      /\ \E r \in Requests : env.gateway_interface = r.env.gateway_interface
    /\ \/ meta.gateway_interface = NoVersion
       \/ /\ env.gateway_interface # UNSET
          /\ meta.gateway_interface = gateway_interface(env.gateway_interface, NoVersion)

\* What was answered in this response is what would be answered now.
MetaInv ==
    /\ MetaShape
    /\ \A a \in Accessors : answers[a] \subseteq {Now(a)}
    /\ pc = "idle" => /\ meta.gateway_interface = NoVersion
                      /\ \A a \in Accessors : answers[a] = {}

\* All accessors would answer what they would have answered before.
SameAnswers ==
    /\ AuthType' = AuthType
    /\ meta'.content_length = meta.content_length
    /\ ContentType' = ContentType
    /\ GatewayInterface' = GatewayInterface
    /\ QueryString' = QueryString
    /\ ServerPort' = ServerPort
    /\ ServerProtocol' = ServerProtocol
    /\ Form' = Form
    /\ \A f \in StringFields : StringField(f)' = StringField(f)

\* The first natural number of a set is one of it.
LEMMA MinIsLeast ==
    ASSUME NEW S \in SUBSET Nat, S # {}
    PROVE  Min(S) \in S /\ \A n \in S : Min(S) <= n
<1>1. PICK R : IsWellFoundedOn(R, Nat) /\ \A m, n \in Nat : m < n => <<m, n>> \in R
  <2>1. IsWellFoundedOn(OpToRel(<, Nat), Nat)
    BY NatLessThanWellFounded
  <2>2. ASSUME NEW m \in Nat, NEW n \in Nat, m < n
        PROVE  <<m, n>> \in {ss \in Nat \X Nat : ss[1] < ss[2]}
    BY <2>2
  <2>3. \A m, n \in Nat : m < n => <<m, n>> \in OpToRel(<, Nat)
    BY <2>2, Zenon DEF OpToRel
  <2> QED
    BY <2>1, <2>3, Zenon
<1>2. IsWellFoundedOn(R, Nat) /\ S \subseteq Nat /\ S # {}
  BY <1>1
<1>3. PICK x \in S : \A y \in S : ~(<<y, x>> \in R)
  BY <1>2, WFMin, Zenon
<1>4. \A y \in S : ~(y < x)
  BY <1>1, <1>3, Zenon
<1>5. \A y \in S : x <= y
  BY <1>4
<1> QED
  BY <1>5, Zenon DEF Min

\* What is read of a protocol, and what is left of it, are texts.
LEMMA ServerProtocolTexts ==
    ASSUME NEW t \in Seq(Int)
    PROVE  server_protocol(t).protocol \in Seq(Int) /\ server_protocol(t).left \in Seq(Int)
<1> DEFINE I == {i \in 1 .. Len(t) : t[i] = SLASH}
           slash == SelectInSeq(t, LAMBDA c : c = SLASH)
<1>1. slash = IF I # {} THEN Min(I) ELSE 0
  BY DEF SelectInSeq
<1>2. slash \in 0 .. Len(t)
  <2>1. CASE I = {}
    BY <1>1, <2>1
  <2>2. CASE I # {}
    <3>1. I \in SUBSET Nat
      OBVIOUS
    <3> HIDE DEF I
    <3>2. Min(I) \in I
      BY <2>2, <3>1, MinIsLeast
    <3> QED
      BY <1>1, <2>2, <3>2 DEF I
  <2> QED
    BY <2>1, <2>2
<1>3. server_protocol(t) =
        IF slash = 0 THEN [protocol |-> t, version |-> NoVersion, left |-> t]
        ELSE [protocol |-> SubSeq(t, 1, slash - 1),
              version |-> Version(SubSeq(t, slash + 1, Len(t)), NoVersion),
              left |-> SubSeq(t, 1, slash - 1)]
  BY Zenon DEF server_protocol
<1> HIDE DEF slash
<1>4. CASE slash = 0
  BY <1>3, <1>4
<1>5. CASE slash # 0
  <2>1. SubSeq(t, 1, slash - 1) \in Seq(Int)
    BY <1>2, <1>5
  <2> QED
    BY <1>3, <1>5, <2>1
<1> QED
  BY <1>4, <1>5

\* An accessor that keeps something changes one field of the meta-variables, and no
\* other answer.
LEMMA OthersSame ==
    ASSUME MetaShape, env' = env, NEW f \in DOMAIN meta, NEW x, meta' = [meta EXCEPT ![f] = x]
    PROVE  /\ DOMAIN meta' = DOMAIN meta /\ meta'[f] = x
           /\ \A g \in DOMAIN meta : g # f => meta'[g] = meta[g]
           /\ AuthType' = AuthType
           /\ f # "content_length"    => meta'.content_length = meta.content_length
           /\ f # "content_type"      => ContentType' = ContentType
           /\ f # "gateway_interface" => GatewayInterface' = GatewayInterface
           /\ f # "query_string"      => QueryString' = QueryString
           /\ f # "server_port"       => ServerPort' = ServerPort
           /\ f # "server_protocol"   => ServerProtocol' = ServerProtocol
           /\ f # "input_as_form"     => Form' = Form
           /\ f # "strings"           => \A g \in StringFields : StringField(g)' = StringField(g)
<1>1. /\ DOMAIN meta' = DOMAIN meta /\ meta'[f] = x
      /\ \A g \in DOMAIN meta : g # f => meta'[g] = meta[g]
  OBVIOUS
<1>2. AuthType' = AuthType
  BY DEF AuthType
<1>3. f # "content_length" => meta'.content_length = meta.content_length
  BY <1>1 DEF MetaShape
<1>4. f # "content_type" => ContentType' = ContentType
  BY <1>1 DEF MetaShape, ContentType
<1>5. f # "gateway_interface" => GatewayInterface' = GatewayInterface
  BY <1>1 DEF MetaShape, GatewayInterface
<1>6. f # "query_string" => QueryString' = QueryString
  BY <1>1 DEF MetaShape, QueryString
<1>7. f # "server_port" => ServerPort' = ServerPort
  BY <1>1 DEF MetaShape, ServerPort
<1>8. f # "server_protocol" => ServerProtocol' = ServerProtocol
  BY <1>1 DEF MetaShape, ServerProtocol, ParsesProtocol
<1>9. f # "input_as_form" => Form' = Form
  BY <1>1 DEF MetaShape, Form
<1>10. f # "strings" => \A g \in StringFields : StringField(g)' = StringField(g)
  BY <1>1 DEF MetaShape, StringField
<1> QED
  BY <1>1, <1>2, <1>3, <1>4, <1>5, <1>6, <1>7, <1>8, <1>9, <1>10

\* A type that is kept or read again is the one that was answered.
LEMMA SameContentType ==
    ASSUME MetaShape, pc' = pc, content_type_ PROVE SameAnswers /\ MetaShape'
<1>1. /\ meta' = [meta EXCEPT !.content_type = ContentType] /\ env' = env
      /\ DOMAIN answers' = DOMAIN answers /\ "content_type" \in DOMAIN meta
  BY DEF content_type_, Answers, MetaShape
<1>2. /\ DOMAIN meta' = DOMAIN meta /\ meta'.content_type = ContentType
      /\ \A g \in DOMAIN meta : g # "content_type" => meta'[g] = meta[g]
  BY <1>1
<1>3. ContentType' = ContentType
  BY <1>1, <1>2 DEF ContentType
<1>4. MetaShape'
  BY <1>1, <1>2 DEF MetaShape
<1> QED
  BY <1>1, <1>3, <1>4, OthersSame DEF SameAnswers

\* A query is kept, or is not there and is not there again.
LEMMA SameQueryString ==
    ASSUME MetaShape, pc' = pc, query_string PROVE SameAnswers /\ MetaShape'
<1>1. /\ meta' = [meta EXCEPT !.query_string = QueryString] /\ env' = env
      /\ DOMAIN answers' = DOMAIN answers /\ "query_string" \in DOMAIN meta
  BY DEF query_string, Answers, MetaShape
<1>2. /\ DOMAIN meta' = DOMAIN meta /\ meta'.query_string = QueryString
      /\ \A g \in DOMAIN meta : g # "query_string" => meta'[g] = meta[g]
  BY <1>1
<1>3. QueryString' = QueryString
  BY <1>1, <1>2 DEF QueryString
<1>4. MetaShape'
  BY <1>1, <1>2 DEF MetaShape
<1> QED
  BY <1>1, <1>3, <1>4, OthersSame DEF SameAnswers

\* A port that is -1 is looked up again, and is -1 again.
LEMMA SameServerPort ==
    ASSUME MetaShape, pc' = pc, server_port PROVE SameAnswers /\ MetaShape'
<1>1. /\ meta' = [meta EXCEPT !.server_port = ServerPort] /\ env' = env
      /\ DOMAIN answers' = DOMAIN answers /\ "server_port" \in DOMAIN meta
  BY DEF server_port, Answers, MetaShape
<1>2. /\ DOMAIN meta' = DOMAIN meta /\ meta'.server_port = ServerPort
      /\ \A g \in DOMAIN meta : g # "server_port" => meta'[g] = meta[g]
  BY <1>1
<1>3. ServerPort' = ServerPort
  BY <1>1, <1>2 DEF ServerPort
<1>4. MetaShape'
  BY <1>1, <1>2 DEF MetaShape
<1> QED
  BY <1>1, <1>3, <1>4, OthersSame DEF SameAnswers

\* The form is parsed once.
LEMMA SameForm ==
    ASSUME MetaShape, pc' = pc, input_as_form PROVE SameAnswers /\ MetaShape'
<1>1. /\ meta' = [meta EXCEPT !.input_as_form = Form] /\ env' = env
      /\ DOMAIN answers' = DOMAIN answers /\ "input_as_form" \in DOMAIN meta
  BY DEF input_as_form, MetaShape
<1>2. /\ DOMAIN meta' = DOMAIN meta /\ meta'.input_as_form = Form
      /\ \A g \in DOMAIN meta : g # "input_as_form" => meta'[g] = meta[g]
  BY <1>1
<1>3. Form' = Form
  BY <1>1, <1>2 DEF Form
<1>4. MetaShape'
  BY <1>1, <1>2 DEF MetaShape
<1> QED
  BY <1>1, <1>3, <1>4, OthersSame DEF SameAnswers

\* A version that is kept has a major number, or is read again as it was.
LEMMA SameGatewayInterface ==
    ASSUME MetaShape, MajorKnown, pc # "idle", pc' = pc, gateway_interface_
    PROVE  SameAnswers /\ MetaShape'
<1> DEFINE version == gateway_interface(env.gateway_interface, NoVersion)
<1>1. /\ meta' = [meta EXCEPT !.gateway_interface = GatewayInterface] /\ env' = env
      /\ DOMAIN answers' = DOMAIN answers /\ "gateway_interface" \in DOMAIN meta
  BY DEF gateway_interface_, Answers, MetaShape
<1>2. /\ DOMAIN meta' = DOMAIN meta /\ meta'.gateway_interface = GatewayInterface
      /\ \A g \in DOMAIN meta : g # "gateway_interface" => meta'[g] = meta[g]
  BY <1>1
<1>3. env.gateway_interface # UNSET =>
         version.major # 0 \/ gateway_interface(env.gateway_interface, version) = version
  BY DEF MetaShape, MajorKnown
<1>4. GatewayInterface = IF env.gateway_interface = UNSET THEN NoVersion ELSE version
  <2>1. NoVersion.major = 0
    BY DEF NoVersion
  <2>2. CASE meta.gateway_interface = NoVersion
    BY <2>1, <2>2 DEF GatewayInterface
  <2>3. CASE env.gateway_interface # UNSET /\ meta.gateway_interface = version
    BY <1>3, <2>3 DEF GatewayInterface
  <2> QED
    BY <2>2, <2>3 DEF MetaShape
<1>5. GatewayInterface' = GatewayInterface
  <2>1. CASE env.gateway_interface = UNSET
    BY <1>1, <1>2, <2>1 DEF GatewayInterface
  <2>2. CASE env.gateway_interface # UNSET
    <3>1. meta'.gateway_interface = version /\ env'.gateway_interface = env.gateway_interface
      BY <1>1, <1>2, <1>4, <2>2
    <3> QED
      BY <1>3, <1>4, <2>2, <3>1 DEF GatewayInterface
  <2> QED
    BY <2>1, <2>2
<1>6. MetaShape'
  BY <1>1, <1>2, <1>4 DEF MetaShape
<1> QED
  BY <1>1, <1>5, <1>6, OthersSame DEF SameAnswers

\* A copy is made once, whatever is copied.
LEMMA SameStringField ==
    ASSUME MetaShape, pc' = pc, NEW f \in StringFields, string_field(f)
    PROVE  SameAnswers /\ MetaShape'
<1> DEFINE strings == [meta.strings EXCEPT ![f] = StringField(f)]
<1>1. /\ meta' = [meta EXCEPT !.strings = strings] /\ env' = env
      /\ DOMAIN answers' = DOMAIN answers /\ "strings" \in DOMAIN meta
  BY DEF string_field, Answers, MetaShape
<1>2. /\ DOMAIN strings = StringFields /\ strings[f] = StringField(f)
      /\ \A g \in StringFields : g # f => strings[g] = meta.strings[g]
  BY DEF MetaShape
<1> HIDE DEF strings
<1>3. /\ DOMAIN meta' = DOMAIN meta /\ meta'.strings = strings
      /\ \A g \in DOMAIN meta : g # "strings" => meta'[g] = meta[g]
  BY <1>1
<1>4. StringField(f)' = StringField(f)
  BY <1>1, <1>2, <1>3, NULLAssumption DEF StringField
<1>5. \A g \in StringFields : g # f => StringField(g)' = StringField(g)
  BY <1>1, <1>2, <1>3 DEF StringField
<1>6. MetaShape'
  BY <1>1, <1>2, <1>3 DEF MetaShape
<1> QED
  BY <1>1, <1>4, <1>5, <1>6, OthersSame DEF SameAnswers

\* A protocol that is read is kept, and what is left of it in the environment is not
\* read in the same response.
LEMMA SameServerProtocol ==
    ASSUME MetaShape, pc # "idle", pc' = pc, server_protocol_
    PROVE  SameAnswers /\ MetaShape'
<1>1. meta' = [meta EXCEPT !.server_protocol = ServerProtocol]
  BY Zenon DEF server_protocol_, Answers
<1> /\ DOMAIN answers' = DOMAIN answers
    /\ "server_protocol" \in DOMAIN meta
  BY DEF server_protocol_, Answers, MetaShape
<1>2. /\ DOMAIN meta' = DOMAIN meta /\ meta'.server_protocol = ServerProtocol
      /\ \A g \in DOMAIN meta : g # "server_protocol" => meta'[g] = meta[g]
  BY <1>1
<1>3. /\ DOMAIN env' = DOMAIN env
      /\ \A x \in DOMAIN env : x # "server_protocol" => env'[x] = env[x]
      /\ env'.server_protocol \in Seq(Int) \cup {UNSET}
  <2>1. CASE ParsesProtocol
    <3>1. env' = [env EXCEPT !.server_protocol = server_protocol(env.server_protocol).left]
      BY <2>1 DEF server_protocol_
    <3>2. "server_protocol" \in DOMAIN env /\ env.server_protocol \in Seq(Int)
      BY <2>1 DEF MetaShape, ParsesProtocol, Read
    <3>3. server_protocol(env.server_protocol).left \in Seq(Int)
      BY <3>2, ServerProtocolTexts
    <3> QED
      BY <3>1, <3>2, <3>3
  <2>2. CASE ~ParsesProtocol
    <3>1. env' = env
      BY <2>2 DEF server_protocol_
    <3> QED
      BY <3>1 DEF MetaShape
  <2> QED
    BY <2>1, <2>2
<1>4. ServerProtocol.protocol # NULL
  <2>1. CASE meta.server_protocol.protocol # NULL
    BY <2>1 DEF ServerProtocol, ParsesProtocol
  <2>2. CASE meta.server_protocol.protocol = NULL /\ ParsesProtocol
    <3>1. env.server_protocol \in Seq(Int)
      BY <2>2 DEF MetaShape, ParsesProtocol
    <3>2. ServerProtocol.protocol = server_protocol(env.server_protocol).protocol
      BY <2>2 DEF ServerProtocol
    <3>3. server_protocol(env.server_protocol).protocol \in Seq(Int)
      BY <3>1, ServerProtocolTexts
    <3> QED
      BY <3>2, <3>3, NULLAssumption
  <2>3. CASE meta.server_protocol.protocol = NULL /\ ~ParsesProtocol
    <3>1. ServerProtocol.protocol = <<>>
      BY <2>3 DEF ServerProtocol
    <3>2. <<>> \in Seq(Int)
      OBVIOUS
    <3> QED
      BY <3>1, <3>2, NULLAssumption
  <2> QED
    BY <2>1, <2>2, <2>3
<1>5. ServerProtocol' = ServerProtocol
  <2>1. (ServerProtocol = meta.server_protocol)'
    BY <1>2, <1>4 DEF ServerProtocol, ParsesProtocol
  <2> QED
    BY <1>2, <2>1
<1>6. {"auth_type", "content_type", "gateway_interface", "query_string", "server_port"}
        \cup StringFields \subseteq DOMAIN env \ {"server_protocol"}
  BY StringFieldsAssumption DEF MetaShape, Read
<1>7. AuthType' = AuthType /\ ContentType' = ContentType
  BY <1>2, <1>3, <1>6 DEF MetaShape, AuthType, ContentType
<1>8. GatewayInterface' = GatewayInterface /\ QueryString' = QueryString
  BY <1>2, <1>3, <1>6 DEF MetaShape, GatewayInterface, QueryString
<1>9. ServerPort' = ServerPort /\ Form' = Form
      /\ meta'.content_length = meta.content_length
  BY <1>2, <1>3, <1>6 DEF MetaShape, ServerPort, Form
<1>10. \A f \in StringFields : StringField(f)' = StringField(f)
  BY <1>2, <1>3, <1>6 DEF MetaShape, StringField
<1>11. MetaShape'
  <2>1. env'.gateway_interface = env.gateway_interface
    BY <1>3, <1>6
  <2> QED
    BY <1>1, <1>2, <1>3, <2>1 DEF MetaShape
<1> QED
  BY <1>5, <1>7, <1>8, <1>9, <1>10, <1>11 DEF SameAnswers

\* An accessor answers what it would have answered, and changes no answer.
LEMMA MetaCalls ==
    ASSUME MetaShape, MajorKnown, pc = "handler", pc' = pc, MetaCall \/ input_as_form
    PROVE  /\ SameAnswers /\ MetaShape'
           /\ \E a \in Accessors : answers' = [answers EXCEPT ![a] = @ \cup {Now(a)}]
<1>1. ASSUME UNCHANGED <<meta, env>> PROVE SameAnswers
  <2>1. AuthType' = AuthType /\ ContentType' = ContentType
    BY <1>1 DEF AuthType, ContentType
  <2>2. GatewayInterface' = GatewayInterface /\ QueryString' = QueryString
    BY <1>1 DEF GatewayInterface, QueryString
  <2>3. ServerPort' = ServerPort /\ ServerProtocol' = ServerProtocol
    BY <1>1 DEF ServerPort, ServerProtocol, ParsesProtocol
  <2>4. Form' = Form /\ \A f \in StringFields : StringField(f)' = StringField(f)
    BY <1>1 DEF Form, StringField
  <2> QED
    BY <1>1, <2>1, <2>2, <2>3, <2>4 DEF SameAnswers
<1> USE DEF Answers, Now, Accessors, Read
<1>2. CASE auth_type \/ content_length_
  <2>1. UNCHANGED <<meta, env>>
    BY <1>2 DEF auth_type, content_length_
  <2>2. \E a \in Accessors : answers' = [answers EXCEPT ![a] = @ \cup {Now(a)}]
    BY <1>2 DEF auth_type, content_length_
  <2> QED
    BY <1>1, <2>1, <2>2 DEF MetaShape
<1>3. CASE content_type_
  BY <1>3, SameContentType DEF content_type_
<1>4. CASE gateway_interface_
  BY <1>4, SameGatewayInterface DEF gateway_interface_
<1>5. CASE \E f \in StringFields : string_field(f)
  <2>1. PICK f \in StringFields : string_field(f)
    BY <1>5
  <2>2. answers' = [answers EXCEPT ![f] = @ \cup {StringField(f)}]
    BY <2>1 DEF string_field
  <2>3. Now(f) = StringField(f)
    BY StringFieldsAssumption
  <2> QED
    BY <2>1, <2>2, <2>3, SameStringField
<1>6. CASE query_string
  BY <1>6, SameQueryString DEF query_string
<1>7. CASE server_port
  BY <1>7, SameServerPort DEF server_port
<1>8. CASE server_protocol_
  BY <1>8, SameServerProtocol DEF server_protocol_
<1>9. CASE input_as_form
  BY <1>9, SameForm DEF input_as_form
<1> QED
  BY <1>2, <1>3, <1>4, <1>5, <1>6, <1>7, <1>8, <1>9 DEF MetaCall

\* No process has started, and nothing was asked.
LEMMA MetaInit == Init => MetaInv
BY DEF Init, MetaInv, MetaShape, NewMeta

\* No step of a process changes what an accessor answers during a response.
LEMMA MetaStep == ASSUME MetaInv, MajorKnown, [Next]_vars PROVE MetaInv'
<1>1. ASSUME UNCHANGED <<meta, env, answers>>, pc = "idle" <=> pc' = "idle" PROVE MetaInv'
  <2>1. \A a \in Accessors : Now(a)' = Now(a)
    BY <1>1 DEF Now, AuthType, ContentType, GatewayInterface, QueryString, ServerPort,
                ServerProtocol, ParsesProtocol, Form, StringField
  <2>2. MetaShape'
    BY <1>1 DEF MetaInv, MetaShape
  <2>3. pc' = "idle" => /\ meta'.gateway_interface = NoVersion
                        /\ \A a \in Accessors : answers'[a] = {}
    BY <1>1 DEF MetaInv
  <2> QED
    BY <1>1, <2>1, <2>2, <2>3 DEF MetaInv
<1>2. ASSUME answers' = [a \in Accessors |-> {}], MetaShape',
             meta'.gateway_interface = NoVersion
      PROVE  MetaInv'
  BY <1>2 DEF MetaInv
<1>3. CASE new_cad_cgi
  <2>1. pc = "idle" /\ pc' # "idle" /\ UNCHANGED <<meta, answers>>
    BY <1>3 DEF new_cad_cgi
  <2>2. PICK r \in Requests : env' = r.env
    BY <1>3 DEF new_cad_cgi
  <2>3. meta.gateway_interface = NoVersion
    BY <2>1 DEF MetaInv
  <2>4. MetaShape'
    BY <2>1, <2>2, <2>3, RequestsAssumption DEF MetaInv, MetaShape
  <2> QED
    BY <2>1, <2>4 DEF MetaInv
<1>4. CASE run
  <2>1. PICK form : meta' = NewMeta(form)
    BY <1>4 DEF run
  <2>2. UNCHANGED env /\ pc # "idle" /\ answers' = [a \in Accessors |-> {}]
    BY <1>4 DEF run
  <2>3. MetaShape' /\ meta'.gateway_interface = NoVersion
    BY <2>1, <2>2 DEF MetaInv, MetaShape, NewMeta
  <2> QED
    BY <1>2, <2>2, <2>3
<1>5. CASE free_cgi
  <2>1. pc' = "idle" /\ meta' = NewMeta(NULL) /\ answers' = [a \in Accessors |-> {}]
    BY <1>5 DEF free_cgi, ProcessEnds
  <2>2. MetaShape' /\ meta'.gateway_interface = NoVersion
    BY <2>1 DEF MetaShape, NewMeta
  <2> QED
    BY <1>2, <2>1, <2>2
<1>6. CASE handler
  <2>1. pc = "handler" /\ pc' = pc
    BY <1>6 DEF handler
  <2>2. CASE MetaCall \/ input_as_form
    <3>1. /\ SameAnswers /\ MetaShape'
          /\ \E a \in Accessors : answers' = [answers EXCEPT ![a] = @ \cup {Now(a)}]
      BY <2>1, <2>2, MetaCalls DEF MetaInv
    <3>2. \A a \in Accessors : Now(a)' = Now(a)
      BY <3>1 DEF SameAnswers, Now, Accessors, Read
    <3>3. \A a \in Accessors : answers'[a] \subseteq answers[a] \cup {Now(a)}
      BY <3>1 DEF MetaInv, MetaShape
    <3> QED
      BY <2>1, <3>1, <3>2, <3>3 DEF MetaInv
  <2>3. CASE UNCHANGED metaVars
    BY <1>1, <2>1, <2>3 DEF metaVars
  <2> QED
    BY <1>6, <2>2, <2>3 DEF handler
<1>7. CASE run_no_memory \/ run_fails \/ body \/ run_returns
  BY <1>1, <1>7 DEF run_no_memory, run_fails, body, run_returns, metaVars
<1>8. CASE flush_response \/ flush_null \/ free
  BY <1>1, <1>8 DEF flush_response, flush_null, free, metaVars
<1>9. CASE Stopped \/ UNCHANGED vars
  BY <1>1, <1>9 DEF Stopped, vars, metaVars, cgiVars
<1> QED
  BY <1>3, <1>4, <1>5, <1>6, <1>7, <1>8, <1>9 DEF Next

\* The accessors may be called in any order and any number of times during a response:
\* each has one answer, though some parse again and one changes the environment.
THEOREM MetaStableHolds == ASSUME MajorKnown PROVE Spec => []MetaStable
<1>1. MetaInv => MetaStable
  <2> SUFFICES ASSUME MetaInv, NEW a \in Accessors PROVE Cardinality(answers[a]) <= 1
    BY DEF MetaStable
  <2>1. answers[a] \in SUBSET {Now(a)}
    BY DEF MetaInv
  <2>2. IsFiniteSet({Now(a)}) /\ Cardinality({Now(a)}) = 1
    BY FS_Singleton
  <2> QED
    BY <2>1, <2>2, FS_Subset
<1>2. MetaInv /\ [Next]_vars => MetaInv'
  BY MetaStep
<1> QED
  BY <1>1, <1>2, MetaInit, PTL DEF Spec
------------------------------------------------------------------------------
\* Loops over a text

\* A set of natural numbers has a least one: what the inductions below rest on.
LEMMA LeastNatural ==
    ASSUME NEW T \in SUBSET Nat, T # {}
    PROVE  \E x \in T : \A y \in T : x <= y
<1> DEFINE R == {pair \in Nat \X Nat : pair[1] < pair[2]}
<1>1. IsWellFoundedOn(R, Nat)
  BY NatLessThanWellFounded DEF OpToRel
<1>2. \A x, y \in Nat : x < y => <<x, y>> \in R
  OBVIOUS
<1> HIDE DEF R
<1>3. PICK x \in T : \A y \in T : ~ (<<y, x>> \in R)
  BY <1>1, WFMin, Zenon
<1>4. ASSUME NEW y \in T PROVE x <= y
  <2>1. ~ (x > y)
    BY <1>2, <1>3, Zenon
  <2> QED
    BY <2>1
<1> QED
  BY <1>4

\* A set that holds 0 and, with a number, the next one up to m, holds them all.
LEMMA UpTo ==
    ASSUME NEW m \in Nat, NEW T, 0 \in T, \A n \in 1 .. m : n - 1 \in T => n \in T
    PROVE  \A n \in 0 .. m : n \in T
<1> SUFFICES ASSUME {n \in 0 .. m : n \notin T} # {} PROVE FALSE
  OBVIOUS
<1> DEFINE B == {n \in 0 .. m : n \notin T}
<1>1. PICK x \in B : \A y \in B : x <= y
  <2>1. B \in SUBSET Nat /\ B # {}
    OBVIOUS
  <2> HIDE DEF B
  <2> QED
    BY <2>1, LeastNatural
<1>2. x # 0 /\ x - 1 \in 0 .. m
  BY <1>1
<1>3. x - 1 \in T
  BY <1>1, <1>2
<1> QED
  BY <1>1, <1>2, <1>3

\* A loop that goes through t by step, of the states S, leads from a to b.
Run(S, step, a, t, b) ==
    \E f \in [0 .. Len(t) -> S] :
        /\ f[0] = a /\ f[Len(t)] = b
        /\ \A n \in 1 .. Len(t) : f[n] = step[<<f[n - 1], t[n]>>]

LEMMA RunEmpty ==
    ASSUME NEW S, NEW step, NEW a \in S
    PROVE  Run(S, step, a, <<>>, a)
<1> DEFINE f == [n \in 0 .. 0 |-> a]
<1>1. f \in [0 .. Len(<<>>) -> S] /\ f[0] = a /\ f[Len(<<>>)] = a
  OBVIOUS
<1>2. 1 .. Len(<<>>) = {}
  OBVIOUS
<1> HIDE DEF f
<1> QED
  BY <1>1, <1>2 DEF Run

\* Where the parts of a text lead, the text leads.
LEMMA RunConcat ==
    ASSUME NEW S, NEW step, NEW X, NEW r \in Seq(X), NEW t \in Seq(X),
           NEW a, NEW b, NEW c,
           Run(S, step, a, r, b), Run(S, step, b, t, c)
    PROVE  Run(S, step, a, r \o t, c)
<1>1. PICK f \in [0 .. Len(r) -> S] :
         /\ f[0] = a /\ f[Len(r)] = b
         /\ \A n \in 1 .. Len(r) : f[n] = step[<<f[n - 1], r[n]>>]
  BY DEF Run
<1>2. PICK g \in [0 .. Len(t) -> S] :
         /\ g[0] = b /\ g[Len(t)] = c
         /\ \A n \in 1 .. Len(t) : g[n] = step[<<g[n - 1], t[n]>>]
  BY DEF Run
<1> DEFINE m == Len(r)
           l == Len(t)
           u == r \o t
           h == [n \in 0 .. m + l |-> IF n <= m THEN f[n] ELSE g[n - m]]
<1>3. /\ m \in Nat /\ l \in Nat /\ Len(u) = m + l
      /\ \A n \in 1 .. m : u[n] = r[n]
      /\ \A n \in m + 1 .. m + l : u[n] = t[n - m]
  OBVIOUS
<1> HIDE DEF m, l, u
<1>4. /\ f \in [0 .. m -> S] /\ f[0] = a /\ f[m] = b
      /\ \A n \in 1 .. m : f[n] = step[<<f[n - 1], r[n]>>]
      /\ g \in [0 .. l -> S] /\ g[0] = b /\ g[l] = c
      /\ \A n \in 1 .. l : g[n] = step[<<g[n - 1], t[n]>>]
  BY <1>1, <1>2 DEF m, l
<1>5. h \in [0 .. m + l -> S]
  BY <1>3, <1>4
<1>6. h[0] = a /\ h[m + l] = c
  <2>1. h[0] = a
    BY <1>3, <1>4
  <2>2. CASE l = 0
    BY <1>3, <1>4, <2>2
  <2>3. CASE l # 0
    BY <1>3, <1>4, <2>3
  <2> QED
    BY <2>1, <2>2, <2>3
<1>7. ASSUME NEW n \in 1 .. m + l PROVE h[n] = step[<<h[n - 1], u[n]>>]
  <2>1. CASE n <= m
    <3>1. h[n] = f[n] /\ h[n - 1] = f[n - 1] /\ n \in 1 .. m
      BY <1>3, <2>1
    <3>2. u[n] = r[n]
      BY <1>3, <3>1
    <3> HIDE DEF h
    <3> QED
      BY <1>4, <3>1, <3>2
  <2>2. CASE n = m + 1
    <3>1. h[n] = g[1] /\ h[n - 1] = f[m] /\ 1 \in 1 .. l
      <4>1. 1 \in 1 .. l /\ n \in 0 .. m + l /\ n - 1 \in 0 .. m + l
        BY <1>3, <2>2
      <4>2. n - m = 1 /\ n - 1 = m /\ ~(n <= m)
        BY <1>3, <2>2
      <4> QED
        BY <4>1, <4>2
    <3>3. u[n] = t[1]
      <4>1. n \in m + 1 .. m + l /\ n - m = 1
        BY <1>3, <2>2
      <4> QED
        BY <1>3, <4>1
    <3> HIDE DEF h
    <3>2. g[1] = step[<<g[0], t[1]>>]
      BY <1>4, <3>1
    <3> QED
      BY <1>4, <3>1, <3>2, <3>3
  <2>3. CASE n > m + 1
    <3>1. h[n] = g[n - m] /\ h[n - 1] = g[(n - m) - 1] /\ n - m \in 1 .. l
      BY <1>3, <2>3
    <3>2. u[n] = t[n - m]
      <4>1. n \in m + 1 .. m + l
        BY <1>3, <2>3
      <4> QED
        BY <1>3, <4>1
    <3> HIDE DEF h
    <3> QED
      BY <1>4, <3>1, <3>2
  <2> QED
    BY <1>3, <2>1, <2>2, <2>3
<1> HIDE DEF h
<1>8. Len(u) = m + l
  BY <1>3
<1>9. Run(S, step, a, u, c)
  BY <1>5, <1>6, <1>7, <1>8 DEF Run
<1> QED
  BY <1>9 DEF u

\* One more element is one more step.
LEMMA RunOne ==
    ASSUME NEW S, NEW step, NEW a \in S, NEW x, step[<<a, x>>] \in S
    PROVE  Run(S, step, a, <<x>>, step[<<a, x>>])
<1> DEFINE b == step[<<a, x>>]
           f == [n \in 0 .. 1 |-> IF n = 0 THEN a ELSE b]
<1>1. b \in S
  OBVIOUS
<1> HIDE DEF b
<1>2. f \in [0 .. 1 -> S] /\ f[0] = a /\ f[1] = b
  BY <1>1
<1> HIDE DEF f
<1>3. Len(<<x>>) = 1 /\ <<x>>[1] = x
  OBVIOUS
<1>4. ASSUME NEW n \in 1 .. 1 PROVE f[n] = step[<<f[n - 1], <<x>>[n]>>]
  <2>1. n = 1 /\ n - 1 = 0
    OBVIOUS
  <2> QED
    BY <1>2, <1>3, <2>1 DEF b
<1> QED
  BY <1>2, <1>3, <1>4 DEF Run, b

LEMMA RunAppend ==
    ASSUME NEW S, NEW step, NEW X, NEW t \in Seq(X), NEW a, NEW b \in S,
           Run(S, step, a, t, b), NEW x \in X, step[<<b, x>>] \in S
    PROVE  Run(S, step, a, Append(t, x), step[<<b, x>>])
<1>1. Run(S, step, b, <<x>>, step[<<b, x>>])
  BY RunOne
<1>2. <<x>> \in Seq(X)
  OBVIOUS
<1>3. Run(S, step, a, t \o <<x>>, step[<<b, x>>])
  BY <1>1, <1>2, RunConcat
<1>4. t \o <<x>> = Append(t, x)
  OBVIOUS
<1> QED
  BY <1>3, <1>4

\* Where it leads is one state.
LEMMA RunUnique ==
    ASSUME NEW S, NEW step, NEW X, NEW t \in Seq(X), NEW a, NEW b, Run(S, step, a, t, b),
           NEW g, g[0] = a,
           \A n \in 1 .. Len(t) : g[n - 1] \in S => g[n] = step[<<g[n - 1], t[n]>>]
    PROVE  g[Len(t)] = b
<1>1. PICK f \in [0 .. Len(t) -> S] :
         /\ f[0] = a /\ f[Len(t)] = b
         /\ \A n \in 1 .. Len(t) : f[n] = step[<<f[n - 1], t[n]>>]
  BY DEF Run
<1> DEFINE m == Len(t)
           T == {n \in 0 .. m : g[n] = f[n]}
<1>2. m \in Nat
  OBVIOUS
<1> HIDE DEF m
<1>3. 0 \in T
  BY <1>1, <1>2
<1>4. ASSUME NEW n \in 1 .. m, n - 1 \in T PROVE n \in T
  <2>1. n \in 1 .. Len(t) /\ n - 1 \in 0 .. Len(t) /\ n \in 0 .. m
    BY <1>2 DEF m
  <2>2. g[n - 1] = f[n - 1] /\ f[n - 1] \in S
    BY <1>1, <1>4, <2>1
  <2>3. g[n] = step[<<g[n - 1], t[n]>>] /\ f[n] = step[<<f[n - 1], t[n]>>]
    BY <1>1, <2>1, <2>2
  <2> QED
    BY <2>1, <2>2, <2>3
<1> HIDE DEF T
<1>5. m \in T
  <2>1. \A n \in 0 .. m : n \in T
    BY <1>2, <1>3, <1>4, UpTo
  <2> QED
    BY <1>2, <2>1
<1> QED
  BY <1>1, <1>5 DEF T, m

LEMMA PrefixSteps ==
    ASSUME NEW X, NEW t \in Seq(X)
    PROVE  /\ SubSeq(t, 1, 0) = <<>> /\ SubSeq(t, 1, Len(t)) = t
           /\ \A n \in 1 .. Len(t) :
                 /\ SubSeq(t, 1, n) \in Seq(X) /\ SubSeq(t, 1, n - 1) \in Seq(X)
                 /\ SubSeq(t, 1, n) = Append(SubSeq(t, 1, n - 1), t[n])
<1>1. SubSeq(t, 1, 0) = <<>> /\ SubSeq(t, 1, Len(t)) = t
  OBVIOUS
<1>2. ASSUME NEW n \in 1 .. Len(t)
      PROVE  /\ SubSeq(t, 1, n) \in Seq(X) /\ SubSeq(t, 1, n - 1) \in Seq(X)
             /\ SubSeq(t, 1, n) = Append(SubSeq(t, 1, n - 1), t[n])
  OBVIOUS
<1> QED
  BY <1>1, <1>2

\* A loop leads somewhere.
LEMMA RunExists ==
    ASSUME NEW S, NEW X, NEW step \in [S \X X -> S], NEW t \in Seq(X), NEW a \in S
    PROVE  \E b \in S : Run(S, step, a, t, b)
<1> DEFINE m == Len(t)
           T == {n \in 0 .. m : \E b \in S : Run(S, step, a, SubSeq(t, 1, n), b)}
<1>1. m \in Nat
  OBVIOUS
<1>2. 0 \in T
  <2>1. Run(S, step, a, <<>>, a)
    BY RunEmpty
  <2>2. SubSeq(t, 1, 0) = <<>>
    BY PrefixSteps
  <2>3. Run(S, step, a, SubSeq(t, 1, 0), a)
    BY <2>1, <2>2
  <2>4. \E b \in S : Run(S, step, a, SubSeq(t, 1, 0), b)
    BY <2>3
  <2>5. 0 \in 0 .. m
    BY <1>1
  <2> QED
    BY <2>4, <2>5
<1>3. ASSUME NEW n \in 1 .. m, n - 1 \in T PROVE n \in T
  <2>1. PICK b \in S : Run(S, step, a, SubSeq(t, 1, n - 1), b)
    BY <1>3
  <2>2. /\ SubSeq(t, 1, n - 1) \in Seq(X) /\ t[n] \in X
        /\ SubSeq(t, 1, n) = Append(SubSeq(t, 1, n - 1), t[n])
    BY PrefixSteps
  <2>3. step[<<b, t[n]>>] \in S
    BY <2>2
  <2>4. Run(S, step, a, Append(SubSeq(t, 1, n - 1), t[n]), step[<<b, t[n]>>])
    BY <2>1, <2>2, <2>3, RunAppend
  <2>5. Run(S, step, a, SubSeq(t, 1, n), step[<<b, t[n]>>])
    BY <2>2, <2>4
  <2> QED
    BY <1>1, <2>3, <2>5
<1> HIDE DEF T
<1>4. \A n \in 0 .. m : n \in T
  BY <1>1, <1>2, <1>3, UpTo
<1>5. m \in T
  BY <1>1, <1>4
<1> QED
  BY <1>5, PrefixSteps DEF T

\* FlattenSeq appends the elements one after the other.
LEMMA FlattenBuilds ==
    ASSUME NEW X, NEW seqs \in Seq(Seq(X))
    PROVE  \E f \in [0 .. Len(seqs) -> Seq(X)] :
              /\ f[0] = <<>> /\ f[Len(seqs)] = FlattenSeq(seqs)
              /\ \A n \in 1 .. Len(seqs) : f[n] = f[n - 1] \o seqs[n]
<1> DEFINE T == Seq(X)
           step == [p \in T \X T |-> p[1] \o p[2]]
           m == Len(seqs)
<1>1. step \in [T \X T -> T] /\ <<>> \in T /\ m \in Nat /\ \A n \in 1 .. m : seqs[n] \in T
  OBVIOUS
<1>2. \A x, y \in T : step[<<x, y>>] = x \o y
  OBVIOUS
<1>3. \A x \in T : <<>> \o x = x
  OBVIOUS
<1>4. m = 0 => seqs = <<>>
  OBVIOUS
<1>5. FlattenSeq(seqs) =
         IF m = 0 THEN seqs
         ELSE (CHOOSE g : g = [i \in 1 .. m |-> IF i = 1 THEN seqs[i] ELSE g[i - 1] \o seqs[i]])[m]
  BY Zenon DEF FlattenSeq
<1>6. PICK b \in T : Run(T, step, <<>>, seqs, b)
  <2> HIDE DEF step, T
  <2>1. seqs \in Seq(T)
    BY DEF T
  <2> QED
    BY <1>1, <2>1, RunExists
<1> HIDE DEF step, T, m
<1>7. PICK f \in [0 .. m -> T] :
         /\ f[0] = <<>> /\ f[m] = b
         /\ \A n \in 1 .. m : f[n] = step[<<f[n - 1], seqs[n]>>]
  BY <1>6 DEF Run, m
<1>8. ASSUME NEW n \in 1 .. m PROVE f[n] = f[n - 1] \o seqs[n]
  <2>1. f[n - 1] \in T /\ seqs[n] \in T /\ f[n] = step[<<f[n - 1], seqs[n]>>]
    BY <1>1, <1>7
  <2> QED
    BY <1>2, <2>1
<1>9. f[m] = FlattenSeq(seqs)
  <2>1. CASE m = 0
    BY <1>4, <1>5, <1>7, <2>1
  <2>2. CASE m # 0
    <3> DEFINE G(g) == [i \in 1 .. m |-> IF i = 1 THEN seqs[i] ELSE g[i - 1] \o seqs[i]]
               e == [i \in 1 .. m |-> f[i]]
               g == CHOOSE g : g = G(g)
    <3>1. f[1] = seqs[1]
      <4>1. 1 \in 1 .. m /\ 1 - 1 = 0
        BY <1>1, <2>2
      <4>2. f[1] = f[1 - 1] \o seqs[1] /\ seqs[1] \in T
        BY <1>1, <1>8, <4>1
      <4>3. f[1] = <<>> \o seqs[1]
        BY <1>7, <4>1, <4>2
      <4> QED
        BY <1>3, <4>2, <4>3
    <3>2. ASSUME NEW i \in 1 .. m PROVE e[i] = G(e)[i]
      <4>1. CASE i = 1
        BY <3>1, <4>1
      <4>2. CASE i # 1
        <5>1. i - 1 \in 1 .. m
          BY <1>1, <4>2
        <5> QED
          BY <1>8, <4>2, <5>1
      <4> QED
        BY <4>1, <4>2
    <3>3. e = G(e)
      <4> HIDE DEF e
      <4>1. e = [i \in 1 .. m |-> e[i]]
        BY DEF e
      <4> QED
        BY <3>2, <4>1
    <3> HIDE DEF G, e
    <3>4. g = G(g)
      BY <3>3
    <3> HIDE DEF g
    <3>5. \A i \in 1 .. m : g[i] = IF i = 1 THEN seqs[i] ELSE g[i - 1] \o seqs[i]
      BY <3>4 DEF G
    <3> DEFINE U == {n \in 0 .. m : n = 0 \/ g[n] = f[n]}
    <3>6. ASSUME NEW n \in 1 .. m, n - 1 \in U PROVE n \in U
      <4>1. CASE n = 1
        BY <1>1, <3>1, <3>5, <4>1
      <4>2. CASE n # 1
        <5>1. n - 1 \in 1 .. m /\ g[n - 1] = f[n - 1]
          BY <1>1, <3>6, <4>2
        <5>2. g[n] = g[n - 1] \o seqs[n] /\ f[n] = f[n - 1] \o seqs[n]
          BY <1>8, <3>5, <4>2
        <5>3. g[n] = f[n]
          BY <5>1, <5>2
        <5>4. n \in 0 .. m
          BY <1>1
        <5> QED
          BY <5>3, <5>4
      <4> QED
        BY <4>1, <4>2
    <3>7. 0 \in U
      BY <1>1
    <3> HIDE DEF U
    <3>8. \A n \in 0 .. m : n \in U
      BY <1>1, <3>6, <3>7, UpTo
    <3>9. g[m] = f[m]
      <4>1. m \in U
        BY <1>1, <3>8
      <4> QED
        BY <2>2, <4>1 DEF U
    <3> QED
      BY <1>5, <2>2, <3>9 DEF g, G
  <2> QED
    BY <2>1, <2>2
<1> QED
  BY <1>7, <1>8, <1>9 DEF m, T

LEMMA SameText ==
    ASSUME NEW X, NEW r \in Seq(X), NEW t \in Seq(X), Len(r) = Len(t),
           \A i \in 1 .. Len(r) : r[i] = t[i]
    PROVE  r = t
OBVIOUS

LEMMA RunThree ==
    ASSUME NEW S, NEW step, NEW X, NEW x \in X, NEW y \in X, NEW z \in X,
           NEW a \in S, NEW b \in S, NEW c \in S, NEW d \in S,
           b = step[<<a, x>>], c = step[<<b, y>>], d = step[<<c, z>>]
    PROVE  Run(S, step, a, <<x, y, z>>, d)
<1>1. Run(S, step, a, <<x>>, b)
  BY RunOne
<1>2. <<x>> \in Seq(X) /\ <<x, y>> \in Seq(X)
  OBVIOUS
<1>3. Append(<<x>>, y) = <<x, y>> /\ Append(<<x, y>>, z) = <<x, y, z>>
  <2>1. Append(<<x>>, y) = <<x, y>>
    <3>1. /\ Append(<<x>>, y) \in Seq(X) /\ <<x, y>> \in Seq(X)
          /\ Len(Append(<<x>>, y)) = 2 /\ Len(<<x, y>>) = 2
      OBVIOUS
    <3>2. ASSUME NEW i \in 1 .. 2 PROVE Append(<<x>>, y)[i] = <<x, y>>[i]
      <4>1. i = 1 \/ i = 2
        OBVIOUS
      <4> QED
        BY <4>1
    <3> QED
      BY <3>1, <3>2, SameText
  <2>2. Append(<<x, y>>, z) = <<x, y, z>>
    <3>1. /\ Append(<<x, y>>, z) \in Seq(X) /\ <<x, y, z>> \in Seq(X)
          /\ Len(Append(<<x, y>>, z)) = 3 /\ Len(<<x, y, z>>) = 3
      OBVIOUS
    <3>2. ASSUME NEW i \in 1 .. 3 PROVE Append(<<x, y>>, z)[i] = <<x, y, z>>[i]
      <4>1. i = 1 \/ i = 2 \/ i = 3
        OBVIOUS
      <4> QED
        BY <4>1
    <3> QED
      BY <3>1, <3>2, SameText
  <2> QED
    BY <2>1, <2>2
<1>4. Run(S, step, a, Append(<<x>>, y), c)
  BY <1>1, <1>2, RunAppend
<1>5. Run(S, step, a, <<x, y>>, c)
  BY <1>3, <1>4
<1>6. Run(S, step, a, Append(<<x, y>>, z), d)
  BY <1>2, <1>5, RunAppend
<1> QED
  BY <1>3, <1>6

------------------------------------------------------------------------------
\* The values of cookies

\* The loop of parse_cookie_value.
ValueState == [s : 0 .. 2, d : Int, r : Seq(Int)]
ValueStep == [p \in ValueState \X Int |-> value_step(p[1], p[2])]
Between(e, read) == [s |-> 0, d |-> e, r |-> read]

\* What is written for a character is read as that character.
LEMMA EscapedRun ==
    ASSUME NEW c \in Int, NEW e \in Int, NEW r \in Seq(Int)
    PROVE  /\ Escaped(c) \in Seq(Int)
           /\ \E d \in Int : Run(ValueState, ValueStep, Between(e, r), Escaped(c),
                                 Between(d, Append(r, c)))
<1>1. ASSUME NEW st \in ValueState, NEW x \in Int
      PROVE  ValueStep[<<st, x>>] = value_step(st, x)
  BY DEF ValueStep
<1>2. ASSUME NEW d \in Int, NEW q \in Seq(Int) PROVE Between(d, q) \in ValueState
  BY DEF Between, ValueState
<1>3. Append(r, c) \in Seq(Int)
  OBVIOUS
<1>4. ASSUME c \notin {PERCENT, EQUAL, SEMICOLON}
      PROVE  /\ Escaped(c) \in Seq(Int)
             /\ Run(ValueState, ValueStep, Between(e, r), Escaped(c), Between(e, Append(r, c)))
  <2>1. Escaped(c) = <<c>>
    BY <1>4 DEF Escaped
  <2>2. value_step(Between(e, r), c) = Between(e, Append(r, c))
    <3> DEFINE st == Between(e, r)
    <3>1. st.s = 0 /\ st = [s |-> 0, d |-> e, r |-> r]
      BY DEF Between
    <3> HIDE DEF st
    <3>2. value_step(st, c) = [st EXCEPT !.r = Append(@, c)]
      BY <1>4, <3>1 DEF value_step
    <3>3. [st EXCEPT !.r = Append(@, c)] = [s |-> 0, d |-> e, r |-> Append(r, c)]
      BY <3>1
    <3> QED
      BY <3>2, <3>3 DEF st, Between
  <2>3. ValueStep[<<Between(e, r), c>>] = Between(e, Append(r, c))
    BY <1>1, <1>2, <2>2
  <2>4. Run(ValueState, ValueStep, Between(e, r), <<c>>, ValueStep[<<Between(e, r), c>>])
    BY <1>2, <1>3, <2>3, RunOne
  <2> QED
    BY <2>1, <2>3, <2>4
<1>5. ASSUME NEW x \in Int, NEW y \in Int, Escaped(c) = <<PERCENT, x, y>>,
             Char(hex(x) * 16 + hex(y)) = c, hex(x) \in Int
      PROVE  /\ Escaped(c) \in Seq(Int)
             /\ Run(ValueState, ValueStep, Between(e, r), Escaped(c),
                    Between(hex(x), Append(r, c)))
  <2> DEFINE first == [s |-> 1, d |-> e, r |-> r]
             second == [s |-> 2, d |-> hex(x), r |-> r]
             last == Between(hex(x), Append(r, c))
  <2>1. first \in ValueState /\ second \in ValueState /\ last \in ValueState
    <3>1. hex(x) \in Int
      BY <1>5
    <3>2. last \in ValueState
      BY <1>2, <1>3, <3>1
    <3> HIDE DEF last
    <3> QED
      BY <3>1, <3>2 DEF ValueState
  <2>2. value_step(Between(e, r), PERCENT) = first
    <3> DEFINE st == Between(e, r)
    <3>1. st.s = 0 /\ st = [s |-> 0, d |-> e, r |-> r]
      BY DEF Between
    <3> HIDE DEF st
    <3>2. value_step(st, PERCENT) = [st EXCEPT !.s = 1]
      BY <3>1 DEF value_step
    <3> QED
      BY <3>1, <3>2 DEF st
  <2>3. value_step(first, x) = second
    <3>1. first.s = 1
      OBVIOUS
    <3>2. value_step(first, x) = [first EXCEPT !.s = 2, !.d = hex(x)]
      <4> HIDE DEF first
      <4> QED
        BY <3>1 DEF value_step
    <3> QED
      BY <3>2
  <2>4. value_step(second, y) = last
    <3>1. second.s = 2 /\ second.d = hex(x)
      OBVIOUS
    <3>2. value_step(second, y) =
             [second EXCEPT !.s = 0, !.r = Append(@, Char(second.d * 16 + hex(y)))]
      <4> HIDE DEF second
      <4> QED
        BY <3>1 DEF value_step
    <3>3. Char(second.d * 16 + hex(y)) = c
      BY <1>5, <3>1
    <3>4. value_step(second, y) = [second EXCEPT !.s = 0, !.r = Append(@, c)]
      BY <3>2, <3>3
    <3> QED
      BY <3>4 DEF Between
  <2>5. PERCENT \in Int /\ Between(e, r) \in ValueState
    BY <1>2 DEF PERCENT
  <2> HIDE DEF first, second, last
  <2>6. /\ ValueStep[<<Between(e, r), PERCENT>>] = first
        /\ ValueStep[<<first, x>>] = second /\ ValueStep[<<second, y>>] = last
    BY <1>1, <2>1, <2>2, <2>3, <2>4, <2>5
  <2>7. Run(ValueState, ValueStep, Between(e, r), <<PERCENT, x, y>>, last)
    BY <2>1, <2>5, <2>6, RunThree
  <2>8. <<PERCENT, x, y>> \in Seq(Int)
    BY <2>5
  <2> QED
    BY <1>5, <2>7, <2>8 DEF last
<1>6. CASE c = PERCENT
  <2>1. Escaped(c) = <<PERCENT, 50, 53>>
    BY <1>6 DEF Escaped, PERCENT, EQUAL, SEMICOLON
  <2>2. hex(50) = 2 /\ hex(53) = 5
    BY DEF hex, Digit, Upper, Lower
  <2>3. Char(hex(50) * 16 + hex(53)) = c
    BY <1>6, <2>2 DEF Char, PERCENT
  <2>4. hex(50) \in Int /\ 50 \in Int /\ 53 \in Int
    BY <2>2
  <2> QED
    BY <1>5, <2>1, <2>3, <2>4
<1>7. CASE c = EQUAL
  <2>1. Escaped(c) = <<PERCENT, 51, 100>>
    BY <1>7 DEF Escaped, PERCENT, EQUAL, SEMICOLON
  <2>2. hex(51) = 3 /\ hex(100) = 13
    BY DEF hex, Digit, Upper, Lower
  <2>3. Char(hex(51) * 16 + hex(100)) = c
    BY <1>7, <2>2 DEF Char, EQUAL
  <2>4. hex(51) \in Int /\ 51 \in Int /\ 100 \in Int
    BY <2>2
  <2> QED
    BY <1>5, <2>1, <2>3, <2>4
<1>8. CASE c = SEMICOLON
  <2>1. Escaped(c) = <<PERCENT, 51, 98>>
    BY <1>8 DEF Escaped, PERCENT, EQUAL, SEMICOLON
  <2>2. hex(51) = 3 /\ hex(98) = 11
    BY DEF hex, Digit, Upper, Lower
  <2>3. Char(hex(51) * 16 + hex(98)) = c
    BY <1>8, <2>2 DEF Char, SEMICOLON
  <2>4. hex(51) \in Int /\ 51 \in Int /\ 98 \in Int
    BY <2>2
  <2> QED
    BY <1>5, <2>1, <2>3, <2>4
<1> QED
  BY <1>4, <1>6, <1>7, <1>8

\* parse_cookie_value reads what its loop leads to.
LEMMA ValueParsed ==
    ASSUME NEW t \in Seq(Int), NEW b, Run(ValueState, ValueStep, Between(0, <<>>), t, b)
    PROVE  parse_cookie_value(t) = b.r
<1> DEFINE m == Len(t)
           G(g) == [n \in 0 .. m |-> IF n = 0 THEN Between(0, <<>>) ELSE value_step(g[n - 1], t[n])]
           at == CHOOSE g : g = G(g)
<1>1. m \in Nat
  OBVIOUS
<1>2. parse_cookie_value(t) = at[m].r
  BY Zenon DEF parse_cookie_value, Between
<1>3. ASSUME NEW st \in ValueState, NEW n \in 1 .. m
      PROVE  ValueStep[<<st, t[n]>>] = value_step(st, t[n])
  BY DEF ValueStep
<1>4. PICK f \in [0 .. m -> ValueState] :
         /\ f[0] = Between(0, <<>>) /\ f[m] = b
         /\ \A n \in 1 .. m : f[n] = ValueStep[<<f[n - 1], t[n]>>]
  BY DEF Run
<1> HIDE DEF m
<1>5. ASSUME NEW n \in 0 .. m PROVE f[n] = G(f)[n]
  <2>1. CASE n = 0
    BY <1>4, <2>1
  <2>2. CASE n # 0
    <3>1. n \in 1 .. m /\ n - 1 \in 0 .. m
      BY <1>1, <2>2
    <3>2. f[n] = value_step(f[n - 1], t[n])
      BY <1>3, <1>4, <3>1
    <3> QED
      BY <2>2, <3>2
  <2> QED
    BY <2>1, <2>2
<1>6. f = G(f)
  <2>1. f = [n \in 0 .. m |-> f[n]]
    BY <1>4
  <2> QED
    BY <1>5, <2>1
<1> HIDE DEF G
<1>7. at = G(at)
  BY <1>6
<1> HIDE DEF at
<1>8. at[0] = Between(0, <<>>)
  BY <1>1, <1>7 DEF G
<1>9. ASSUME NEW n \in 1 .. m, at[n - 1] \in ValueState
      PROVE  at[n] = ValueStep[<<at[n - 1], t[n]>>]
  <2>1. at[n] = value_step(at[n - 1], t[n])
    BY <1>1, <1>7 DEF G
  <2> QED
    BY <1>3, <1>9, <2>1
<1>10. at[Len(t)] = b
  BY <1>8, <1>9, RunUnique DEF m
<1> QED
  BY <1>2, <1>10 DEF m

\* A value is read as it was written, and what is written ends no cookie.
LEMMA ValueRoundTrip ==
    ASSUME NEW v \in Seq(Int)
    PROVE  /\ encode_value(v) \in Seq(Int)
           /\ parse_cookie_value(encode_value(v)) = v
           /\ (\A i \in 1 .. Len(v) : v[i] # 0)
                 => \A i \in 1 .. Len(encode_value(v)) : encode_value(v)[i] \notin {0, SEMICOLON}
<1> DEFINE m == Len(v)
           pieces == [i \in DOMAIN v |-> Escaped(v[i])]
           Leads(n, t) == \E e \in Int : Run(ValueState, ValueStep, Between(0, <<>>), t,
                                             Between(e, SubSeq(v, 1, n)))
           Plain(t) == \A i \in 1 .. Len(t) : t[i] \notin {0, SEMICOLON}
<1>1. m \in Nat /\ DOMAIN v = 1 .. m /\ \A n \in 1 .. m : v[n] \in Int
  OBVIOUS
<1>2. ASSUME NEW n \in 1 .. m PROVE Escaped(v[n]) \in Seq(Int)
  BY <1>1, EscapedRun
<1>3. pieces \in Seq(Seq(Int)) /\ Len(pieces) = m
  BY <1>1, <1>2
<1>4. encode_value(v) = FlattenSeq(pieces)
  BY Zenon DEF encode_value
<1>5. \A n \in 1 .. m : pieces[n] = Escaped(v[n])
  BY <1>1
<1> HIDE DEF pieces
<1>6. PICK f \in [0 .. m -> Seq(Int)] :
         /\ f[0] = <<>> /\ f[m] = encode_value(v)
         /\ \A n \in 1 .. m : f[n] = f[n - 1] \o pieces[n]
  <2>1. \E f \in [0 .. Len(pieces) -> Seq(Int)] :
           /\ f[0] = <<>> /\ f[Len(pieces)] = FlattenSeq(pieces)
           /\ \A n \in 1 .. Len(pieces) : f[n] = f[n - 1] \o pieces[n]
    BY <1>3, FlattenBuilds
  <2> HIDE DEF m
  <2> QED
    BY <1>3, <1>4, <2>1
<1> HIDE DEF m
<1> DEFINE T == {n \in 0 .. m : Leads(n, f[n])}
<1>7. Leads(0, f[0])
  <2>1. Between(0, <<>>) \in ValueState
    BY DEF Between, ValueState
  <2>2. Run(ValueState, ValueStep, Between(0, <<>>), <<>>, Between(0, <<>>))
    BY <2>1, RunEmpty
  <2>3. SubSeq(v, 1, 0) = <<>>
    BY PrefixSteps
  <2>4. Run(ValueState, ValueStep, Between(0, <<>>), f[0], Between(0, SubSeq(v, 1, 0)))
    BY <1>6, <2>2, <2>3
  <2> QED
    BY <2>4
<1>8. ASSUME NEW n \in 1 .. m, Leads(n - 1, f[n - 1]) PROVE Leads(n, f[n])
  <2>1. PICK e \in Int : Run(ValueState, ValueStep, Between(0, <<>>), f[n - 1],
                             Between(e, SubSeq(v, 1, n - 1)))
    BY <1>8
  <2>2. /\ SubSeq(v, 1, n - 1) \in Seq(Int) /\ v[n] \in Int
        /\ SubSeq(v, 1, n) = Append(SubSeq(v, 1, n - 1), v[n])
    BY PrefixSteps DEF m
  <2>3. PICK d \in Int : Run(ValueState, ValueStep, Between(e, SubSeq(v, 1, n - 1)),
                             Escaped(v[n]), Between(d, SubSeq(v, 1, n)))
    BY <2>2, EscapedRun
  <2>4. f[n - 1] \in Seq(Int) /\ Escaped(v[n]) \in Seq(Int)
    BY <1>1, <1>2, <1>6
  <2>5. Run(ValueState, ValueStep, Between(0, <<>>), f[n - 1] \o Escaped(v[n]),
            Between(d, SubSeq(v, 1, n)))
    BY <2>1, <2>3, <2>4, RunConcat
  <2>6. f[n] = f[n - 1] \o Escaped(v[n])
    BY <1>5, <1>6
  <2> QED
    BY <2>5, <2>6
<1> HIDE DEF Leads
<1>9. Leads(m, f[m])
  <2>1. 0 \in T
    BY <1>1, <1>7
  <2>2. ASSUME NEW n \in 1 .. m, n - 1 \in T PROVE n \in T
    <3>1. Leads(n, f[n])
      BY <1>8, <2>2
    <3> QED
      BY <1>1, <3>1
  <2> HIDE DEF T
  <2>3. m \in T
    <3>1. \A n \in 0 .. m : n \in T
      BY <1>1, <2>1, <2>2, UpTo
    <3> QED
      BY <1>1, <3>1
  <2> QED
    BY <2>3 DEF T
<1>10. encode_value(v) \in Seq(Int)
  BY <1>1, <1>6
<1>11. parse_cookie_value(encode_value(v)) = v
  <2>1. PICK e \in Int : Run(ValueState, ValueStep, Between(0, <<>>), encode_value(v),
                             Between(e, SubSeq(v, 1, m)))
    BY <1>6, <1>9 DEF Leads
  <2>2. SubSeq(v, 1, m) = v
    BY PrefixSteps DEF m
  <2>3. parse_cookie_value(encode_value(v)) = Between(e, v).r
    BY <1>10, <2>1, <2>2, ValueParsed
  <2> QED
    BY <2>3 DEF Between
<1>12. ASSUME \A i \in 1 .. Len(v) : v[i] # 0 PROVE Plain(encode_value(v))
  <2> DEFINE U == {n \in 0 .. m : Plain(f[n])}
  <2>1. 0 \in U
    BY <1>1, <1>6
  <2>2. ASSUME NEW n \in 1 .. m, n - 1 \in U PROVE n \in U
    <3>1. Plain(Escaped(v[n]))
      <4>1. v[n] # 0
        BY <1>12 DEF m
      <4> QED
        BY <4>1 DEF Escaped, PERCENT, EQUAL, SEMICOLON
    <3>2. f[n] = f[n - 1] \o Escaped(v[n]) /\ f[n - 1] \in Seq(Int) /\ Escaped(v[n]) \in Seq(Int)
      <4>1. Escaped(v[n]) \in Seq(Int) /\ pieces[n] = Escaped(v[n])
        BY <1>2, <1>5
      <4>2. n - 1 \in 0 .. m
        BY <1>1
      <4> QED
        BY <1>6, <4>1, <4>2
    <3>3. Plain(f[n - 1] \o Escaped(v[n]))
      BY <2>2, <3>1, <3>2
    <3> QED
      <4>1. Plain(f[n])
        BY <3>2, <3>3
      <4>2. n \in 0 .. m
        BY <1>1
      <4> HIDE DEF Plain
      <4> QED
        BY <4>1, <4>2
  <2> HIDE DEF U
  <2>3. \A n \in 0 .. m : n \in U
    BY <1>1, <2>1, <2>2, UpTo
  <2>4. m \in U
    BY <1>1, <2>3
  <2> QED
    BY <1>6, <2>4 DEF U
<1> QED
  BY <1>10, <1>11, <1>12

------------------------------------------------------------------------------
\* Jars

\* The loop of parse_cookies.
Jars == UNION {[D -> Seq(Int)] : D \in SUBSET Seq(Int)}
JarState == [state : 1 .. 3, name : Seq(Int), value : Seq(Int), jar : Jars]
JarStep == [p \in JarState \X Int |-> cookies_step(p[1], p[2])]
JarAt(at, n, v, j) == [state |-> at, name |-> n, value |-> v, jar |-> j]

LEMMA JarAtState ==
    ASSUME NEW n \in Seq(Int), NEW v \in Seq(Int), NEW j \in Jars
    PROVE  JarAt(1, n, v, j) \in JarState /\ JarAt(2, n, v, j) \in JarState
           /\ JarAt(3, n, v, j) \in JarState
BY DEF JarAt, JarState

LEMMA JarStepIs ==
    ASSUME NEW st \in JarState, NEW c \in Int PROVE JarStep[<<st, c>>] = cookies_step(st, c)
BY DEF JarStep

LEMMA PutJar ==
    ASSUME NEW j \in Jars, NEW n \in Seq(Int), NEW w \in Seq(Int)
    PROVE  Put(j, n, w) \in Jars
<1>1. PICK D \in SUBSET Seq(Int) : j \in [D -> Seq(Int)]
  BY DEF Jars
<1>2. Put(j, n, w) \in [D \cup {n} -> Seq(Int)]
  BY <1>1 DEF Put
<1>3. D \cup {n} \in SUBSET Seq(Int)
  OBVIOUS
<1> QED
  BY <1>2, <1>3 DEF Jars

LEMMA JarBlank ==
    ASSUME NEW n, NEW v, NEW j
    PROVE  cookies_step(JarAt(3, n, v, j), SPACE) = JarAt(3, n, v, j)
<1> DEFINE st == JarAt(3, n, v, j)
<1>1. st.state = 3
  BY DEF JarAt
<1> HIDE DEF st
<1>2. cookies_step(st, SPACE) = st
  BY <1>1 DEF cookies_step
<1> QED
  BY <1>2 DEF st

\* What each character does in each state.
LEMMA JarSteps ==
    ASSUME NEW n \in Seq(Int), NEW v \in Seq(Int), NEW j \in Jars, NEW c \in Int
    PROVE  /\ c \notin {0, SEMICOLON, EQUAL}
                => cookies_step(JarAt(1, n, v, j), c) = JarAt(1, Append(n, c), v, j)
           /\ c = EQUAL => cookies_step(JarAt(1, n, v, j), c) = JarAt(2, n, <<>>, j)
           /\ c \notin {0, SEMICOLON}
                => cookies_step(JarAt(2, n, v, j), c) = JarAt(2, n, Append(v, c), j)
           /\ c \in {0, SEMICOLON}
                => cookies_step(JarAt(2, n, v, j), c)
                      = JarAt(3, <<>>, v, Put(j, n, CText(parse_cookie_value(v))))
           /\ c \notin {0, SPACE} => cookies_step(JarAt(3, n, v, j), c) = JarAt(1, <<c>>, v, j)
<1>1. ASSUME NEW at \in 1 .. 3
      PROVE  /\ JarAt(at, n, v, j).state = at /\ JarAt(at, n, v, j).name = n
             /\ JarAt(at, n, v, j).value = v /\ JarAt(at, n, v, j).jar = j
             /\ JarAt(at, n, v, j) = [state |-> at, name |-> n, value |-> v, jar |-> j]
  BY DEF JarAt
<1>2. ASSUME c \notin {0, SEMICOLON, EQUAL}
      PROVE  cookies_step(JarAt(1, n, v, j), c) = JarAt(1, Append(n, c), v, j)
  <2> DEFINE st == JarAt(1, n, v, j)
  <2>1. st.state = 1 /\ st = [state |-> 1, name |-> n, value |-> v, jar |-> j]
    BY <1>1
  <2> HIDE DEF st
  <2>2. cookies_step(st, c) = [st EXCEPT !.name = Append(@, c)]
    BY <1>2, <2>1 DEF cookies_step
  <2>3. [st EXCEPT !.name = Append(@, c)] = JarAt(1, Append(n, c), v, j)
    <3> DEFINE x == Append(n, c)
    <3>1. [st EXCEPT !.name = Append(@, c)] = [st EXCEPT !.name = x]
      BY <2>1
    <3> HIDE DEF x
    <3>2. [st EXCEPT !.name = x] = JarAt(1, x, v, j)
      BY <2>1 DEF JarAt
    <3> QED
      BY <3>1, <3>2 DEF x
  <2> QED
    BY <2>2, <2>3 DEF st
<1>3. ASSUME c = EQUAL PROVE cookies_step(JarAt(1, n, v, j), c) = JarAt(2, n, <<>>, j)
  <2> DEFINE st == JarAt(1, n, v, j)
  <2>1. st.state = 1 /\ st = [state |-> 1, name |-> n, value |-> v, jar |-> j]
    BY <1>1
  <2>4. c \notin {0, SEMICOLON}
    BY <1>3 DEF EQUAL, SEMICOLON
  <2> HIDE DEF st
  <2>2. cookies_step(st, c) = [st EXCEPT !.state = 2, !.value = <<>>]
    BY <1>3, <2>1, <2>4 DEF cookies_step
  <2>3. [st EXCEPT !.state = 2, !.value = <<>>] = JarAt(2, n, <<>>, j)
    <3> DEFINE x == <<>>
               r == [st EXCEPT !.state = 2, !.value = x]
    <3>1. st.state = 1 /\ st.name = n /\ st.value = v /\ st.jar = j
      BY <2>1
    <3> HIDE DEF x
    <3>2. r.state = 2 /\ r.name = n /\ r.value = x /\ r.jar = j
      BY <2>1, <3>1
    <3>3. DOMAIN r = {"state", "name", "value", "jar"} /\ r = [f \in DOMAIN r |-> r[f]]
      BY <2>1
    <3> HIDE DEF r
    <3>4. r = [state |-> 2, name |-> n, value |-> x, jar |-> j]
      BY <3>2, <3>3
    <3> QED
      BY <3>4 DEF r, x, JarAt
  <2> QED
    BY <2>2, <2>3 DEF st
<1>4. ASSUME c \notin {0, SEMICOLON}
      PROVE  cookies_step(JarAt(2, n, v, j), c) = JarAt(2, n, Append(v, c), j)
  <2> DEFINE st == JarAt(2, n, v, j)
  <2>1. st.state = 2 /\ st = [state |-> 2, name |-> n, value |-> v, jar |-> j]
    BY <1>1
  <2> HIDE DEF st
  <2>2. cookies_step(st, c) = [st EXCEPT !.value = Append(@, c)]
    BY <1>4, <2>1 DEF cookies_step
  <2>3. [st EXCEPT !.value = Append(@, c)] = JarAt(2, n, Append(v, c), j)
    <3> DEFINE x == Append(v, c)
    <3>1. [st EXCEPT !.value = Append(@, c)] = [st EXCEPT !.value = x]
      BY <2>1
    <3> HIDE DEF x
    <3>2. [st EXCEPT !.value = x] = JarAt(2, n, x, j)
      BY <2>1 DEF JarAt
    <3> QED
      BY <3>1, <3>2 DEF x
  <2> QED
    BY <2>2, <2>3 DEF st
<1>5. ASSUME c \in {0, SEMICOLON}
      PROVE  cookies_step(JarAt(2, n, v, j), c)
                = JarAt(3, <<>>, v, Put(j, n, CText(parse_cookie_value(v))))
  <2> DEFINE st == JarAt(2, n, v, j)
             w == CText(parse_cookie_value(v))
  <2>1. st.state = 2 /\ st.value = v /\ st.name = n /\ st.jar = j
        /\ st = [state |-> 2, name |-> n, value |-> v, jar |-> j]
    BY <1>1
  <2> HIDE DEF st
  <2>2. cookies_step(st, c) = [Stored(st, CText(parse_cookie_value(st.value))) EXCEPT !.state = 3]
    BY <1>5, <2>1 DEF cookies_step
  <2>3. cookies_step(st, c) = [Stored(st, w) EXCEPT !.state = 3]
    BY <2>1, <2>2
  <2> HIDE DEF w
  <2>4. Stored(st, w) = [state |-> 2, name |-> <<>>, value |-> v, jar |-> Put(j, n, w)]
    <3>1. Stored(st, w) = [st EXCEPT !.jar = Put(st.jar, st.name, w), !.name = <<>>]
      BY Zenon DEF Stored
    <3>2. Stored(st, w) = [st EXCEPT !.jar = Put(j, n, w), !.name = <<>>]
      BY <2>1, <3>1
    <3> QED
      BY <2>1, <3>2
  <2>5. [Stored(st, w) EXCEPT !.state = 3] = JarAt(3, <<>>, v, Put(j, n, w))
    BY <2>4 DEF JarAt
  <2> QED
    BY <2>3, <2>5 DEF st, w
<1>6. ASSUME c \notin {0, SPACE} PROVE cookies_step(JarAt(3, n, v, j), c) = JarAt(1, <<c>>, v, j)
  <2> DEFINE st == JarAt(3, n, v, j)
  <2>1. st.state = 3 /\ st = [state |-> 3, name |-> n, value |-> v, jar |-> j]
    BY <1>1
  <2> HIDE DEF st
  <2>2. cookies_step(st, c) = [st EXCEPT !.state = 1, !.name = <<c>>]
    BY <1>6, <2>1 DEF cookies_step
  <2>3. [st EXCEPT !.state = 1, !.name = <<c>>] = JarAt(1, <<c>>, v, j)
    <3> DEFINE x == <<c>>
               r == [st EXCEPT !.state = 1, !.name = x]
    <3>1. st.state = 3 /\ st.name = n /\ st.value = v /\ st.jar = j
      BY <2>1
    <3> HIDE DEF x
    <3>2. r.state = 1 /\ r.name = x /\ r.value = v /\ r.jar = j
      BY <2>1, <3>1
    <3>3. DOMAIN r = {"state", "name", "value", "jar"} /\ r = [f \in DOMAIN r |-> r[f]]
      BY <2>1
    <3> HIDE DEF r
    <3>4. r = [state |-> 1, name |-> x, value |-> v, jar |-> j]
      BY <3>2, <3>3
    <3> QED
      BY <3>4 DEF r, x, JarAt
  <2> QED
    BY <2>2, <2>3 DEF st
<1> QED
  BY <1>2, <1>3, <1>4, <1>5, <1>6

\* What a name and a value are for the loop: a name ends at the equal sign, a text at a
\* semicolon or at its end.
Nameable(n) == /\ n \in Seq(Int) /\ n # <<>> /\ n[1] # SPACE
               /\ \A i \in 1 .. Len(n) : n[i] \notin {0, EQUAL, SEMICOLON}
Unended(t) == t \in Seq(Int) /\ \A i \in 1 .. Len(t) : t[i] \notin {0, SEMICOLON}

\* A name is read, at the start of the jar or after what separates two cookies.
LEMMA NameRun ==
    ASSUME NEW n, Nameable(n), NEW v \in Seq(Int), NEW j \in Jars,
           NEW start \in {JarAt(1, <<>>, v, j), JarAt(3, <<>>, v, j)}
    PROVE  Run(JarState, JarStep, start, n, JarAt(1, n, v, j))
<1> DEFINE m == Len(n)
           f == [i \in 0 .. m |-> IF i = 0 THEN start ELSE JarAt(1, SubSeq(n, 1, i), v, j)]
<1>1. /\ n \in Seq(Int) /\ m \in Nat /\ m # 0 /\ n[1] # SPACE /\ <<>> \in Seq(Int)
      /\ \A i \in 1 .. m : n[i] \in Int /\ n[i] \notin {0, EQUAL, SEMICOLON}
  BY DEF Nameable
<1>2. start \in JarState
  BY <1>1, JarAtState
<1>3. ASSUME NEW i \in 1 .. m
      PROVE  JarAt(1, SubSeq(n, 1, i), v, j) \in JarState
  <2>1. SubSeq(n, 1, i) \in Seq(Int)
    BY <1>1, PrefixSteps
  <2> QED
    BY <2>1, JarAtState
<1>4. SubSeq(n, 1, m) = n
  BY <1>1, PrefixSteps
<1> HIDE DEF m
<1>5. f \in [0 .. m -> JarState] /\ f[0] = start /\ f[m] = JarAt(1, n, v, j)
  <2>1. \A i \in 0 .. m : (IF i = 0 THEN start ELSE JarAt(1, SubSeq(n, 1, i), v, j)) \in JarState
    BY <1>1, <1>2, <1>3
  <2>2. f[0] = start /\ f[m] = JarAt(1, n, v, j)
    <3>1. 0 \in 0 .. m /\ m \in 0 .. m /\ m # 0
      BY <1>1
    <3>2. f[0] = start
      BY <3>1
    <3>3. f[m] = JarAt(1, SubSeq(n, 1, m), v, j)
      BY <3>1
    <3> QED
      BY <1>4, <3>2, <3>3
  <2> QED
    BY <2>1, <2>2
<1>6. ASSUME NEW i \in 1 .. m PROVE f[i] = JarStep[<<f[i - 1], n[i]>>]
  <2>1. f[i] = JarAt(1, SubSeq(n, 1, i), v, j)
    BY <1>1
  <2>2. CASE i = 1
    <3>1. f[i - 1] = start
      BY <1>1, <2>2
    <3>2. SubSeq(n, 1, 1) = <<n[1]>> /\ SubSeq(n, 1, 1) = Append(<<>>, n[1])
      <4>1. SubSeq(n, 1, 0) = <<>>
        BY <1>1, PrefixSteps
      <4>2. 1 \in 1 .. Len(n) /\ 1 - 1 = 0
        BY <1>1 DEF m
      <4>3. SubSeq(n, 1, 1) = Append(SubSeq(n, 1, 0), n[1])
        BY <1>1, <4>2, PrefixSteps
      <4>4. Append(<<>>, n[1]) = <<n[1]>>
        OBVIOUS
      <4> QED
        BY <4>1, <4>3, <4>4
    <3>3. JarStep[<<start, n[1]>>] = JarAt(1, <<n[1]>>, v, j)
      <4>1. n[1] \in Int /\ n[1] \notin {0, EQUAL, SEMICOLON, SPACE}
        BY <1>1, <2>2
      <4>2. CASE start = JarAt(1, <<>>, v, j)
        <5>1. cookies_step(start, n[1]) = JarAt(1, Append(<<>>, n[1]), v, j)
          <6>1. <<>> \in Seq(Int) /\ n[1] \in Int /\ n[1] \notin {0, SEMICOLON, EQUAL}
            BY <4>1
          <6> HIDE DEF f
          <6>2. cookies_step(JarAt(1, <<>>, v, j), n[1]) = JarAt(1, Append(<<>>, n[1]), v, j)
            BY <6>1, JarSteps
          <6> QED
            BY <4>2, <6>2
        <5>2. JarStep[<<start, n[1]>>] = cookies_step(start, n[1])
          BY <1>2, <4>1, JarStepIs
        <5> QED
          BY <3>2, <5>1, <5>2
      <4>3. CASE start = JarAt(3, <<>>, v, j)
        <5>1. cookies_step(start, n[1]) = JarAt(1, <<n[1]>>, v, j)
          BY <1>1, <4>1, <4>3, JarSteps
        <5>2. JarStep[<<start, n[1]>>] = cookies_step(start, n[1])
          BY <1>2, <4>1, JarStepIs
        <5> QED
          BY <5>1, <5>2
      <4> QED
        BY <4>2, <4>3
    <3> HIDE DEF f
    <3> QED
      BY <2>1, <2>2, <3>1, <3>2, <3>3
  <2>3. CASE i # 1
    <3> DEFINE p == SubSeq(n, 1, i - 1)
    <3>1. f[i - 1] = JarAt(1, p, v, j)
      BY <1>1, <2>3
    <3>2. p \in Seq(Int) /\ SubSeq(n, 1, i) = Append(p, n[i])
      BY <1>1, PrefixSteps DEF m
    <3> HIDE DEF p
    <3>3. cookies_step(JarAt(1, p, v, j), n[i]) = JarAt(1, Append(p, n[i]), v, j)
      BY <1>1, <3>2, JarSteps
    <3>4. JarStep[<<JarAt(1, p, v, j), n[i]>>] = cookies_step(JarAt(1, p, v, j), n[i])
      BY <1>1, <3>2, JarAtState, JarStepIs
    <3> HIDE DEF f
    <3> QED
      BY <2>1, <3>1, <3>2, <3>3, <3>4
  <2> QED
    BY <2>2, <2>3
<1> HIDE DEF f
<1> QED
  BY <1>5, <1>6 DEF Run, m

\* A text is read, to what ends it.
LEMMA TextRun ==
    ASSUME NEW t, Unended(t), NEW n \in Seq(Int), NEW j \in Jars
    PROVE  Run(JarState, JarStep, JarAt(2, n, <<>>, j), t, JarAt(2, n, t, j))
<1> DEFINE m == Len(t)
           f == [i \in 0 .. m |-> JarAt(2, n, SubSeq(t, 1, i), j)]
<1>1. /\ t \in Seq(Int) /\ m \in Nat /\ <<>> \in Seq(Int)
      /\ \A i \in 1 .. m : t[i] \in Int /\ t[i] \notin {0, SEMICOLON}
  BY DEF Unended
<1>2. SubSeq(t, 1, 0) = <<>> /\ SubSeq(t, 1, m) = t
  BY <1>1, PrefixSteps
<1>3. ASSUME NEW i \in 0 .. m PROVE SubSeq(t, 1, i) \in Seq(Int)
  <2>1. CASE i = 0
    BY <1>1, <1>2, <2>1
  <2>2. CASE i # 0
    BY <1>1, <2>2, PrefixSteps
  <2> QED
    BY <2>1, <2>2
<1> HIDE DEF m
<1>4. ASSUME NEW i \in 0 .. m PROVE JarAt(2, n, SubSeq(t, 1, i), j) \in JarState
  BY <1>3, JarAtState
<1>5. f \in [0 .. m -> JarState] /\ f[0] = JarAt(2, n, <<>>, j) /\ f[m] = JarAt(2, n, t, j)
  <2>1. 0 \in 0 .. m /\ m \in 0 .. m
    BY <1>1
  <2>2. f[0] = JarAt(2, n, <<>>, j) /\ f[m] = JarAt(2, n, t, j)
    BY <1>2, <2>1
  <2> QED
    BY <1>4, <2>2
<1>6. ASSUME NEW i \in 1 .. m PROVE f[i] = JarStep[<<f[i - 1], t[i]>>]
  <2> DEFINE p == SubSeq(t, 1, i - 1)
  <2>1. f[i - 1] = JarAt(2, n, p, j) /\ f[i] = JarAt(2, n, SubSeq(t, 1, i), j)
    BY <1>1
  <2>2. p \in Seq(Int) /\ SubSeq(t, 1, i) = Append(p, t[i])
    BY <1>1, PrefixSteps DEF m
  <2> HIDE DEF p, f
  <2>3. cookies_step(JarAt(2, n, p, j), t[i]) = JarAt(2, n, Append(p, t[i]), j)
    BY <1>1, <2>2, JarSteps
  <2>4. JarStep[<<JarAt(2, n, p, j), t[i]>>] = cookies_step(JarAt(2, n, p, j), t[i])
    BY <1>1, <2>2, JarAtState, JarStepIs
  <2> QED
    BY <2>1, <2>2, <2>3, <2>4
<1> HIDE DEF f
<1> QED
  BY <1>5, <1>6 DEF Run, m

\* A cookie is read.
LEMMA CookieRead ==
    ASSUME NEW n, Nameable(n), NEW t, Unended(t), NEW v \in Seq(Int), NEW j \in Jars,
           NEW start \in {JarAt(1, <<>>, v, j), JarAt(3, <<>>, v, j)}
    PROVE  /\ n \o <<EQUAL>> \o t \in Seq(Int)
           /\ Run(JarState, JarStep, start, n \o <<EQUAL>> \o t, JarAt(2, n, t, j))
<1>1. n \in Seq(Int) /\ t \in Seq(Int) /\ <<>> \in Seq(Int) /\ EQUAL \in Int
  BY DEF Nameable, Unended, EQUAL
<1>2. Run(JarState, JarStep, start, n, JarAt(1, n, v, j))
  BY NameRun
<1>3. JarStep[<<JarAt(1, n, v, j), EQUAL>>] = JarAt(2, n, <<>>, j)
  <2>1. cookies_step(JarAt(1, n, v, j), EQUAL) = JarAt(2, n, <<>>, j)
    BY <1>1, JarSteps
  <2> QED
    BY <1>1, <2>1, JarAtState, JarStepIs
<1>4. JarAt(1, n, v, j) \in JarState /\ JarAt(2, n, <<>>, j) \in JarState
  BY <1>1, JarAtState
<1>5. Run(JarState, JarStep, JarAt(1, n, v, j), <<EQUAL>>, JarAt(2, n, <<>>, j))
  BY <1>3, <1>4, RunOne
<1>6. <<EQUAL>> \in Seq(Int) /\ n \o <<EQUAL>> \in Seq(Int)
  BY <1>1
<1>7. Run(JarState, JarStep, start, n \o <<EQUAL>>, JarAt(2, n, <<>>, j))
  BY <1>1, <1>2, <1>5, <1>6, RunConcat
<1>8. Run(JarState, JarStep, JarAt(2, n, <<>>, j), t, JarAt(2, n, t, j))
  BY <1>1, TextRun
<1>9. Run(JarState, JarStep, start, n \o <<EQUAL>> \o t, JarAt(2, n, t, j))
  BY <1>1, <1>6, <1>7, <1>8, RunConcat
<1> QED
  BY <1>1, <1>6, <1>9

\* What separates two cookies puts the first of them in the jar.
LEMMA SeparatorRun ==
    ASSUME NEW n \in Seq(Int), NEW t \in Seq(Int), NEW j \in Jars, NEW w \in Seq(Int),
           CText(parse_cookie_value(t)) = w
    PROVE  /\ Run(JarState, JarStep, JarAt(2, n, t, j), <<SEMICOLON, SPACE>>,
                  JarAt(3, <<>>, t, Put(j, n, w)))
           /\ JarStep[<<JarAt(2, n, t, j), 0>>] = JarAt(3, <<>>, t, Put(j, n, w))
           /\ JarAt(3, <<>>, t, Put(j, n, w)) \in JarState
<1> DEFINE end == JarAt(3, <<>>, t, Put(j, n, w))
<1>1. /\ <<>> \in Seq(Int) /\ SEMICOLON \in Int /\ SPACE \in Int /\ 0 \in Int
      /\ Put(j, n, w) \in Jars
  BY PutJar DEF SEMICOLON, SPACE
<1>2. end \in JarState /\ JarAt(2, n, t, j) \in JarState
  BY <1>1, JarAtState
<1>3. ASSUME NEW c \in {0, SEMICOLON} PROVE JarStep[<<JarAt(2, n, t, j), c>>] = end
  <2>1. c \in Int
    BY <1>1
  <2>2. cookies_step(JarAt(2, n, t, j), c) = end
    BY <2>1, JarSteps
  <2> QED
    BY <1>2, <2>1, <2>2, JarStepIs
<1>4. JarStep[<<end, SPACE>>] = end
  <2>1. cookies_step(end, SPACE) = end
    BY JarBlank
  <2> QED
    BY <1>1, <2>1, JarAtState, JarStepIs
<1> HIDE DEF end
<1>5. Run(JarState, JarStep, JarAt(2, n, t, j), <<SEMICOLON>>, end)
  <2>1. JarStep[<<JarAt(2, n, t, j), SEMICOLON>>] = end
    BY <1>3
  <2> QED
    BY <1>2, <2>1, RunOne
<1>6. Run(JarState, JarStep, end, <<SPACE>>, end)
  BY <1>2, <1>4, RunOne
<1>7. <<SEMICOLON>> \in Seq(Int) /\ <<SPACE>> \in Seq(Int)
  BY <1>1
<1>8. Run(JarState, JarStep, JarAt(2, n, t, j), <<SEMICOLON>> \o <<SPACE>>, end)
  BY <1>5, <1>6, <1>7, RunConcat
<1>9. <<SEMICOLON>> \o <<SPACE>> = <<SEMICOLON, SPACE>>
  <2> DEFINE p == <<SEMICOLON>> \o <<SPACE>>
             q == <<SEMICOLON, SPACE>>
  <2>2. p \in Seq(Int) /\ q \in Seq(Int) /\ Len(p) = 2 /\ Len(q) = 2
    BY <1>1, <1>7
  <2>3. p[1] = q[1] /\ p[2] = q[2]
    OBVIOUS
  <2>4. \A i \in 1 .. 2 : i = 1 \/ i = 2
    OBVIOUS
  <2> HIDE DEF p, q
  <2>5. \A i \in 1 .. Len(p) : p[i] = q[i]
    BY <2>2, <2>3, <2>4
  <2>6. p = q
    BY <2>2, <2>5, SameText
  <2> QED
    BY <2>6 DEF p, q
<1> QED
  BY <1>2, <1>3, <1>8, <1>9 DEF end

\* The state in which the loop of parse_cookies ends.
JarEnd(t) ==
    LET at[n \in 0 .. Len(t)] ==
            IF n = 0 THEN JarAt(1, <<>>, <<>>, <<>>) ELSE cookies_step(at[n - 1], t[n])
    IN  at[Len(t)]

LEMMA JarLoop ==
    ASSUME NEW t \in Seq(Int), NEW b, Run(JarState, JarStep, JarAt(1, <<>>, <<>>, <<>>), t, b)
    PROVE  JarEnd(t) = b
<1> DEFINE m == Len(t)
           G(g) == [n \in 0 .. m |-> IF n = 0 THEN JarAt(1, <<>>, <<>>, <<>>)
                                              ELSE cookies_step(g[n - 1], t[n])]
           at == CHOOSE g : g = G(g)
<1>1. m \in Nat
  OBVIOUS
<1>2. JarEnd(t) = at[m]
  BY Zenon DEF JarEnd
<1>3. ASSUME NEW st \in JarState, NEW n \in 1 .. m
      PROVE  JarStep[<<st, t[n]>>] = cookies_step(st, t[n])
  BY DEF JarStep
<1>4. PICK f \in [0 .. m -> JarState] :
         /\ f[0] = JarAt(1, <<>>, <<>>, <<>>) /\ f[m] = b
         /\ \A n \in 1 .. m : f[n] = JarStep[<<f[n - 1], t[n]>>]
  BY DEF Run
<1> HIDE DEF m
<1>5. ASSUME NEW n \in 0 .. m PROVE f[n] = G(f)[n]
  <2>1. CASE n = 0
    BY <1>4, <2>1
  <2>2. CASE n # 0
    <3>1. n \in 1 .. m /\ n - 1 \in 0 .. m
      BY <1>1, <2>2
    <3>2. f[n] = cookies_step(f[n - 1], t[n])
      BY <1>3, <1>4, <3>1
    <3> QED
      BY <2>2, <3>2
  <2> QED
    BY <2>1, <2>2
<1>6. f = G(f)
  <2>1. f = [n \in 0 .. m |-> f[n]]
    BY <1>4
  <2> QED
    BY <1>5, <2>1
<1> HIDE DEF G
<1>7. at = G(at)
  BY <1>6
<1> HIDE DEF at
<1>8. at[0] = JarAt(1, <<>>, <<>>, <<>>)
  BY <1>1, <1>7 DEF G
<1> DEFINE T == {n \in 0 .. m : at[n] = f[n]}
<1>9. 0 \in T
  BY <1>1, <1>4, <1>8
<1>10. ASSUME NEW n \in 1 .. m, n - 1 \in T PROVE n \in T
  <2>1. at[n] = cookies_step(at[n - 1], t[n])
    BY <1>1, <1>7 DEF G
  <2>2. at[n - 1] = f[n - 1] /\ f[n - 1] \in JarState
    BY <1>1, <1>10
  <2>3. f[n] = cookies_step(f[n - 1], t[n])
    BY <1>3, <1>4, <2>2
  <2>4. at[n] = f[n] /\ n \in 0 .. m
    BY <1>1, <2>1, <2>2, <2>3
  <2> QED
    BY <2>4
<1> HIDE DEF T
<1>11. \A n \in 0 .. m : n \in T
  BY <1>1, <1>9, <1>10, UpTo
<1>12. at[m] = b
  <2>1. m \in T
    BY <1>1, <1>11
  <2> QED
    BY <1>4, <2>1 DEF T
<1> QED
  BY <1>2, <1>12

\* parse_cookies makes the jar that its loop leads to.
LEMMA JarParsed ==
    ASSUME NEW h \in Seq(Int), h # <<>>, NEW b,
           Run(JarState, JarStep, JarAt(1, <<>>, <<>>, <<>>), Append(h, 0), b)
    PROVE  parse_cookies(h) = b.jar
<1>1. Append(h, 0) \in Seq(Int)
  OBVIOUS
<1>2. JarEnd(Append(h, 0)) = b
  BY <1>1, JarLoop
<1>3. parse_cookies(h) = IF h = <<>> THEN <<>> ELSE JarEnd(Append(h, 0)).jar
  BY Zenon DEF parse_cookies, JarEnd, JarAt
<1> QED
  BY <1>2, <1>3

\* SetToSeq lists each member of a finite set once.
LEMMA Listed ==
    ASSUME NEW T, IsFiniteSet(T)
    PROVE  /\ SetToSeq(T) \in Seq(T)
           /\ \A x \in T : \E i \in 1 .. Len(SetToSeq(T)) : SetToSeq(T)[i] = x
           /\ SetToSeq(T) = <<>> <=> T = {}
<1> DEFINE m == Cardinality(T)
           order == SetToSeq(T)
<1>1. m \in Nat /\ ExistsBijection(1 .. m, T)
  BY FS_CardinalityType
<1>2. \E f \in [1 .. m -> T] : IsInjective(f)
  BY <1>1 DEF ExistsBijection, Bijection, Injection, IsInjective
<1>3. order \in [1 .. m -> T] /\ IsInjective(order)
  <2> HIDE DEF m
  <2>1. order = CHOOSE f \in [1 .. m -> T] : IsInjective(f)
    BY Zenon DEF SetToSeq, m
  <2> HIDE DEF order
  <2> QED
    BY <1>2, <2>1
<1> HIDE DEF order
<1>4. order \in Injection(1 .. m, T)
  BY <1>3 DEF Injection, IsInjective
<1>5. IsFiniteSet(1 .. m) /\ Cardinality(1 .. m) = m
  BY <1>1, FS_Interval
<1>6. order \in Surjection(1 .. m, T)
  BY <1>4, <1>5, FS_Injection
<1>7. order \in Seq(T) /\ Len(order) = m
  BY <1>1, <1>3
<1>8. \A x \in T : \E i \in 1 .. m : order[i] = x
  BY <1>6 DEF Surjection
<1> HIDE DEF m
<1>9. order = <<>> <=> T = {}
  BY <1>3, <1>7, <1>8
<1> QED
  BY <1>7, <1>8, <1>9 DEF order

LEMMA FunctionText ==
    ASSUME NEW X, NEW l \in Nat, NEW p \in [1 .. l -> X] PROVE p \in Seq(X) /\ Len(p) = l
OBVIOUS

\* A text without NUL is a C string.
LEMMA NoNul ==
    ASSUME NEW t \in Seq(Int), \A i \in 1 .. Len(t) : t[i] # 0 PROVE CText(t) = t
<1>1. ~Contains(t, 0)
  BY DEF Contains
<1> QED
  BY <1>1 DEF CText

\* What is sent for each of some cookies is read as its value.
Carries(some, sent, m) ==
    \A n \in some : /\ Nameable(n) /\ Unended(sent[n]) /\ m[n] \in Seq(Int)
                    /\ CText(parse_cookie_value(sent[n])) = m[n]

\* A jar that is sent is read as it was.
LEMMA JarRoundTrip ==
    ASSUME NEW some, IsFiniteSet(some), NEW m, NEW sent,
           DOMAIN m = some /\ m = [n \in some |-> m[n]] /\ DOMAIN sent = some,
           Carries(some, sent, m)
    PROVE  parse_cookies(HeaderOf(sent)) = m
<1> DEFINE order == SetToSeq(some)
           l == Len(order)
           cookie(n) == n \o <<EQUAL>> \o sent[n]
           piece(k) == IF k = 1 THEN cookie(order[k]) ELSE <<SEMICOLON, SPACE>> \o cookie(order[k])
           pieces == [k \in DOMAIN order |-> piece(k)]
           h == HeaderOf(sent)
           jarOf(k) == [x \in {order[i] : i \in 1 .. k} |-> m[x]]
           start == JarAt(1, <<>>, <<>>, <<>>)
           at(k) == JarAt(2, order[k], sent[order[k]], jarOf(k - 1))
<1>1. /\ order \in Seq(some) /\ l \in Nat /\ DOMAIN order = 1 .. l
      /\ \A x \in some : \E i \in 1 .. l : order[i] = x
      /\ order = <<>> <=> some = {}
  BY Listed
<1>2. h = FlattenSeq(pieces)
  BY Zenon DEF HeaderOf
<1>3. \A k \in 1 .. l : order[k] \in some
  BY <1>1
<1>4. l = 0 <=> some = {}
  BY <1>1
<1> HIDE DEF order, l
<1>5. ASSUME NEW n \in some
      PROVE  n \in Seq(Int) /\ sent[n] \in Seq(Int) /\ cookie(n) \in Seq(Int) /\ cookie(n) # <<>>
  <2>1. n \in Seq(Int) /\ sent[n] \in Seq(Int) /\ EQUAL \in Int
    BY DEF Carries, Nameable, Unended, EQUAL
  <2>2. n \o <<EQUAL>> \in Seq(Int) /\ Len(n \o <<EQUAL>>) = Len(n) + 1
    BY <2>1
  <2>3. cookie(n) \in Seq(Int) /\ Len(cookie(n)) = Len(n) + 1 + Len(sent[n])
    BY <2>1, <2>2
  <2>4. Len(cookie(n)) # 0
    BY <2>1, <2>3
  <2> QED
    BY <2>1, <2>3, <2>4
<1>6. <<SEMICOLON, SPACE>> \in Seq(Int)
  BY DEF SEMICOLON, SPACE
<1> HIDE DEF cookie
<1>7. ASSUME NEW k \in 1 .. l PROVE piece(k) \in Seq(Int) /\ piece(k) # <<>>
  <2>1. cookie(order[k]) \in Seq(Int) /\ cookie(order[k]) # <<>>
    BY <1>3, <1>5
  <2>2. Len(cookie(order[k])) # 0
    BY <2>1
  <2>3. /\ <<SEMICOLON, SPACE>> \o cookie(order[k]) \in Seq(Int)
        /\ Len(<<SEMICOLON, SPACE>> \o cookie(order[k])) # 0
    BY <1>6, <2>1, <2>2
  <2> QED
    BY <2>1, <2>3
<1> HIDE DEF piece
<1>8. pieces \in Seq(Seq(Int)) /\ Len(pieces) = l /\ \A k \in 1 .. l : pieces[k] = piece(k)
  <2>1. pieces = [k \in 1 .. l |-> piece(k)]
    BY <1>1
  <2>2. [k \in 1 .. l |-> piece(k)] \in [1 .. l -> Seq(Int)]
    BY <1>7
  <2> HIDE DEF pieces
  <2> DEFINE X == Seq(Int)
  <2>3. pieces \in [1 .. l -> X]
    BY <2>1, <2>2
  <2> HIDE DEF X
  <2>4. pieces \in Seq(X) /\ Len(pieces) = l
    BY <1>1, <2>3, FunctionText
  <2> QED
    BY <2>1, <2>4 DEF X
<1> HIDE DEF pieces
<1>9. PICK f \in [0 .. l -> Seq(Int)] :
         f[0] = <<>> /\ f[l] = h /\ \A k \in 1 .. l : f[k] = f[k - 1] \o piece(k)
  <2>1. \E f \in [0 .. Len(pieces) -> Seq(Int)] :
           /\ f[0] = <<>> /\ f[Len(pieces)] = FlattenSeq(pieces)
           /\ \A k \in 1 .. Len(pieces) : f[k] = f[k - 1] \o pieces[k]
    <3>1. pieces \in Seq(Seq(Int))
      BY <1>8
    <3> QED
      <4> HIDE DEF h, jarOf, at, start
      <4>1. ASSUME NEW q \in Seq(Seq(Int))
            PROVE  \E f \in [0 .. Len(q) -> Seq(Int)] :
                      /\ f[0] = <<>> /\ f[Len(q)] = FlattenSeq(q)
                      /\ \A k \in 1 .. Len(q) : f[k] = f[k - 1] \o q[k]
        BY FlattenBuilds
      <4> QED
        BY <3>1, <4>1
  <2>2. PICK f \in [0 .. l -> Seq(Int)] :
           /\ f[0] = <<>> /\ f[l] = h /\ \A k \in 1 .. l : f[k] = f[k - 1] \o pieces[k]
    BY <1>2, <1>8, <2>1
  <2> QED
    BY <1>8, <2>2
<1> HIDE DEF h
<1>10. ASSUME NEW k \in 0 .. l PROVE jarOf(k) \in Jars
  <2> DEFINE D == {order[i] : i \in 1 .. k}
  <2>1. \A x \in D : x \in some
    BY <1>1, <1>3
  <2>2. D \in SUBSET Seq(Int)
    BY <1>5, <2>1
  <2>3. \A x \in D : m[x] \in Seq(Int)
    BY <2>1 DEF Carries
  <2> HIDE DEF D
  <2>4. [x \in D |-> m[x]] \in [D -> Seq(Int)]
    BY <2>3
  <2> QED
    BY <2>2, <2>4 DEF Jars, D
<1>11. jarOf(0) = <<>>
  <2>1. {order[i] : i \in 1 .. 0} = {}
    OBVIOUS
  <2> QED
    BY <2>1
<1>12. ASSUME NEW k \in 1 .. l
       PROVE  Put(jarOf(k - 1), order[k], m[order[k]]) = jarOf(k)
  <2> DEFINE D == {order[i] : i \in 1 .. k - 1}
             E == {order[i] : i \in 1 .. k}
  <2>1. E = D \cup {order[k]}
    <3>1. 1 .. k = (1 .. k - 1) \cup {k}
      BY <1>1
    <3> QED
      BY <3>1
  <2> HIDE DEF D, E
  <2>2. Put([x \in D |-> m[x]], order[k], m[order[k]]) = [x \in E |-> m[x]]
    BY <2>1 DEF Put
  <2> QED
    BY <2>2 DEF D, E
<1> HIDE DEF jarOf
<1>13. ASSUME NEW k \in 1 .. l
       PROVE  /\ order[k] \in Seq(Int) /\ sent[order[k]] \in Seq(Int) /\ jarOf(k - 1) \in Jars
              /\ Nameable(order[k]) /\ Unended(sent[order[k]]) /\ m[order[k]] \in Seq(Int)
              /\ CText(parse_cookie_value(sent[order[k]])) = m[order[k]]
              /\ at(k) \in JarState
  <2>1. order[k] \in some /\ k - 1 \in 0 .. l
    BY <1>1, <1>3
  <2>2. order[k] \in Seq(Int) /\ sent[order[k]] \in Seq(Int) /\ jarOf(k - 1) \in Jars
    BY <1>5, <1>10, <2>1
  <2>3. at(k) \in JarState
    BY <2>2, JarAtState
  <2>4. /\ Nameable(order[k]) /\ Unended(sent[order[k]]) /\ m[order[k]] \in Seq(Int)
        /\ CText(parse_cookie_value(sent[order[k]])) = m[order[k]]
    BY <2>1 DEF Carries
  <2> QED
    BY <2>2, <2>3, <2>4
<1>14. ASSUME NEW k \in 1 .. l
       PROVE  /\ Run(JarState, JarStep, at(k), <<SEMICOLON, SPACE>>,
                     JarAt(3, <<>>, sent[order[k]], jarOf(k)))
              /\ JarStep[<<at(k), 0>>] = JarAt(3, <<>>, sent[order[k]], jarOf(k))
              /\ JarAt(3, <<>>, sent[order[k]], jarOf(k)) \in JarState
  <2> DEFINE j == jarOf(k - 1)
             n == order[k]
             t == sent[order[k]]
             w == m[order[k]]
  <2>1. /\ n \in Seq(Int) /\ t \in Seq(Int) /\ j \in Jars /\ w \in Seq(Int)
        /\ CText(parse_cookie_value(t)) = w
    BY <1>13
  <2>2. Put(j, n, w) = jarOf(k)
    BY <1>12
  <2> HIDE DEF j, n, t, w
  <2>3. /\ Run(JarState, JarStep, JarAt(2, n, t, j), <<SEMICOLON, SPACE>>,
               JarAt(3, <<>>, t, Put(j, n, w)))
        /\ JarStep[<<JarAt(2, n, t, j), 0>>] = JarAt(3, <<>>, t, Put(j, n, w))
        /\ JarAt(3, <<>>, t, Put(j, n, w)) \in JarState
    <3>1. ASSUME NEW p \in Seq(Int), NEW u \in Seq(Int), NEW i \in Jars, NEW v \in Seq(Int),
                 CText(parse_cookie_value(u)) = v
          PROVE  /\ Run(JarState, JarStep, JarAt(2, p, u, i), <<SEMICOLON, SPACE>>,
                        JarAt(3, <<>>, u, Put(i, p, v)))
                 /\ JarStep[<<JarAt(2, p, u, i), 0>>] = JarAt(3, <<>>, u, Put(i, p, v))
                 /\ JarAt(3, <<>>, u, Put(i, p, v)) \in JarState
      BY <3>1, SeparatorRun
    <3> QED
      BY <2>1, <3>1
  <2> QED
    BY <2>2, <2>3 DEF j, n, t
<1>15. ASSUME NEW k \in 1 .. l PROVE Run(JarState, JarStep, start, f[k], at(k))
  <2> DEFINE T == {i \in 0 .. l : i = 0 \/ Run(JarState, JarStep, start, f[i], at(i))}
  <2>1. ASSUME NEW i \in 1 .. l, i - 1 \in T PROVE i \in T
    <3>1. CASE i = 1
      <4>1. i - 1 = 0 /\ <<>> \in Seq(Int) /\ <<>> \in Jars
        <5>1. 0 \in 0 .. l
          BY <1>1
        <5>2. jarOf(0) \in Jars
          BY <1>10, <5>1
        <5> QED
          BY <1>11, <3>1, <5>2
      <4>2. f[i] = cookie(order[i])
        <5>1. f[i] = <<>> \o cookie(order[i])
          BY <1>9, <3>1, <4>1 DEF piece
        <5>2. cookie(order[i]) \in Seq(Int)
          BY <1>3, <1>5
        <5> QED
          BY <5>1, <5>2
      <4>3. Run(JarState, JarStep, start, order[i] \o <<EQUAL>> \o sent[order[i]],
                JarAt(2, order[i], sent[order[i]], <<>>))
        BY <1>13, <4>1, CookieRead
      <4>4. jarOf(i - 1) = <<>>
        BY <1>11, <4>1
      <4>5. Run(JarState, JarStep, start, f[i], at(i))
        BY <4>2, <4>3, <4>4 DEF cookie
      <4> QED
        BY <1>1, <4>5
    <3>2. CASE i # 1
      <4> DEFINE j == i - 1
                 middle == JarAt(3, <<>>, sent[order[j]], jarOf(j))
      <4>1. j \in 1 .. l /\ j # 0 /\ i \in 0 .. l
        BY <1>1, <3>2
      <4>2. Run(JarState, JarStep, start, f[j], at(j))
        BY <2>1, <4>1
      <4>3. Run(JarState, JarStep, at(j), <<SEMICOLON, SPACE>>, middle)
        BY <1>14, <4>1
      <4>4. sent[order[j]] \in Seq(Int) /\ jarOf(j) \in Jars
        BY <1>10, <1>13, <4>1
      <4>5. Run(JarState, JarStep, middle, cookie(order[i]), at(i))
        BY <1>13, <4>4, CookieRead DEF cookie
      <4> HIDE DEF middle, at
      <4>6. cookie(order[i]) \in Seq(Int) /\ f[j] \in Seq(Int)
        BY <1>3, <1>5, <1>9, <4>1
      <4>7. Run(JarState, JarStep, at(j), <<SEMICOLON, SPACE>> \o cookie(order[i]), at(i))
        BY <1>6, <4>3, <4>5, <4>6, RunConcat
      <4>8. <<SEMICOLON, SPACE>> \o cookie(order[i]) \in Seq(Int)
        BY <1>6, <4>6
      <4>9. Run(JarState, JarStep, start,
                f[j] \o (<<SEMICOLON, SPACE>> \o cookie(order[i])), at(i))
        BY <4>2, <4>6, <4>7, <4>8, RunConcat
      <4>10. f[i] = f[j] \o (<<SEMICOLON, SPACE>> \o cookie(order[i]))
        BY <1>9, <3>2 DEF piece
      <4> QED
        BY <4>1, <4>9, <4>10
    <3> QED
      BY <3>1, <3>2
  <2>2. 0 \in T
    BY <1>1
  <2> HIDE DEF T
  <2>3. \A i \in 0 .. l : i \in T
    BY <1>1, <2>1, <2>2, UpTo
  <2>4. k \in T /\ k # 0
    BY <1>1, <2>3
  <2> QED
    BY <2>4 DEF T
<1>16. CASE l = 0
  <2>1. h = <<>> /\ some = {}
    BY <1>4, <1>9, <1>16
  <2>2. parse_cookies(h) = <<>>
    BY <2>1 DEF parse_cookies
  <2>3. m = <<>>
    BY <2>1
  <2> QED
    BY <2>2, <2>3 DEF h
<1>17. CASE l # 0
  <2> DEFINE end == JarAt(3, <<>>, sent[order[l]], jarOf(l))
  <2>1. l \in 1 .. l /\ l - 1 \in 0 .. l /\ 0 \in Int
    BY <1>1, <1>17
  <2>2. h \in Seq(Int) /\ h # <<>>
    <3>1. f[l - 1] \in Seq(Int) /\ piece(l) \in Seq(Int) /\ piece(l) # <<>>
      BY <1>7, <1>9, <2>1
    <3>2. h = f[l - 1] \o piece(l)
      BY <1>9, <2>1
    <3>3. Len(h) = Len(f[l - 1]) + Len(piece(l)) /\ h \in Seq(Int)
      BY <3>1, <3>2
    <3>4. Len(piece(l)) # 0
      BY <3>1
    <3> QED
      BY <3>1, <3>3, <3>4
  <2>3. Run(JarState, JarStep, start, h, at(l)) /\ at(l) \in JarState
    BY <1>9, <1>13, <1>15, <2>1
  <2>4. JarStep[<<at(l), 0>>] = end /\ end \in JarState
    BY <1>14, <2>1
  <2> HIDE DEF at, end
  <2>5. Run(JarState, JarStep, start, Append(h, 0), end)
    BY <2>1, <2>2, <2>3, <2>4, RunAppend
  <2>6. parse_cookies(h) = end.jar
    BY <2>2, <2>5, JarParsed
  <2>7. end.jar = jarOf(l)
    BY DEF end, JarAt
  <2>8. jarOf(l) = m
    <3>1. {order[i] : i \in 1 .. l} = some
      BY <1>1, <1>3
    <3> QED
      BY <3>1 DEF jarOf
  <2> QED
    BY <2>6, <2>7, <2>8 DEF h
<1> QED
  BY <1>16, <1>17

\* parse_cookies reads back any jar whose values encode_value wrote, whatever its texts and
\* in whatever order they are sent.
THEOREM RoundTripHolds == RoundTrip
<1> SUFFICES ASSUME NEW some \in SUBSET Names, NEW m \in [some -> Values]
             PROVE  parse_cookies(HeaderOf([n \in some |-> encode_value(m[n])])) = m
  BY DEF RoundTrip
<1> DEFINE sent == [n \in some |-> encode_value(m[n])]
<1>1. IsFiniteSet(some)
  BY TextsAssumption, FS_Subset
<1>2. DOMAIN m = some /\ m = [n \in some |-> m[n]] /\ DOMAIN sent = some
  OBVIOUS
<1>3. ASSUME NEW n \in some
      PROVE  /\ Nameable(n) /\ Unended(sent[n]) /\ m[n] \in Seq(Int)
             /\ CText(parse_cookie_value(sent[n])) = m[n]
  <2>1. Nameable(n)
    BY TextsAssumption DEF Nameable
  <2>2. m[n] \in Seq(Int) /\ \A i \in 1 .. Len(m[n]) : m[n][i] # 0
    BY TextsAssumption
  <2>3. sent[n] = encode_value(m[n])
    OBVIOUS
  <2> HIDE DEF sent
  <2>4. Unended(sent[n]) /\ parse_cookie_value(sent[n]) = m[n]
    BY <2>2, <2>3, ValueRoundTrip DEF Unended
  <2> QED
    BY <2>1, <2>2, <2>4, NoNul
<1> HIDE DEF sent
<1>4. Carries(some, sent, m)
  BY <1>3 DEF Carries
<1>5. parse_cookies(HeaderOf(sent)) = m
  BY <1>1, <1>2, <1>4, JarRoundTrip
<1> QED
  BY <1>5 DEF sent

------------------------------------------------------------------------------
\* What the next process finds

\* A map of names to values, and what a browser keeps of it.
Sendable(m) == \E some \in SUBSET Names : m \in [some -> Values]
Encoded(m) == [n \in DOMAIN m |-> encode_value(m[n])]

\* A cookie has a name and, unless malloc refused it, a value.
CookieHas(c) ==
    DOMAIN c = CookieFields /\ c.name \in Names /\ c.value \in Values \cup {NoValue}

\* The changes of the handler are those of the cookies that the flush will send.
ChangesDue ==
    /\ DOMAIN touched = {n \in DOMAIN jar : heap[jar[n]].changed}
    /\ \A n \in DOMAIN touched :
          heap[jar[n]].value = NoValue \/ touched[n] = heap[jar[n]].value

\* What is known of the cookies in memory.
JarInv ==
    /\ \A k \in DOMAIN heap : CookieHas(heap[k])
    /\ \A n \in DOMAIN jar : jar[n] \in DOMAIN heap /\ heap[jar[n]].name = n
    /\ pc \in {"idle", "ready"} => DOMAIN jar = {} /\ DOMAIN touched = {}
    /\ pc \in {"handler", "returned"} => ChangesDue

\* What is known of the browser: it has the cookies that were meant, but for those
\* that this process has written.
BrowserInv ==
    /\ \E m : Sendable(m) /\ browser = Encoded(m)
    /\ Sendable(remembered)
    /\ pc # "crashed" => Over(out, browser) = Encoded(remembered)
    /\ pc = "idle" => DOMAIN out = {}

\* What is written over nothing, and over what was written before.
LEMMA OverNothing == ASSUME NEW f, DOMAIN f = {}, NEW m PROVE Over(f, Encoded(m)) = Encoded(m)
BY DEF Over, Encoded

LEMMA OverOver == ASSUME NEW f, NEW g, NEW h PROVE Over(Over(f, g), h) = Over(f, Over(g, h))
<1> DEFINE left == Over(Over(f, g), h)
           right == Over(f, Over(g, h))
<1>1. /\ DOMAIN Over(f, g) = DOMAIN f \cup DOMAIN g
      /\ DOMAIN Over(g, h) = DOMAIN g \cup DOMAIN h
  BY DEF Over
<1>2. /\ left = [n \in DOMAIN f \cup DOMAIN g \cup DOMAIN h |->
                    IF n \in DOMAIN f \cup DOMAIN g THEN Over(f, g)[n] ELSE h[n]]
      /\ right = [n \in DOMAIN f \cup DOMAIN g \cup DOMAIN h |->
                    IF n \in DOMAIN f THEN f[n] ELSE Over(g, h)[n]]
  BY <1>1 DEF Over
<1>3. ASSUME NEW n \in DOMAIN f \cup DOMAIN g \cup DOMAIN h
      PROVE  (IF n \in DOMAIN f \cup DOMAIN g THEN Over(f, g)[n] ELSE h[n])
                = (IF n \in DOMAIN f THEN f[n] ELSE Over(g, h)[n])
  BY DEF Over
<1> HIDE DEF left, right
<1>4. left = right
  BY <1>2, <1>3
<1> QED
  BY <1>4 DEF left, right

\* What is sent is found again.
LEMMA SentIsFound ==
    ASSUME NEW m, Sendable(m) PROVE parse_cookies(HeaderOf(Encoded(m))) = m
<1>1. PICK some \in SUBSET Names : m \in [some -> Values]
  BY DEF Sendable
<1>2. Encoded(m) = [n \in some |-> encode_value(m[n])]
  BY <1>1 DEF Encoded
<1> QED
  BY <1>1, <1>2, RoundTripHolds DEF RoundTrip

\* No process has started.
LEMMA SessionInit == Init => JarInv /\ BrowserInv
<1> SUFFICES ASSUME Init PROVE JarInv /\ BrowserInv
  OBVIOUS
<1>1. /\ DOMAIN heap = {} /\ DOMAIN jar = {} /\ DOMAIN touched = {} /\ DOMAIN out = {}
      /\ pc = "idle" /\ browser = <<>> /\ remembered = <<>>
  BY DEF Init
<1>2. <<>> \in [{} -> Values]
  OBVIOUS
<1>3. Sendable(<<>>)
  BY <1>2 DEF Sendable
<1>4. Encoded(<<>>) = <<>>
  BY DEF Encoded
<1>5. Over(out, browser) = Encoded(remembered)
  BY <1>1, <1>4, OverNothing
<1> QED
  BY <1>1, <1>3, <1>4, <1>5 DEF JarInv, BrowserInv

\* The cookie that a change leaves.
ChangedTo(k, c) ==
    /\ CookieHas(c) /\ c.name = heap[k].name
    /\ heap' = [heap EXCEPT ![k] = c]
    /\ \/ /\ c.changed = TRUE
          /\ touched' = IF k \in InJar THEN Put(touched, c.name, c.value) ELSE touched
       \/ /\ c.changed = heap[k].changed /\ c.value \in {heap[k].value, NoValue}
          /\ touched' = touched

\* The setters mark a cookie as changed and give it what touched remembers, or malloc
\* fails, and the value is lost.
LEMMA SettersChange ==
    ASSUME NEW k \in DOMAIN heap, CookieHas(heap[k]),
           \/ \E v \in Values : set_value(k, v)
           \/ set_expires(k, 1) \/ set_max_age(k, 1)
           \/ set_domain(k, "domain") \/ set_path(k, "path") \/ set_flag(k, "secure")
    PROVE  jar' = jar /\ \E c : ChangedTo(k, c)
<1> jar' = jar
  BY DEF set_value, set_expires, set_max_age, set_domain, set_path, set_flag, Changed
<1> DEFINE c0 == heap[k]
<1>1. DOMAIN c0 = {"name", "value", "changed", "expires", "max_age", "flag", "domain",
                   "path", "wild", "alive", "kept"} /\ CookieFields = DOMAIN c0
  BY DEF CookieHas, CookieFields, new_cad_cgi_cookie
<1>2. ASSUME NEW d, CookieHas(d), d.name = c0.name, Changed(k, d) PROVE \E c : ChangedTo(k, c)
  <2> DEFINE c == [d EXCEPT !.changed = TRUE]
  <2>1. c.changed = TRUE /\ c.name = d.name /\ c.value = d.value /\ CookieHas(c)
    BY <1>1, <1>2 DEF CookieHas
  <2>2. heap' = [heap EXCEPT ![k] = c]
    BY <1>2 DEF Changed
  <2>3. touched' = IF k \in InJar THEN Put(touched, c.name, c.value) ELSE touched
    BY <1>2, <2>1 DEF Changed
  <2> HIDE DEF c
  <2> QED
    BY <1>2, <2>1, <2>2, <2>3 DEF ChangedTo
<1>3. ASSUME NEW d, CookieHas(d), d.name = c0.name, d.changed = c0.changed,
             d.value \in {c0.value, NoValue}, heap' = [heap EXCEPT ![k] = d],
             touched' = touched
      PROVE  \E c : ChangedTo(k, c)
  BY <1>3 DEF ChangedTo
<1>4. ASSUME NEW v PROVE /\ CookieHas([c0 EXCEPT !.expires = v])
                         /\ CookieHas([c0 EXCEPT !.max_age = v])
                         /\ CookieHas([c0 EXCEPT !.flag = v])
  BY <1>1 DEF CookieHas
<1>5. ASSUME NEW v PROVE /\ CookieHas([c0 EXCEPT !.domain = v])
                         /\ CookieHas([c0 EXCEPT !.path = v])
  BY <1>1 DEF CookieHas
<1>6. ASSUME NEW v \in Values, set_value(k, v) PROVE \E c : ChangedTo(k, c)
  <2>1. ASSUME NEW w \in Values \cup {NoValue}
        PROVE  LET c == [c0 EXCEPT !.value = w, !.wild = FALSE]
               IN  CookieHas(c) /\ c.name = c0.name /\ c.changed = c0.changed /\ c.value = w
    BY <1>1 DEF CookieHas
  <2>2. CASE Changed(k, [heap[k] EXCEPT !.value = v, !.wild = FALSE])
    BY <1>2, <2>1, <2>2
  <2>3. CASE /\ heap' = [heap EXCEPT ![k] = [@ EXCEPT !.value = NoValue, !.wild = FALSE]]
             /\ touched' = touched
    BY <1>3, <2>1, <2>3
  <2> QED
    BY <1>6, <2>2, <2>3 DEF set_value
<1>7. CASE set_expires(k, 1)
  BY <1>1, <1>2, <1>4, <1>7 DEF set_expires
<1>8. CASE set_max_age(k, 1)
  BY <1>1, <1>2, <1>4, <1>8 DEF set_max_age
<1>9. CASE set_flag(k, "secure")
  BY <1>1, <1>2, <1>4, <1>9 DEF set_flag
<1>10. CASE set_domain(k, "domain")
  <2>1. CASE Changed(k, [heap[k] EXCEPT !.domain = "domain"])
    BY <1>1, <1>2, <1>5, <2>1
  <2>2. CASE heap' = [heap EXCEPT ![k].domain = NULL] /\ touched' = touched
    BY <1>1, <1>3, <1>5, <2>2
  <2> QED
    BY <1>10, <2>1, <2>2 DEF set_domain
<1>11. CASE set_path(k, "path")
  <2>1. CASE Changed(k, [heap[k] EXCEPT !.path = "path"])
    BY <1>1, <1>2, <1>5, <2>1
  <2>2. CASE heap' = [heap EXCEPT ![k].path = NULL] /\ touched' = touched
    BY <1>1, <1>3, <1>5, <2>2
  <2> QED
    BY <1>11, <2>1, <2>2 DEF set_path
<1> QED
  BY <1>6, <1>7, <1>8, <1>9, <1>10, <1>11

\* A change keeps what is due.
LEMMA SessionSetters ==
    ASSUME JarInv, pc = "handler", pc' = pc, jar' = jar, NEW k \in DOMAIN heap, NEW c,
           ChangedTo(k, c)
    PROVE  JarInv'
<1> USE DEF ChangedTo
<1>1. /\ DOMAIN heap' = DOMAIN heap /\ heap'[k] = c
      /\ \A j \in DOMAIN heap : j # k => heap'[j] = heap[j]
  OBVIOUS
<1>2. \A j \in DOMAIN heap' : CookieHas(heap'[j])
  BY <1>1 DEF JarInv
<1>3. \A n \in DOMAIN jar' : jar'[n] \in DOMAIN heap' /\ heap'[jar'[n]].name = n
  BY <1>1 DEF JarInv
<1>4. ChangesDue
  BY DEF JarInv
<1>5. \A n \in DOMAIN jar : jar[n] = k <=> k \in InJar /\ n = c.name
  BY DEF JarInv, InJar
<1>6. ChangesDue'
  <2>1. CASE c.changed = TRUE /\ k \in InJar /\ touched' = Put(touched, c.name, c.value)
    <3>1. /\ DOMAIN touched' = DOMAIN touched \cup {c.name} /\ touched'[c.name] = c.value
          /\ \A n \in DOMAIN touched : n # c.name => touched'[n] = touched[n]
      BY <2>1 DEF Put
    <3>2. c.name \in DOMAIN jar /\ jar[c.name] = k
      BY <1>5, <2>1 DEF InJar
    <3>3. \A n \in DOMAIN jar : n # c.name => heap'[jar[n]] = heap[jar[n]]
      BY <1>1, <1>5 DEF JarInv
    <3>4. DOMAIN touched' = {n \in DOMAIN jar' : heap'[jar'[n]].changed}
      BY <1>1, <1>4, <2>1, <3>1, <3>2, <3>3 DEF ChangesDue
    <3> QED
      BY <1>1, <1>4, <3>1, <3>2, <3>3, <3>4 DEF ChangesDue
  <2>2. CASE k \notin InJar /\ touched' = touched
    <3>1. \A n \in DOMAIN jar : heap'[jar[n]] = heap[jar[n]]
      BY <1>1, <1>5, <2>2 DEF JarInv
    <3> QED
      BY <1>4, <2>2, <3>1 DEF ChangesDue
  <2>3. CASE /\ c.changed = heap[k].changed /\ c.value \in {heap[k].value, NoValue}
             /\ touched' = touched
    <3>1. \A n \in DOMAIN jar : /\ heap'[jar[n]].changed = heap[jar[n]].changed
                                /\ heap'[jar[n]].value \in {heap[jar[n]].value, NoValue}
      BY <1>1, <2>3 DEF JarInv
    <3> QED
      BY <1>4, <2>3, <3>1 DEF ChangesDue
  <2> QED
    BY <2>1, <2>2, <2>3
<1> QED
  BY <1>2, <1>3, <1>6 DEF JarInv

\* A new cookie is not in the jar.
LEMMA SessionNew ==
    ASSUME JarInv, pc = "handler", pc' = pc, NEW n \in Names, new_cookie(n)
    PROVE  JarInv'
<1>1. PICK k \in Made \ DOMAIN heap : heap' = Put(heap, k, new_cad_cgi_cookie(n, NoValue))
  BY DEF new_cookie
<1> DEFINE c == new_cad_cgi_cookie(n, NoValue)
<1>2. CookieHas(c)
  BY DEF CookieHas, CookieFields, new_cad_cgi_cookie
<1> HIDE DEF c
<1>3. /\ DOMAIN heap' = DOMAIN heap \cup {k} /\ heap'[k] = c
      /\ \A j \in DOMAIN heap : heap'[j] = heap[j]
  BY <1>1 DEF Put, c
<1>4. UNCHANGED <<jar, touched>>
  BY DEF new_cookie
<1>5. \A j \in DOMAIN heap' : CookieHas(heap'[j])
  BY <1>2, <1>3 DEF JarInv
<1>6. \A m \in DOMAIN jar : jar[m] \in DOMAIN heap' /\ heap'[jar[m]] = heap[jar[m]]
  BY <1>3 DEF JarInv
<1>7. \A m \in DOMAIN jar' : jar'[m] \in DOMAIN heap' /\ heap'[jar'[m]].name = m
  BY <1>4, <1>6 DEF JarInv
<1>8. ChangesDue'
  BY <1>4, <1>6 DEF JarInv, ChangesDue
<1> QED
  BY <1>5, <1>7, <1>8 DEF JarInv

\* What a cookie has does not depend on whether it is freed.
LEMMA FreedHas ==
    ASSUME JarInv, NEW K
    PROVE  /\ DOMAIN Freed(heap, K) = DOMAIN heap
           /\ \A k \in DOMAIN heap : /\ CookieHas(Freed(heap, K)[k])
                                     /\ Freed(heap, K)[k].name = heap[k].name
                                     /\ Freed(heap, K)[k].value = heap[k].value
                                     /\ Freed(heap, K)[k].changed = heap[k].changed
<1>1. DOMAIN Freed(heap, K) = DOMAIN heap
  BY DEF Freed
<1>2. ASSUME NEW k \in DOMAIN heap
      PROVE  /\ CookieHas(Freed(heap, K)[k])
             /\ Freed(heap, K)[k].name = heap[k].name
             /\ Freed(heap, K)[k].value = heap[k].value
             /\ Freed(heap, K)[k].changed = heap[k].changed
  <2>1. /\ CookieHas(heap[k])
        /\ CookieFields = {"name", "value", "changed", "expires", "max_age", "flag",
                           "domain", "path", "wild", "alive", "kept"}
    BY DEF JarInv, CookieFields, new_cad_cgi_cookie
  <2>2. Freed(heap, K)[k] = IF k \in K THEN [heap[k] EXCEPT !.alive = FALSE] ELSE heap[k]
    BY DEF Freed
  <2> QED
    BY <2>1, <2>2 DEF CookieHas
<1> QED
  BY <1>1, <1>2

\* The handler frees a cookie.
LEMMA SessionFree ==
    ASSUME JarInv, pc = "handler", pc' = pc, NEW k \in DOMAIN heap, free_cookie(k)
    PROVE  JarInv'
<1>1. heap' = Freed(heap, {k}) /\ UNCHANGED <<jar, touched>>
  BY DEF free_cookie
<1>2. /\ DOMAIN heap' = DOMAIN heap
      /\ \A j \in DOMAIN heap : /\ CookieHas(heap'[j])
                                /\ heap'[j].name = heap[j].name
                                /\ heap'[j].value = heap[j].value
                                /\ heap'[j].changed = heap[j].changed
  BY <1>1, FreedHas
<1>3. \A m \in DOMAIN jar' : jar'[m] \in DOMAIN heap' /\ heap'[jar'[m]].name = m
  BY <1>1, <1>2 DEF JarInv
<1>4. ChangesDue'
  <2>1. \A m \in DOMAIN jar : jar[m] \in DOMAIN heap
    BY DEF JarInv
  <2> QED
    BY <1>1, <1>2, <2>1 DEF JarInv, ChangesDue
<1> QED
  BY <1>2, <1>3, <1>4 DEF JarInv

\* A cookie goes in the jar with the changes it has, and none of the one it replaces.
LEMMA SessionSet ==
    ASSUME JarInv, pc = "handler", pc' = pc, NEW k \in DOMAIN heap, set(k)
    PROVE  JarInv'
<1> DEFINE n == heap[k].name
           left == Freed(heap, IF n \in DOMAIN jar THEN {jar[n]} ELSE {})
<1>1. /\ jar' = Put(jar, n, k) /\ heap' = [left EXCEPT ![k].kept = TRUE]
      /\ touched' = Touched(k)
  BY DEF set
<1>2. /\ DOMAIN left = DOMAIN heap
      /\ \A j \in DOMAIN heap : /\ CookieHas(left[j])
                                /\ left[j].name = heap[j].name
                                /\ left[j].value = heap[j].value
                                /\ left[j].changed = heap[j].changed
  BY FreedHas
<1> HIDE DEF left
<1>3. /\ DOMAIN heap' = DOMAIN heap /\ heap'[k] = [left[k] EXCEPT !.kept = TRUE]
      /\ \A j \in DOMAIN heap : j # k => heap'[j] = left[j]
  BY <1>1, <1>2
<1>4. /\ CookieHas(heap'[k])
      /\ heap'[k].name = left[k].name
      /\ heap'[k].value = left[k].value
      /\ heap'[k].changed = left[k].changed
  <2>1. /\ CookieHas(left[k])
        /\ CookieFields = {"name", "value", "changed", "expires", "max_age", "flag",
                           "domain", "path", "wild", "alive", "kept"}
    BY <1>2 DEF CookieFields, new_cad_cgi_cookie
  <2> QED
    BY <1>3, <2>1 DEF CookieHas
<1>5. \A j \in DOMAIN heap : /\ CookieHas(heap'[j])
                             /\ heap'[j].name = heap[j].name
                             /\ heap'[j].value = heap[j].value
                             /\ heap'[j].changed = heap[j].changed
  BY <1>2, <1>3, <1>4
<1>6. /\ DOMAIN jar' = DOMAIN jar \cup {n} /\ jar'[n] = k
      /\ \A m \in DOMAIN jar : m # n => jar'[m] = jar[m]
  BY <1>1 DEF Put
<1>7. \A m \in DOMAIN jar' : jar'[m] \in DOMAIN heap' /\ heap'[jar'[m]].name = m
  BY <1>3, <1>5, <1>6 DEF JarInv
<1>8. \A m \in DOMAIN jar : jar[m] \in DOMAIN heap
  BY DEF JarInv
<1>9. ChangesDue
  BY DEF JarInv
<1>10. ChangesDue'
  <2>1. CASE heap[k].changed
    <3>1. /\ DOMAIN touched' = DOMAIN touched \cup {n} /\ touched'[n] = heap[k].value
          /\ \A m \in DOMAIN touched : m # n => touched'[m] = touched[m]
      BY <1>1, <2>1 DEF Touched, Put
    <3> HIDE DEF n
    <3>2. DOMAIN touched' = {m \in DOMAIN jar' : heap'[jar'[m]].changed}
      BY <1>5, <1>6, <1>8, <1>9, <2>1, <3>1 DEF ChangesDue
    <3> QED
      BY <1>5, <1>6, <1>8, <1>9, <3>1, <3>2 DEF ChangesDue
  <2>2. CASE ~heap[k].changed
    <3>1. touched' = [m \in DOMAIN touched \ {n} |-> touched[m]]
      BY <1>1, <2>2 DEF Touched
    <3> HIDE DEF n
    <3>2. DOMAIN touched' = {m \in DOMAIN jar' : heap'[jar'[m]].changed}
      BY <1>5, <1>6, <1>8, <1>9, <2>2, <3>1 DEF ChangesDue
    <3> QED
      BY <1>5, <1>6, <1>8, <1>9, <3>1, <3>2 DEF ChangesDue
  <2> QED
    BY <2>1, <2>2
<1> QED
  BY <1>3, <1>5, <1>7, <1>10 DEF JarInv

\* The response that is freed leaves an empty jar.
LEMMA SessionFreeResponse ==
    ASSUME JarInv, free_response, pc' = "ready" PROVE JarInv'
<1>1. heap' = Freed(heap, InJar) /\ jar' = <<>> /\ touched' = <<>>
  BY DEF free_response
<1>2. DOMAIN jar' = {} /\ DOMAIN touched' = {}
  BY <1>1
<1>3. DOMAIN heap' = DOMAIN heap /\ \A k \in DOMAIN heap : CookieHas(heap'[k])
  BY <1>1, FreedHas
<1> QED
  BY <1>2, <1>3 DEF JarInv

\* The jar that run makes has the cookies of the browser, none of them changed.
LEMMA SessionRun == ASSUME JarInv, BrowserInv, run PROVE JarInv'
<1> DEFINE sent == parse_cookies(Header)
           parsed == Parsed(Header)
<1>1. heap' = parsed.cookies /\ jar' = parsed.jar
  BY DEF run
<1>2. UNCHANGED touched /\ pc = "ready" /\ pc' = "handler"
  BY DEF run
<1>3. Sendable(sent)
  <2>1. PICK m : Sendable(m) /\ browser = Encoded(m)
    BY DEF BrowserInv
  <2>2. parse_cookies(HeaderOf(Encoded(m))) = m
    BY <2>1, SentIsFound
  <2> QED
    BY <2>1, <2>2 DEF Header
<1>4. \A n \in DOMAIN sent : n \in Names /\ sent[n] \in Values
  BY <1>3 DEF Sendable
<1>5. /\ DOMAIN jar' = DOMAIN sent /\ \A n \in DOMAIN sent : jar'[n] = Sent(n)
      /\ DOMAIN heap' = {Sent(n) : n \in DOMAIN sent}
      /\ \A k \in DOMAIN heap' :
            heap'[k] = [new_cad_cgi_cookie(k[2], sent[k[2]]) EXCEPT !.wild = FALSE, !.kept = TRUE]
  BY <1>1 DEF Parsed
<1> HIDE DEF sent, parsed
<1>6. \A n : Sent(n)[2] = n
  BY DEF Sent
<1>7. ASSUME NEW n \in Names, NEW v \in Values
      PROVE  LET c == [new_cad_cgi_cookie(n, v) EXCEPT !.wild = FALSE, !.kept = TRUE]
             IN  CookieHas(c) /\ c.name = n /\ c.changed = FALSE
  BY DEF new_cad_cgi_cookie, CookieHas, CookieFields
<1>8. ASSUME NEW n \in DOMAIN sent
      PROVE  /\ jar'[n] = Sent(n) /\ Sent(n) \in DOMAIN heap'
             /\ CookieHas(heap'[Sent(n)])
             /\ heap'[Sent(n)].name = n /\ heap'[Sent(n)].changed = FALSE
  <2>1. jar'[n] = Sent(n) /\ Sent(n) \in DOMAIN heap'
    BY <1>5
  <2>2. heap'[Sent(n)] = [new_cad_cgi_cookie(n, sent[n]) EXCEPT !.wild = FALSE, !.kept = TRUE]
    BY <1>5, <1>6, <2>1
  <2>3. n \in Names /\ sent[n] \in Values
    BY <1>4
  <2>4. LET c == [new_cad_cgi_cookie(n, sent[n]) EXCEPT !.wild = FALSE, !.kept = TRUE]
        IN  CookieHas(c) /\ c.name = n /\ c.changed = FALSE
    BY <1>7, <2>3
  <2> QED
    BY <2>1, <2>2, <2>4
<1>9. \A k \in DOMAIN heap' : CookieHas(heap'[k])
  BY <1>5, <1>8
<1>10. \A n \in DOMAIN jar' : jar'[n] \in DOMAIN heap' /\ heap'[jar'[n]].name = n
  BY <1>5, <1>8
<1>11. ChangesDue'
  <2>1. DOMAIN touched' = {}
    BY <1>2 DEF JarInv
  <2> QED
    BY <1>5, <1>8, <2>1 DEF ChangesDue
<1> QED
  BY <1>2, <1>9, <1>10, <1>11 DEF JarInv

\* The calls of the handler keep what is due.
LEMMA SessionHandler == ASSUME JarInv, handler PROVE JarInv'
<1>1. pc = "handler" /\ pc' = pc
  BY DEF handler
<1>2. CASE UNCHANGED <<heap, jar, touched>>
  BY <1>1, <1>2 DEF JarInv, ChangesDue
<1>3. CASE CookieCall
  <2>1. CASE \E n \in Names : new_cookie(n)
    BY <1>1, <2>1, SessionNew
  <2>2. ASSUME NEW k \in DOMAIN heap, set(k) PROVE JarInv'
    BY <1>1, <2>2, SessionSet
  <2>3. ASSUME NEW k \in DOMAIN heap, free_cookie(k) PROVE JarInv'
    BY <1>1, <2>3, SessionFree
  <2>4. ASSUME NEW k \in DOMAIN heap,
               \/ \E v \in Values : set_value(k, v)
               \/ set_expires(k, 1) \/ set_max_age(k, 1)
               \/ set_domain(k, "domain") \/ set_path(k, "path") \/ set_flag(k, "secure")
        PROVE  JarInv'
    <3>1. CookieHas(heap[k])
      BY DEF JarInv
    <3>2. jar' = jar /\ \E c : ChangedTo(k, c)
      BY <2>4, <3>1, SettersChange
    <3> QED
      BY <1>1, <3>2, SessionSetters
  <2> QED
    BY <1>3, <2>1, <2>2, <2>3, <2>4 DEF CookieCall
<1> QED
  BY <1>2, <1>3 DEF handler, cookieVars

\* The lines of a response are those of the changes that are due.
LEMMA SessionFlush ==
    ASSUME JarInv, BrowserInv, flush_response PROVE JarInv' /\ BrowserInv'
<1> DEFINE lines == {flush_cookie(k) : k \in ToFlush}
<1>1. /\ pc = "returned" /\ pc' = "flushed" /\ ~NullValue
      /\ out' = Over(Merged(lines), out) /\ heap' = Unchanged
      /\ remembered' = Over(touched, remembered) /\ UNCHANGED <<jar, touched, browser>>
  BY DEF flush_response
<1>2. ChangesDue
  BY <1>1 DEF JarInv
<1>3. ASSUME NEW n \in DOMAIN touched
      PROVE  /\ n \in DOMAIN jar /\ n \in Names /\ touched[n] \in Values
             /\ jar[n] \in ToFlush
             /\ flush_cookie(jar[n]).name = n
             /\ flush_cookie(jar[n]).value = encode_value(touched[n])
  <2>1. n \in DOMAIN jar /\ jar[n] \in ToFlush
    BY <1>2 DEF ChangesDue, ToFlush, InJar
  <2>2. heap[jar[n]].name = n /\ CookieHas(heap[jar[n]])
    BY <2>1 DEF JarInv
  <2>3. heap[jar[n]].value # NoValue
    BY <1>1, <2>1 DEF NullValue
  <2>4. touched[n] = heap[jar[n]].value
    BY <1>2, <2>3 DEF ChangesDue
  <2> QED
    BY <2>1, <2>2, <2>3, <2>4 DEF CookieHas, flush_cookie
<1>4. ASSUME NEW line \in lines
      PROVE  line.name \in DOMAIN touched /\ line.value = encode_value(touched[line.name])
  <2>1. PICK k \in ToFlush : line = flush_cookie(k)
    OBVIOUS
  <2>2. PICK n \in DOMAIN jar : jar[n] = k
    BY DEF ToFlush, InJar
  <2>3. n \in DOMAIN touched
    BY <1>2, <2>2 DEF ToFlush, ChangesDue
  <2> QED
    BY <1>3, <2>1, <2>2, <2>3
<1> HIDE DEF lines
<1>5. Merged(lines) = Encoded(touched)
  <2>1. {line.name : line \in lines} = DOMAIN touched
    <3>1. ASSUME NEW n \in DOMAIN touched PROVE \E line \in lines : line.name = n
      BY <1>3 DEF lines
    <3> QED
      BY <1>4, <3>1
  <2>2. ASSUME NEW n \in DOMAIN touched
        PROVE  (CHOOSE line \in lines : line.name = n).value = encode_value(touched[n])
    <3>1. \E line \in lines : line.name = n
      BY <2>1
    <3> QED
      BY <1>4, <3>1
  <2> QED
    BY <2>1, <2>2 DEF Merged, Encoded
<1>6. Sendable(remembered')
  <2>1. PICK some \in SUBSET Names : remembered \in [some -> Values]
    BY DEF BrowserInv, Sendable
  <2>2. remembered' \in [DOMAIN touched \cup some -> Values]
    BY <1>1, <1>3, <2>1 DEF Over
  <2>3. DOMAIN touched \cup some \in SUBSET Names
    BY <1>3
  <2> QED
    BY <2>2, <2>3 DEF Sendable
<1>7. Over(out', browser') = Encoded(remembered')
  <2>1. Over(out', browser') = Over(Merged(lines), Over(out, browser))
    BY <1>1, OverOver
  <2>2. Over(out, browser) = Encoded(remembered)
    BY <1>1 DEF BrowserInv
  <2>3. Over(Encoded(touched), Encoded(remembered)) = Encoded(Over(touched, remembered))
    <3> DEFINE both == DOMAIN touched \cup DOMAIN remembered
    <3>1. DOMAIN Encoded(touched) = DOMAIN touched
          /\ DOMAIN Encoded(remembered) = DOMAIN remembered
          /\ DOMAIN Over(touched, remembered) = both
      BY DEF Encoded, Over
    <3>2. /\ Over(Encoded(touched), Encoded(remembered))
                = [n \in both |-> IF n \in DOMAIN touched THEN Encoded(touched)[n]
                                                          ELSE Encoded(remembered)[n]]
          /\ Encoded(Over(touched, remembered))
                = [n \in both |-> encode_value(Over(touched, remembered)[n])]
      BY <3>1 DEF Encoded, Over
    <3>3. ASSUME NEW n \in both
          PROVE  (IF n \in DOMAIN touched THEN Encoded(touched)[n] ELSE Encoded(remembered)[n])
                    = encode_value(Over(touched, remembered)[n])
      BY DEF Encoded, Over
    <3> HIDE DEF both
    <3> QED
      BY <3>2, <3>3
  <2> QED
    BY <1>1, <1>5, <2>1, <2>2, <2>3
<1>8. BrowserInv'
  BY <1>1, <1>6, <1>7 DEF BrowserInv
<1>9. DOMAIN heap' = DOMAIN heap
  BY <1>1 DEF Unchanged
<1>10. ASSUME NEW k \in DOMAIN heap
       PROVE  CookieHas(heap'[k]) /\ heap'[k].name = heap[k].name
  <2>1. heap'[k] = IF k \in InJar THEN [heap[k] EXCEPT !.changed = FALSE] ELSE heap[k]
    BY <1>1 DEF Unchanged
  <2>2. /\ CookieHas(heap[k])
        /\ CookieFields = {"name", "value", "changed", "expires", "max_age", "flag",
                           "domain", "path", "wild", "alive", "kept"}
    BY DEF JarInv, CookieFields, new_cad_cgi_cookie
  <2> QED
    BY <2>1, <2>2 DEF CookieHas
<1>11. JarInv'
  BY <1>1, <1>9, <1>10 DEF JarInv
<1> QED
  BY <1>8, <1>11

\* No step loses a change that is due or makes one that is not.
LEMMA SessionStep ==
    ASSUME JarInv, BrowserInv, [Next]_vars PROVE JarInv' /\ BrowserInv'
<1>1. ASSUME UNCHANGED <<browser, remembered>>, pc' = "idle" => pc = "idle",
             pc' # "crashed" => UNCHANGED out /\ pc # "crashed"
      PROVE  BrowserInv'
  BY <1>1 DEF BrowserInv
<1>2. ASSUME UNCHANGED <<heap, jar, touched>>,
             pc' \in {"idle", "ready"} => pc \in {"idle", "ready"},
             pc' \in {"handler", "returned"} => pc \in {"handler", "returned"}
      PROVE  JarInv'
  BY <1>2 DEF JarInv, ChangesDue
<1>3. CASE new_cad_cgi
  BY <1>1, <1>2, <1>3 DEF new_cad_cgi, cookieVars
<1>4. CASE run
  BY <1>1, <1>4, SessionRun DEF run
<1>5. CASE run_no_memory \/ flush_null
  BY <1>1, <1>2, <1>5 DEF run_no_memory, flush_null, cookieVars
<1>6. CASE run_fails \/ free
  BY <1>1, <1>6, SessionFreeResponse DEF run_fails, free
<1>7. CASE body \/ run_returns
  BY <1>1, <1>2, <1>7 DEF body, run_returns, cookieVars
<1>8. CASE handler
  BY <1>1, <1>8, SessionHandler DEF handler
<1>9. CASE flush_response
  BY <1>9, SessionFlush
<1>10. CASE free_cgi
  <2>1. /\ pc = "ready" /\ pc' = "idle" /\ browser' = Over(out, browser) /\ out' = <<>>
        /\ heap' = <<>> /\ UNCHANGED <<remembered, jar, touched>>
    BY <1>10 DEF free_cgi, ProcessEnds
  <2>2. DOMAIN heap' = {} /\ DOMAIN out' = {}
    BY <2>1
  <2>3. JarInv'
    BY <2>1, <2>2 DEF JarInv
  <2>4. browser' = Encoded(remembered') /\ Sendable(remembered')
    BY <2>1 DEF BrowserInv
  <2>5. Over(out', browser') = Encoded(remembered')
    BY <2>2, <2>4, OverNothing
  <2> QED
    BY <2>2, <2>3, <2>4, <2>5 DEF BrowserInv
<1>11. CASE Stopped \/ UNCHANGED vars
  BY <1>1, <1>2, <1>11 DEF Stopped, vars, cgiVars, cookieVars
<1> QED
  BY <1>3, <1>4, <1>5, <1>6, <1>7, <1>8, <1>9, <1>10, <1>11 DEF Next

\* Whatever the handlers do with their cookies, and whenever malloc fails, the jar of the
\* next process is what the flushed responses meant it to be.
THEOREM SessionRemembersHolds == Spec => []SessionRemembers
<1>1. JarInv /\ BrowserInv /\ [Next]_vars => (JarInv /\ BrowserInv)'
  BY SessionStep
<1>2. BrowserInv => SessionRemembers
  <2> SUFFICES ASSUME BrowserInv, pc = "idle" PROVE parse_cookies(Header) = remembered
    BY DEF SessionRemembers
  <2>1. PICK m : browser = Encoded(m)
    BY DEF BrowserInv
  <2>2. browser = Encoded(remembered)
    BY <2>1, OverNothing DEF BrowserInv
  <2> QED
    BY <2>2, SentIsFound DEF BrowserInv, Header
<1> QED
  BY <1>1, <1>2, SessionInit, PTL DEF Spec

------------------------------------------------------------------------------
\* The form parser

\* The first place is behind k, and is that of the first character of S if there is one.
LEMMA FirstIs ==
    ASSUME NEW t, NEW n \in Nat, NEW k \in 1 .. n + 1, NEW S
    PROVE  /\ First(t, n, k, S) \in k .. n + 1
           /\ First(t, n, k, S) <= n => t[First(t, n, k, S)] \in S
           /\ \A i \in k .. First(t, n, k, S) - 1 : t[i] \notin S
<1> DEFINE P == {i \in k .. n : t[i] \in S} \cup {n + 1}
<1>1. P \in SUBSET Nat /\ P # {}
  OBVIOUS
<1>2. Min(P) \in P /\ \A i \in P : Min(P) <= i
  <2> HIDE DEF P
  <2> QED
    BY <1>1, MinIsLeast
<1>3. First(t, n, k, S) = Min(P)
  BY DEF First
<1> QED
  BY <1>2, <1>3

\* There is one such place.
LEMMA FirstAt ==
    ASSUME NEW t, NEW n \in Nat, NEW k \in 1 .. n + 1, NEW S, NEW p \in k .. n + 1,
           p <= n => t[p] \in S, \A i \in k .. p - 1 : t[i] \notin S
    PROVE  First(t, n, k, S) = p
<1> DEFINE q == First(t, n, k, S)
<1>1. /\ q \in k .. n + 1
      /\ q <= n => t[q] \in S
      /\ \A i \in k .. q - 1 : t[i] \notin S
  BY FirstIs
<1> HIDE DEF q
<1>2. q = p
  BY <1>1
<1> QED
  BY <1>2 DEF q

\* FlattenSeq puts one more piece at the end.
LEMMA FlattenGrows ==
    ASSUME NEW X, NEW seqs \in Seq(Seq(X)), NEW x \in Seq(X)
    PROVE  FlattenSeq(Append(seqs, x)) = FlattenSeq(seqs) \o x
<1> DEFINE m == Len(seqs)
           more == Append(seqs, x)
<1>1. /\ more \in Seq(Seq(X)) /\ Len(more) = m + 1 /\ m \in Nat
      /\ more[m + 1] = x /\ \A n \in 1 .. m : more[n] = seqs[n]
  OBVIOUS
<1>2. PICK f \in [0 .. m -> Seq(X)] :
         /\ f[0] = <<>> /\ f[m] = FlattenSeq(seqs)
         /\ \A n \in 1 .. m : f[n] = f[n - 1] \o seqs[n]
  BY FlattenBuilds
<1> HIDE DEF more
<1>3. PICK g \in [0 .. m + 1 -> Seq(X)] :
         /\ g[0] = <<>> /\ g[m + 1] = FlattenSeq(more)
         /\ \A n \in 1 .. m + 1 : g[n] = g[n - 1] \o more[n]
  <2>1. \E g \in [0 .. Len(more) -> Seq(X)] :
            /\ g[0] = <<>> /\ g[Len(more)] = FlattenSeq(more)
            /\ \A n \in 1 .. Len(more) : g[n] = g[n - 1] \o more[n]
    BY <1>1, FlattenBuilds
  <2> QED
    BY <1>1, <2>1
<1> DEFINE T == {n \in 0 .. m : f[n] = g[n]}
<1>4. 0 \in T
  BY <1>1, <1>2, <1>3
<1>5. ASSUME NEW n \in 1 .. m, n - 1 \in T PROVE n \in T
  <2>1. f[n] = f[n - 1] \o seqs[n] /\ f[n - 1] = g[n - 1] /\ more[n] = seqs[n]
    BY <1>1, <1>2, <1>5
  <2>2. n \in 1 .. m + 1 /\ n \in 0 .. m
    BY <1>1
  <2>3. g[n] = g[n - 1] \o more[n]
    BY <1>3, <2>2
  <2> QED
    BY <2>1, <2>2, <2>3
<1>6. \A n \in 0 .. m : n \in T
  <2> HIDE DEF T
  <2> QED
    BY <1>1, <1>4, <1>5, UpTo
<1>7. f[m] = g[m]
  BY <1>1, <1>6
<1>8. g[m + 1] = g[m] \o x
  <2>1. m + 1 \in 1 .. m + 1 /\ (m + 1) - 1 = m
    BY <1>1
  <2>2. g[m + 1] = g[(m + 1) - 1] \o more[m + 1]
    BY <1>3, <2>1
  <2> QED
    BY <1>1, <2>1, <2>2
<1> QED
  BY <1>2, <1>3, <1>7, <1>8 DEF more

\* The characters that a text stands for do not change when it grows.
LEMMA PieceText ==
    ASSUME NEW t \in Seq(Int), NEW i \in 1 .. Len(t) PROVE Piece(t, i) \in Seq(Int)
<1>1. t[i] \in Int
  OBVIOUS
<1>2. ASSUME NEW x \in Int, NEW y \in Int PROVE Char(hex(x) * 16 + hex(y)) \in Int
  <2>1. ASSUME NEW z \in Int PROVE hex(z) \in Int
    <3>1. CASE Digit(z)
      BY <3>1 DEF hex
    <3>2. CASE ~Digit(z) /\ Upper(z)
      BY <3>2 DEF hex
    <3>3. CASE ~Digit(z) /\ ~Upper(z) /\ Lower(z)
      BY <3>3 DEF hex
    <3>4. CASE ~Digit(z) /\ ~Upper(z) /\ ~Lower(z)
      BY <3>4 DEF hex
    <3> QED
      BY <3>1, <3>2, <3>3, <3>4
  <2>2. hex(x) * 16 + hex(y) \in Int
    BY <2>1
  <2> QED
    BY <2>2 DEF Char
<1>3. i > 2 => t[i - 1] \in Int
  OBVIOUS
<1>4. i > 2 => Char(hex(t[i - 1]) * 16 + hex(t[i])) \in Int
  BY <1>1, <1>2, <1>3
<1> QED
  BY <1>1, <1>4 DEF Piece, SPACE

LEMMA DecodedGrows ==
    ASSUME NEW t \in Seq(Int), NEW x \in Int
    PROVE  /\ Decoded(t) \in Seq(Int)
           /\ Decoded(Append(t, x)) = Decoded(t) \o Piece(Append(t, x), Len(t) + 1)
<1> DEFINE m == Len(t)
           u == Append(t, x)
           old == [i \in DOMAIN t |-> Piece(t, i)]
           new == [i \in DOMAIN u |-> Piece(u, i)]
           last == Piece(u, m + 1)
<1>1. /\ u \in Seq(Int) /\ Len(u) = m + 1 /\ m \in Nat /\ u[m + 1] = x
      /\ \A i \in 1 .. m : u[i] = t[i]
  OBVIOUS
<1>2. \A i \in 1 .. m : Piece(u, i) = Piece(t, i)
  BY <1>1 DEF Piece
<1> HIDE DEF u
<1>3. last \in Seq(Int) /\ \A i \in 1 .. m : Piece(t, i) \in Seq(Int)
  BY <1>1, PieceText
<1> HIDE DEF last
<1>4. old \in Seq(Seq(Int)) /\ Len(old) = m
  <2>1. old \in [1 .. m -> Seq(Int)]
    BY <1>3
  <2> HIDE DEF old, m
  <2> QED
    BY <1>1, <2>1, FunctionText
<1>5. new = Append(old, last)
  <2>1. Append(old, last) \in Seq(Seq(Int)) /\ Len(Append(old, last)) = m + 1
    BY <1>3, <1>4
  <2>2. new \in Seq(Seq(Int)) /\ Len(new) = m + 1
    <3>1. new \in [1 .. m + 1 -> Seq(Int)]
      <4>1. DOMAIN u = 1 .. m + 1
        BY <1>1
      <4>2. ASSUME NEW i \in 1 .. m + 1 PROVE Piece(u, i) \in Seq(Int)
        <5>1. CASE i = m + 1
          BY <1>3, <5>1 DEF last
        <5>2. CASE i # m + 1
          <6>1. i \in 1 .. m
            BY <1>1, <5>2
          <6> QED
            BY <1>2, <1>3, <6>1
        <5> QED
          BY <5>1, <5>2
      <4> QED
        BY <4>1, <4>2
    <3> HIDE DEF new, m
    <3>2. m + 1 \in Nat
      BY <1>1
    <3> QED
      BY <3>1, <3>2, FunctionText
  <2>3. \A i \in 1 .. m + 1 : new[i] = Append(old, last)[i]
    BY <1>1, <1>2, <1>3, <1>4 DEF last
  <2> HIDE DEF new, old
  <2> QED
    BY <2>1, <2>2, <2>3, SameText
<1>6. FlattenSeq(Append(old, last)) = FlattenSeq(old) \o last
  <2> HIDE DEF old
  <2> QED
    BY <1>3, <1>4, FlattenGrows
<1>7. FlattenSeq(old) \in Seq(Int)
  <2> HIDE DEF old
  <2>1. old \in Seq(Seq(Int))
    BY <1>4
  <2>2. PICK f \in [0 .. Len(old) -> Seq(Int)] : f[Len(old)] = FlattenSeq(old)
    BY <2>1, FlattenBuilds
  <2>3. Len(old) \in 0 .. Len(old)
    BY <2>1
  <2> QED
    BY <2>2, <2>3
<1>8. Decoded(t) = FlattenSeq(old) /\ Decoded(u) = FlattenSeq(new)
  BY Zenon DEF Decoded
<1> HIDE DEF old, new
<1> QED
  BY <1>5, <1>6, <1>7, <1>8 DEF u, last

LEMMA DecodedNothing == Decoded(<<>>) = <<>>
<1> DEFINE old == [i \in DOMAIN <<>> |-> Piece(<<>>, i)]
<1>1. old \in Seq(Seq(Int)) /\ Len(old) = 0
  OBVIOUS
<1>2. Decoded(<<>>) = FlattenSeq(old)
  BY Zenon DEF Decoded
<1> HIDE DEF old
<1>3. FlattenSeq(old) = <<>>
  BY <1>1, FlattenBuilds
<1> QED
  BY <1>2, <1>3

\* The last j characters of t are an escape that goes on; the other escapes are whole.
Escape(t, j) ==
    /\ j > 0 => j <= Len(t) /\ t[Len(t) - j + 1] = PERCENT
    /\ \A i \in 1 .. Len(t) : t[i] = PERCENT =>
          /\ i + 2 <= Len(t) \/ i = Len(t) - j + 1
          /\ i + 1 <= Len(t) => IsHex(t[i + 1])
          /\ i + 2 <= Len(t) => IsHex(t[i + 2])

\* A string was put together of t, but for the escape that goes on.
PutTogether(t, j, string) ==
    /\ string = Decoded(t)
    /\ Escape(t, j)
    /\ j = 0 => (string = <<>> <=> t = <<>>)

LEMMA HexIsPlain == \A x : IsHex(x) => x # PERCENT /\ x # EQUAL /\ x \notin Separators
BY DEF IsHex, Digit, Upper, Lower, PERCENT, EQUAL, Separators, AMP, LF

LEMMA EscapeGrows ==
    ASSUME NEW t \in Seq(Int), NEW x \in Int
    PROVE  /\ Escape(t, 0) /\ x # PERCENT => Escape(Append(t, x), 0)
           /\ Escape(t, 0) /\ x = PERCENT => Escape(Append(t, x), 1)
           /\ Escape(t, 1) /\ IsHex(x) => Escape(Append(t, x), 2)
           /\ Escape(t, 2) /\ IsHex(x) => Escape(Append(t, x), 0)
<1> DEFINE m == Len(t)
           u == Append(t, x)
<1>1. /\ u \in Seq(Int) /\ Len(u) = m + 1 /\ m \in Nat /\ u[m + 1] = x
      /\ \A i \in 1 .. m : u[i] = t[i]
  OBVIOUS
<1>2. IsHex(x) => x # PERCENT
  BY HexIsPlain
<1> HIDE DEF u
<1> DEFINE Follows(v, i) == /\ i + 1 <= Len(v) => IsHex(v[i + 1])
                            /\ i + 2 <= Len(v) => IsHex(v[i + 2])
<1>7. ASSUME NEW j \in {0, 1, 2}, Escape(t, j), j # 0 => IsHex(x),
             NEW i \in 1 .. m, u[i] = PERCENT
      PROVE  Follows(u, i)
  <2>1. /\ t[i] = PERCENT
        /\ i + 2 <= m \/ i = m - j + 1
        /\ i + 1 <= m => IsHex(t[i + 1])
        /\ i + 2 <= m => IsHex(t[i + 2])
    BY <1>1, <1>7 DEF Escape
  <2>2. i + 1 <= m + 1 => IsHex(u[i + 1])
    <3>1. CASE i + 1 <= m
      BY <1>1, <2>1, <3>1
    <3>2. CASE i = m
      <4>1. j # 0
        BY <2>1, <3>2
      <4> QED
        BY <1>1, <1>7, <3>2, <4>1
    <3> QED
      BY <1>1, <3>1, <3>2
  <2>3. i + 2 <= m + 1 => IsHex(u[i + 2])
    <3>1. CASE i + 2 <= m
      BY <1>1, <2>1, <3>1
    <3>2. CASE i + 2 = m + 1
      <4>1. j # 0
        BY <1>1, <2>1, <3>2
      <4> QED
        BY <1>1, <1>7, <3>2, <4>1
    <3> QED
      BY <1>1, <3>1, <3>2
  <2> QED
    BY <1>1, <2>2, <2>3
<1>8. ASSUME u[m + 1] = PERCENT PROVE Follows(u, m + 1)
  BY <1>1
<1> HIDE DEF Follows
<1>9. ASSUME NEW v \in Seq(Int), NEW j \in {0, 1, 2},
             j > 0 => j <= Len(v) /\ v[Len(v) - j + 1] = PERCENT,
             \A i \in 1 .. Len(v) : v[i] = PERCENT =>
                (i + 2 <= Len(v) \/ i = Len(v) - j + 1) /\ Follows(v, i)
      PROVE  Escape(v, j)
  BY <1>9 DEF Escape, Follows
<1>3. ASSUME Escape(t, 0), x # PERCENT PROVE Escape(u, 0)
  <2>1. ASSUME NEW i \in 1 .. m + 1, u[i] = PERCENT PROVE i + 2 <= m + 1 /\ Follows(u, i)
    <3>1. i \in 1 .. m
      BY <1>1, <1>3, <2>1
    <3>2. t[i] = PERCENT
      BY <1>1, <2>1, <3>1
    <3>3. i + 2 <= m
      BY <1>1, <1>3, <3>1, <3>2 DEF Escape
    <3> QED
      BY <1>1, <1>3, <1>7, <2>1, <3>1, <3>3
  <2> QED
    BY <1>1, <1>9, <2>1
<1>4. ASSUME Escape(t, 0), x = PERCENT PROVE Escape(u, 1)
  <2>1. ASSUME NEW i \in 1 .. m, u[i] = PERCENT PROVE i + 2 <= m + 1 /\ Follows(u, i)
    <3>1. t[i] = PERCENT
      BY <1>1, <2>1
    <3>2. i + 2 <= m
      BY <1>1, <1>4, <3>1 DEF Escape
    <3> QED
      BY <1>1, <1>4, <1>7, <2>1, <3>2
  <2>2. ASSUME NEW i \in 1 .. m + 1, u[i] = PERCENT
        PROVE  (i + 2 <= m + 1 \/ i = (m + 1) - 1 + 1) /\ Follows(u, i)
    <3>1. CASE i = m + 1
      BY <1>1, <1>8, <2>2, <3>1
    <3>2. CASE i # m + 1
      BY <1>1, <2>1, <2>2, <3>2
    <3> QED
      BY <3>1, <3>2
  <2>3. 1 <= m + 1 /\ u[(m + 1) - 1 + 1] = PERCENT
    BY <1>1, <1>4
  <2> QED
    BY <1>1, <1>9, <2>2, <2>3
<1>5. ASSUME Escape(t, 1), IsHex(x) PROVE Escape(u, 2)
  <2>1. ASSUME NEW i \in 1 .. m + 1, u[i] = PERCENT
        PROVE  (i + 2 <= m + 1 \/ i = (m + 1) - 2 + 1) /\ Follows(u, i)
    <3>1. i \in 1 .. m
      BY <1>1, <1>2, <1>5, <2>1
    <3>2. t[i] = PERCENT
      BY <1>1, <2>1, <3>1
    <3>3. i + 2 <= m \/ i = m - 1 + 1
      BY <1>1, <1>5, <3>1, <3>2 DEF Escape
    <3>4. i + 2 <= m + 1 \/ i = (m + 1) - 2 + 1
      BY <1>1, <3>1, <3>3
    <3> QED
      BY <1>1, <1>5, <1>7, <2>1, <3>1, <3>4
  <2>2. 2 <= m + 1 /\ u[(m + 1) - 2 + 1] = PERCENT
    <3>1. 1 <= m /\ t[m - 1 + 1] = PERCENT
      BY <1>1, <1>5 DEF Escape
    <3> QED
      BY <1>1, <3>1
  <2> QED
    BY <1>1, <1>9, <2>1, <2>2
<1>6. ASSUME Escape(t, 2), IsHex(x) PROVE Escape(u, 0)
  <2>1. ASSUME NEW i \in 1 .. m + 1, u[i] = PERCENT PROVE i + 2 <= m + 1 /\ Follows(u, i)
    <3>1. i \in 1 .. m
      BY <1>1, <1>2, <1>6, <2>1
    <3>2. t[i] = PERCENT
      BY <1>1, <2>1, <3>1
    <3>3. i + 2 <= m \/ i = m - 2 + 1
      BY <1>1, <1>6, <3>1, <3>2 DEF Escape
    <3>4. i + 2 <= m + 1
      BY <1>1, <3>1, <3>3
    <3> QED
      BY <1>1, <1>6, <1>7, <2>1, <3>1, <3>4
  <2> QED
    BY <1>1, <1>9, <2>1
<1> QED
  BY <1>3, <1>4, <1>5, <1>6 DEF u

LEMMA EscapeWhole ==
    ASSUME NEW t \in Seq(Int)
    PROVE  /\ Escape(t, 0) <=> Whole(t)
           /\ Escape(t, 1) \/ Escape(t, 2) => ~Whole(t)
<1>1. Len(t) \in Nat /\ DOMAIN t = 1 .. Len(t)
  OBVIOUS
<1>2. ASSUME Escape(t, 0) PROVE Whole(t)
  BY <1>1, <1>2 DEF Escape, Whole
<1>3. ASSUME Whole(t) PROVE Escape(t, 0)
  <2>1. ASSUME NEW i \in 1 .. Len(t), t[i] = PERCENT
        PROVE  i + 2 <= Len(t) /\ IsHex(t[i + 1]) /\ IsHex(t[i + 2])
    BY <1>1, <1>3, <2>1 DEF Whole
  <2> QED
    BY <2>1 DEF Escape
<1>4. ASSUME NEW j \in {1, 2}, Escape(t, j) PROVE ~Whole(t)
  <2>1. Len(t) - j + 1 \in 1 .. Len(t) /\ t[Len(t) - j + 1] = PERCENT
    BY <1>1, <1>4 DEF Escape
  <2>2. ~(Len(t) - j + 1 + 2 <= Len(t))
    BY <1>1
  <2> QED
    BY <1>1, <2>1, <2>2 DEF Whole
<1> QED
  BY <1>2, <1>3, <1>4

\* An escape that a character breaks is not whole, whatever follows.
LEMMA EscapeBroken ==
    ASSUME NEW t \in Seq(Int), NEW u \in Seq(Int), Len(t) < Len(u),
           \A i \in 1 .. Len(t) : u[i] = t[i],
           NEW j \in {1, 2}, Escape(t, j), ~IsHex(u[Len(t) + 1])
    PROVE  ~Whole(u)
<1>1. Len(t) \in Nat /\ Len(u) \in Nat
  OBVIOUS
<1> DEFINE i == Len(t) - j + 1
<1>2. i \in 1 .. Len(t) /\ t[i] = PERCENT
  <2>1. j > 0 /\ j <= Len(t) /\ t[i] = PERCENT
    BY DEF Escape
  <2> QED
    BY <1>1, <2>1
<1>3. i \in DOMAIN u /\ u[i] = PERCENT
  <2>1. i \in 1 .. Len(u)
    BY <1>1, <1>2
  <2> QED
    BY <1>2, <2>1
<1>4. Len(t) + 1 \in {i + 1, i + 2}
  BY <1>1
<1> QED
  BY <1>3, <1>4 DEF Whole

\* What each character adds to the string.
LEMMA PutPlain ==
    ASSUME NEW t \in Seq(Int), NEW x \in Int, NEW string, PutTogether(t, 0, string), x # PERCENT
    PROVE  PutTogether(Append(t, x), 0, Append(string, IF x = PLUS THEN SPACE ELSE x))
<1> DEFINE m == Len(t)
           u == Append(t, x)
           y == IF x = PLUS THEN SPACE ELSE x
<1>1. /\ u \in Seq(Int) /\ Len(u) = m + 1 /\ m \in Nat /\ u[m + 1] = x
      /\ \A i \in 1 .. m : u[i] = t[i]
  OBVIOUS
<1>2. Decoded(t) \in Seq(Int) /\ Decoded(u) = Decoded(t) \o Piece(u, m + 1)
  BY DecodedGrows
<1>3. Escape(u, 0)
  BY EscapeGrows DEF PutTogether
<1> HIDE DEF u
<1>4. Piece(u, m + 1) = <<y>>
  <2> DEFINE Ends(i) == i + 2 <= m
  <2>1. ASSUME NEW i \in 1 .. m, t[i] = PERCENT PROVE Ends(i)
    BY <1>1, <2>1 DEF PutTogether, Escape
  <2>2. m > 0 => u[m] # PERCENT
    BY <1>1, <2>1
  <2>3. m > 1 => u[m - 1] # PERCENT
    <3>1. m > 1 => m - 1 \in 1 .. m /\ ~Ends(m - 1) /\ u[m - 1] = t[m - 1]
      BY <1>1
    <3> QED
      BY <2>1, <3>1
  <2>4. m > 0 => u[(m + 1) - 1] # PERCENT
    BY <1>1, <2>2
  <2>5. m + 1 > 2 => u[(m + 1) - 2] # PERCENT
    <3>1. m + 1 > 2 => m > 1 /\ (m + 1) - 2 = m - 1
      BY <1>1
    <3> QED
      BY <2>3, <3>1
  <2> HIDE DEF m
  <2> QED
    BY <1>1, <2>4, <2>5 DEF Piece
<1>5. string \in Seq(Int) /\ string = Decoded(t)
  BY <1>2 DEF PutTogether
<1>6. y \in Int
  BY DEF SPACE
<1> HIDE DEF y
<1>7. Append(string, y) = string \o <<y>>
  BY <1>5, <1>6
<1>8. Append(string, y) # <<>> /\ u # <<>>
  <2>1. Len(Append(string, y)) = Len(string) + 1
        /\ Len(string) \in Nat
    BY <1>5, <1>6
  <2>2. Append(string, y) # <<>>
    <3>1. ASSUME Append(string, y) = <<>> PROVE Len(Append(string, y)) = 0
      BY <3>1
    <3> QED
      BY <2>1, <3>1
  <2>3. u # <<>>
    BY <1>1
  <2> QED
    BY <2>2, <2>3
<1> QED
  BY <1>2, <1>3, <1>4, <1>5, <1>7, <1>8 DEF PutTogether, u, y

LEMMA PutPercent ==
    ASSUME NEW t \in Seq(Int), NEW string, PutTogether(t, 0, string)
    PROVE  PutTogether(Append(t, PERCENT), 1, string)
<1> DEFINE m == Len(t)
           u == Append(t, PERCENT)
<1>1. PERCENT \in Int
  BY DEF PERCENT
<1>2. /\ u \in Seq(Int) /\ Len(u) = m + 1 /\ m \in Nat /\ u[m + 1] = PERCENT
  BY <1>1
<1>3. Decoded(t) \in Seq(Int) /\ Decoded(u) = Decoded(t) \o Piece(u, m + 1)
  BY <1>1, DecodedGrows
<1>4. Escape(u, 1)
  BY <1>1, EscapeGrows DEF PutTogether
<1> HIDE DEF u
<1>5. Piece(u, m + 1) = <<>>
  BY <1>2 DEF Piece
<1>6. Decoded(u) = Decoded(t)
  BY <1>3, <1>5
<1> QED
  BY <1>4, <1>6 DEF PutTogether, u

LEMMA PutFirst ==
    ASSUME NEW t \in Seq(Int), NEW x \in Int, NEW string, PutTogether(t, 1, string), IsHex(x)
    PROVE  PutTogether(Append(t, x), 2, string)
<1> DEFINE m == Len(t)
           u == Append(t, x)
<1>1. /\ u \in Seq(Int) /\ Len(u) = m + 1 /\ m \in Nat /\ u[m + 1] = x
      /\ \A i \in 1 .. m : u[i] = t[i]
  OBVIOUS
<1>2. Decoded(t) \in Seq(Int) /\ Decoded(u) = Decoded(t) \o Piece(u, m + 1)
  BY DecodedGrows
<1>3. Escape(u, 2)
  BY EscapeGrows DEF PutTogether
<1> HIDE DEF u
<1>4. Piece(u, m + 1) = <<>>
  <2>1. m > 0 /\ u[m] = PERCENT
    BY <1>1 DEF PutTogether, Escape
  <2> QED
    BY <1>1, <2>1 DEF Piece
<1>5. Decoded(u) = Decoded(t)
  BY <1>2, <1>4
<1> QED
  BY <1>3, <1>5 DEF PutTogether, u

LEMMA PutSecond ==
    ASSUME NEW t \in Seq(Int), NEW x \in Int, NEW string, PutTogether(t, 2, string), IsHex(x)
    PROVE  PutTogether(Append(t, x), 0, Append(string, Char(hex(t[Len(t)]) * 16 + hex(x))))
<1> DEFINE m == Len(t)
           u == Append(t, x)
           y == Char(hex(t[m]) * 16 + hex(x))
<1>1. /\ u \in Seq(Int) /\ Len(u) = m + 1 /\ m \in Nat /\ u[m + 1] = x
      /\ \A i \in 1 .. m : u[i] = t[i]
  OBVIOUS
<1>2. Decoded(t) \in Seq(Int) /\ Decoded(u) = Decoded(t) \o Piece(u, m + 1)
  BY DecodedGrows
<1>3. Escape(u, 0)
  BY EscapeGrows DEF PutTogether
<1>4. Piece(u, m + 1) \in Seq(Int)
  <2> HIDE DEF u
  <2>1. m + 1 \in 1 .. Len(u)
    BY <1>1
  <2> QED
    BY <1>1, <2>1, PieceText
<1> HIDE DEF u
<1>5. /\ m >= 2 /\ u[m - 1] = PERCENT /\ u[m] = t[m] /\ IsHex(u[m])
  <2>1. /\ 2 <= m /\ t[m - 2 + 1] = PERCENT
        /\ \A i \in 1 .. m : t[i] = PERCENT /\ i + 1 <= m => IsHex(t[i + 1])
    <3>1. 2 > 0 /\ 2 <= Len(t) /\ t[Len(t) - 2 + 1] = PERCENT
      BY DEF PutTogether, Escape
    <3> QED
      BY <3>1 DEF PutTogether, Escape
  <2>2. m - 2 + 1 = m - 1 /\ m - 1 \in 1 .. m /\ m - 1 + 1 = m /\ m - 1 + 1 <= m /\ m \in 1 .. m
    BY <1>1, <2>1
  <2>3. t[m - 1] = PERCENT
    BY <2>1, <2>2
  <2>4. IsHex(t[m - 1 + 1])
    BY <2>1, <2>2, <2>3
  <2> QED
    BY <1>1, <2>1, <2>2, <2>3, <2>4
<1>6. Piece(u, m + 1) = <<y>>
  <2>1. u[m] # PERCENT /\ u[m + 1] # PERCENT /\ u[(m + 1) - 2] = PERCENT
        /\ u[(m + 1) - 1] = t[m] /\ m + 1 > 2
    BY <1>1, <1>5, HexIsPlain
  <2> HIDE DEF m
  <2> QED
    BY <1>1, <2>1 DEF Piece
<1> HIDE DEF y
<1>7. string \in Seq(Int) /\ string = Decoded(t)
  BY <1>2 DEF PutTogether
<1>8. y \in Int
  <2>1. <<y>> \in Seq(Int) /\ Len(<<y>>) = 1 /\ <<y>>[1] = y
    BY <1>4, <1>6
  <2> QED
    BY <2>1
<1>9. Append(string, y) = string \o <<y>> /\ Append(string, y) # <<>> /\ u # <<>>
  <2>1. Len(Append(string, y)) = Len(string) + 1 /\ Len(string) \in Nat
    BY <1>7, <1>8
  <2>2. Append(string, y) = string \o <<y>>
    BY <1>7, <1>8
  <2> QED
    BY <1>1, <2>1, <2>2
<1>10. PutTogether(u, 0, Append(string, y))
  BY <1>2, <1>3, <1>6, <1>7, <1>9 DEF PutTogether
<1> QED
  BY <1>10 DEF u, y, m

\* What is read of a text grows with the text.
LEMMA SegmentGrows ==
    ASSUME NEW t \in Seq(Int), NEW m \in 0 .. Len(t), NEW k \in 1 .. m + 1
    PROVE  /\ SubSeq(t, k, m) \in Seq(Int)
           /\ Len(SubSeq(t, k, m)) = m - k + 1
           /\ \A i \in 1 .. m - k + 1 : SubSeq(t, k, m)[i] = t[k + i - 1]
           /\ SubSeq(t, k, m) = <<>> <=> k = m + 1
           /\ m < Len(t) => /\ t[m + 1] \in Int
                            /\ SubSeq(t, k, m + 1) = Append(SubSeq(t, k, m), t[m + 1])
<1> DEFINE old == SubSeq(t, k, m)
           new == SubSeq(t, k, m + 1)
<1>1. /\ old \in Seq(Int) /\ Len(old) = m - k + 1
      /\ \A i \in 1 .. m - k + 1 : old[i] = t[k + i - 1]
  OBVIOUS
<1>2. old = <<>> <=> k = m + 1
  OBVIOUS
<1>3. ASSUME m < Len(t) PROVE t[m + 1] \in Int /\ new = Append(old, t[m + 1])
  <2>1. t[m + 1] \in Int
    BY <1>3
  <2>2. /\ new \in Seq(Int) /\ Len(new) = m - k + 2
        /\ \A i \in 1 .. m - k + 2 : new[i] = t[k + i - 1]
    BY <1>3
  <2> DEFINE longer == Append(old, t[m + 1])
  <2>3. /\ longer \in Seq(Int) /\ Len(longer) = m - k + 2
        /\ \A i \in 1 .. m - k + 1 : longer[i] = t[k + i - 1]
        /\ longer[m - k + 2] = t[m + 1]
    <3> HIDE DEF old
    <3> QED
      BY <1>1, <2>1
  <2>4. ASSUME NEW i \in 1 .. Len(new) PROVE new[i] = longer[i]
    <3>1. CASE i = m - k + 2
      BY <2>2, <2>3, <3>1
    <3>2. CASE i # m - k + 2
      BY <2>2, <2>3, <3>2
    <3> QED
      BY <3>1, <3>2
  <2> HIDE DEF new, longer
  <2>5. new = longer
    BY <2>2, <2>3, <2>4, SameText
  <2> QED
    BY <2>1, <2>5 DEF longer
<1> QED
  BY <1>1, <1>2, <1>3

\* A pair starts at the first character, or behind a separator that ends another.
LEMMA StartsAre ==
    ASSUME NEW t, NEW n \in Nat
    PROVE  \A j : j \in Starts(t, n) <=> j = 1 \/ (j \in 2 .. n + 1 /\ EndsPair(t, j - 1))
BY DEF Starts

\* The pair that starts at k is being read, m characters of the text are: it is the last
\* one, and the table holds those that stand before it.
Before(t, n, k) == {j \in Starts(t, n) : j < k}

Reading(t, k, m, table) ==
    /\ k \in Starts(t, m)
    /\ \A j \in Starts(t, m) : j <= k
    /\ \A n \in m .. Len(t) : /\ table = Table(t, n, Before(t, n, k))
                              /\ \A j \in Before(t, n, k) : Good(t, n, j)

\* No other pair starts before a separator has ended the value.
LEMMA ReadingGoesOn ==
    ASSUME NEW t \in Seq(Int), NEW m \in 0 .. Len(t) - 1, NEW k, NEW table,
           Reading(t, k, m, table), ~EndsPair(t, m + 1)
    PROVE  Reading(t, k, m + 1, table)
<1>1. m \in Nat /\ m + 1 \in Nat /\ Len(t) \in Nat
  OBVIOUS
<1>2. Starts(t, m + 1) = Starts(t, m)
  <2>1. ASSUME NEW j PROVE j \in Starts(t, m + 1) <=> j \in Starts(t, m)
    <3>1. j \in Starts(t, m + 1) <=> j = 1 \/ (j \in 2 .. (m + 1) + 1 /\ EndsPair(t, j - 1))
      BY <1>1, StartsAre
    <3>2. j \in Starts(t, m) <=> j = 1 \/ (j \in 2 .. m + 1 /\ EndsPair(t, j - 1))
      BY <1>1, StartsAre
    <3>3. j \in 2 .. (m + 1) + 1 /\ j \notin 2 .. m + 1 => j - 1 = m + 1
      BY <1>1
    <3>4. j \in 2 .. m + 1 => j \in 2 .. (m + 1) + 1
      BY <1>1
    <3> QED
      BY <3>1, <3>2, <3>3, <3>4
  <2> QED
    BY <2>1
<1>3. \A n \in m + 1 .. Len(t) : n \in m .. Len(t)
  BY <1>1
<1> QED
  BY <1>2, <1>3 DEF Reading

LEMMA ReadingAttribute ==
    ASSUME NEW t \in Seq(Int), NEW m \in 0 .. Len(t) - 1, NEW k, NEW table,
           Reading(t, k, m, table), \A i \in k .. m : t[i] # EQUAL
    PROVE  Reading(t, k, m + 1, table) /\ k \in 1 .. m + 1
<1>1. m \in Nat /\ m + 1 \in Nat /\ Len(t) \in Nat
  OBVIOUS
<1>2. k = 1 \/ (k \in 2 .. m + 1 /\ EndsPair(t, k - 1))
  BY <1>1, StartsAre DEF Reading
<1>3. k \in 1 .. m + 1 /\ (k # 1 => t[k - 1] \in Separators)
  BY <1>1, <1>2 DEF EndsPair
<1>4. ~EndsPair(t, m + 1)
  <2> SUFFICES ASSUME NEW e \in 1 .. m, t[e] = EQUAL, \A i \in e .. m : t[i] \notin Separators
               PROVE  FALSE
    BY <1>1 DEF EndsPair
  <2>1. e < k
    BY <1>1, <1>3
  <2>2. k - 1 \in e .. m /\ k # 1
    BY <1>1, <1>3, <2>1
  <2> QED
    BY <1>3, <2>2
<1> QED
  BY <1>3, <1>4, ReadingGoesOn

\* The attribute of the pair that starts at k is being read, and then its value; the last
\* j characters are an escape.
InAttribute(t, k, m, j, string) ==
    /\ \A i \in k .. m : t[i] # EQUAL
    /\ PutTogether(SubSeq(t, k, m), j, string)

Cut(t, k, m, e) ==
    /\ e \in k + 1 .. m
    /\ t[e] = EQUAL
    /\ \A i \in k .. e - 1 : t[i] # EQUAL
    /\ \A i \in e + 1 .. m : t[i] \notin Separators

InValue(t, k, m, j, first, second) ==
    \E e \in k + 1 .. m :
        /\ Cut(t, k, m, e)
        /\ PutTogether(SubSeq(t, k, e - 1), 0, first)
        /\ PutTogether(SubSeq(t, e + 1, m), j, second)

\* A text is not whole if an escape at its end is broken or left open there.
LEMMA SegmentBroken ==
    ASSUME NEW t \in Seq(Int), NEW m \in 0 .. Len(t), NEW k \in 1 .. m + 1,
           NEW q \in m .. Len(t), NEW j \in {1, 2}, Escape(SubSeq(t, k, m), j),
           q > m => ~IsHex(t[m + 1])
    PROVE  ~Whole(SubSeq(t, k, q))
<1> DEFINE old == SubSeq(t, k, m)
           new == SubSeq(t, k, q)
<1>1. /\ old \in Seq(Int) /\ Len(old) = m - k + 1
      /\ \A i \in 1 .. m - k + 1 : old[i] = t[k + i - 1]
  BY SegmentGrows
<1>2. k \in 1 .. q + 1 /\ q \in 0 .. Len(t)
  OBVIOUS
<1>3. /\ new \in Seq(Int) /\ Len(new) = q - k + 1
      /\ \A i \in 1 .. q - k + 1 : new[i] = t[k + i - 1]
  BY <1>2, SegmentGrows
<1>4. Escape(old, j)
  OBVIOUS
<1> HIDE DEF old, new
<1>5. CASE q = m
  <2>1. new = old
    BY <1>5 DEF old, new
  <2> QED
    BY <1>1, <1>4, <2>1, EscapeWhole DEF new
<1>6. CASE q > m
  <2>1. Len(old) < Len(new) /\ \A i \in 1 .. Len(old) : new[i] = old[i]
    BY <1>1, <1>3, <1>6
  <2>2. Len(old) + 1 \in 1 .. q - k + 1 /\ k + (Len(old) + 1) - 1 = m + 1
    BY <1>1, <1>6
  <2>3. new[Len(old) + 1] = t[m + 1]
    <3>1. PICK i \in 1 .. q - k + 1 : i = Len(old) + 1
      BY <2>2
    <3>2. new[i] = t[k + i - 1]
      BY <1>3
    <3> QED
      BY <2>2, <3>1, <3>2
  <2>4. ~Whole(new)
    BY <1>1, <1>3, <1>4, <1>6, <2>1, <2>3, EscapeBroken
  <2> QED
    BY <2>4 DEF new
<1> QED
  BY <1>5, <1>6

\* An attribute that ends in nothing, or is not there, or has a broken escape, makes no
\* good pair.
LEMMA AttributeBad ==
    ASSUME NEW t \in Seq(Int), NEW m \in 0 .. Len(t), NEW k \in 1 .. m + 1,
           NEW j \in {0, 1, 2}, NEW string, InAttribute(t, k, m, j, string),
           NEW n \in m .. Len(t),
           n > m => \/ t[m + 1] = EQUAL /\ j = 0 /\ string = <<>>
                    \/ j # 0 /\ ~IsHex(t[m + 1])
    PROVE  ~Good(t, n, k)
<1>1. n \in Nat /\ k \in 1 .. n + 1 /\ \A i \in k .. m : t[i] \notin {EQUAL}
  BY DEF InAttribute
<1> DEFINE q == Equal(t, n, k)
<1>2. /\ q \in k .. n + 1
      /\ q <= n => t[q] \in {EQUAL}
      /\ \A i \in k .. q - 1 : t[i] \notin {EQUAL}
  BY <1>1, FirstIs DEF Equal
<1>3. q >= m + 1
  <2> HIDE DEF q
  <2>1. CASE q <= n
    BY <1>1, <1>2, <2>1
  <2>2. CASE q > n
    BY <1>2, <2>2
  <2> QED
    BY <1>2, <2>1, <2>2
<1>4. Attribute(t, n, k) = SubSeq(t, k, q - 1)
  BY DEF Attribute
<1>5. Escape(SubSeq(t, k, m), j)
  BY DEF InAttribute, PutTogether
<1>6. j = 0 => (string = <<>> => SubSeq(t, k, m) = <<>>)
  BY DEF InAttribute, PutTogether
<1>7. CASE q > n
  BY <1>2, <1>7 DEF Good
<1>8. CASE q <= n /\ t[m + 1] = EQUAL /\ j = 0 /\ string = <<>>
  <2> HIDE DEF q
  <2>1. q = m + 1
    <3>1. ASSUME q # m + 1 PROVE m + 1 \in k .. q - 1
      BY <1>2, <1>3, <3>1
    <3> QED
      BY <1>2, <1>8, <3>1
  <2>2. q - 1 = m
    BY <2>1
  <2>3. Attribute(t, n, k) = <<>>
    BY <1>4, <1>6, <1>8, <2>2
  <2> QED
    BY <2>3 DEF Good
<1>9. CASE q <= n /\ j # 0 /\ ~IsHex(t[m + 1])
  <2> HIDE DEF q
  <2>1. q - 1 \in m .. Len(t) /\ j \in {1, 2}
    BY <1>2, <1>3, <1>9
  <2>2. ~Whole(SubSeq(t, k, q - 1))
    BY <1>5, <1>9, <2>1, SegmentBroken
  <2> QED
    BY <1>4, <2>2 DEF Good
<1> QED
  <2> HIDE DEF q
  <2> QED
    BY <1>2, <1>3, <1>7, <1>8, <1>9

\* The pair whose value is being read, of any text that goes on after it.
CutAt(t, k, m, e, n) ==
    /\ Equal(t, n, k) = e
    /\ e \in 2 .. n
    /\ Attribute(t, n, k) = SubSeq(t, k, e - 1)
    /\ SubSeq(t, k, e - 1) # <<>>
    /\ \E q \in m .. n : /\ Value(t, n, k) = SubSeq(t, e + 1, q)
                         /\ n > m /\ t[m + 1] \in Separators => q = m

LEMMA ValueCut ==
    ASSUME NEW t \in Seq(Int), NEW m \in 0 .. Len(t), NEW k \in 1 .. m + 1,
           NEW e, Cut(t, k, m, e), NEW n \in m .. Len(t)
    PROVE  CutAt(t, k, m, e, n)
<1>1. /\ e \in k + 1 .. m /\ n \in Nat /\ k \in 1 .. n + 1 /\ e \in k .. n + 1
      /\ e \in 2 .. n /\ e + 1 \in 1 .. n + 1 /\ k \in 1 .. n
  BY DEF Cut
<1>2. Equal(t, n, k) = e
  <2>1. /\ e <= n => t[e] \in {EQUAL}
        /\ \A i \in k .. e - 1 : t[i] \notin {EQUAL}
    BY DEF Cut
  <2> QED
    BY <1>1, <2>1, FirstAt DEF Equal
<1>3. Attribute(t, n, k) = SubSeq(t, k, e - 1)
  BY <1>2 DEF Attribute
<1>4. SubSeq(t, k, e - 1) # <<>>
  <2>1. e - 1 \in 0 .. Len(t) /\ k \in 1 .. (e - 1) + 1 /\ k # (e - 1) + 1
    BY <1>1
  <2> QED
    BY <2>1, SegmentGrows
<1> DEFINE p == First(t, n, e + 1, Separators)
<1>5. /\ p \in e + 1 .. n + 1
      /\ p <= n => t[p] \in Separators
      /\ \A i \in e + 1 .. p - 1 : t[i] \notin Separators
  BY <1>1, FirstIs
<1>6. Value(t, n, k) = SubSeq(t, e + 1, p - 1)
  BY <1>2 DEF Value
<1> HIDE DEF p
<1>7. p >= m + 1
  <2>1. ASSUME p <= m PROVE FALSE
    <3>1. p \in e + 1 .. m /\ p <= n
      BY <1>5, <2>1
    <3> QED
      BY <1>5, <3>1 DEF Cut
  <2> QED
    BY <1>1, <1>5, <2>1
<1>8. n > m /\ t[m + 1] \in Separators => p = m + 1
  <2>1. ASSUME p # m + 1 PROVE m + 1 \in e + 1 .. p - 1
    BY <1>1, <1>5, <1>7, <2>1
  <2> QED
    BY <1>5, <2>1
<1>9. p - 1 \in m .. n /\ (p = m + 1 => p - 1 = m)
  BY <1>1, <1>5, <1>7
<1> QED
  BY <1>1, <1>2, <1>3, <1>4, <1>6, <1>8, <1>9 DEF CutAt

\* A value that ends in the middle of an escape, or has a broken one, makes no good pair.
LEMMA ValueBad ==
    ASSUME NEW t \in Seq(Int), NEW m \in 0 .. Len(t), NEW k \in 1 .. m + 1,
           NEW j \in {1, 2}, NEW first, NEW second, InValue(t, k, m, j, first, second),
           NEW n \in m .. Len(t), n > m => ~IsHex(t[m + 1])
    PROVE  ~Good(t, n, k)
<1>1. PICK e : /\ e \in k + 1 .. m /\ Cut(t, k, m, e)
               /\ PutTogether(SubSeq(t, e + 1, m), j, second)
  BY DEF InValue
<1>2. PICK q \in m .. n : Value(t, n, k) = SubSeq(t, e + 1, q)
  <2>1. CutAt(t, k, m, e, n)
    BY <1>1, ValueCut
  <2> QED
    BY <2>1 DEF CutAt
<1>3. q \in m .. Len(t) /\ e + 1 \in 1 .. m + 1 /\ (q > m => ~IsHex(t[m + 1]))
  BY <1>1, <1>2
<1>4. Escape(SubSeq(t, e + 1, m), j)
  BY <1>1 DEF PutTogether
<1>5. ~Whole(SubSeq(t, e + 1, q))
  BY <1>3, <1>4, SegmentBroken
<1> QED
  BY <1>2, <1>5 DEF Good

\* A value that the text or a separator ends makes a good pair.
LEMMA ValueGood ==
    ASSUME NEW t \in Seq(Int), NEW m \in 0 .. Len(t), NEW k \in 1 .. m + 1,
           NEW first, NEW second, InValue(t, k, m, 0, first, second),
           NEW n \in m .. Len(t), n > m => t[m + 1] \in Separators
    PROVE  /\ Good(t, n, k)
           /\ Name(t, n, k) = CText(first)
           /\ CText(Decoded(Value(t, n, k))) = CText(second)
<1>1. PICK e : /\ e \in k + 1 .. m /\ Cut(t, k, m, e)
               /\ PutTogether(SubSeq(t, k, e - 1), 0, first)
               /\ PutTogether(SubSeq(t, e + 1, m), 0, second)
  BY DEF InValue
<1>2. CutAt(t, k, m, e, n)
  BY <1>1, ValueCut
<1>3. /\ Equal(t, n, k) = e /\ e \in 2 .. n
      /\ Attribute(t, n, k) = SubSeq(t, k, e - 1) /\ SubSeq(t, k, e - 1) # <<>>
  BY <1>2 DEF CutAt
<1>4. Value(t, n, k) = SubSeq(t, e + 1, m)
  <2>1. PICK q \in m .. n : /\ Value(t, n, k) = SubSeq(t, e + 1, q)
                            /\ n > m /\ t[m + 1] \in Separators => q = m
    BY <1>2 DEF CutAt
  <2>2. q = m
    BY <2>1
  <2> QED
    BY <2>1, <2>2
<1>5. /\ SubSeq(t, k, e - 1) \in Seq(Int) /\ SubSeq(t, e + 1, m) \in Seq(Int)
  <2>1. e - 1 \in 0 .. Len(t) /\ k \in 1 .. (e - 1) + 1 /\ e + 1 \in 1 .. m + 1
    BY <1>1
  <2> QED
    BY <2>1, SegmentGrows
<1>6. Whole(SubSeq(t, k, e - 1)) /\ Whole(SubSeq(t, e + 1, m))
  BY <1>1, <1>5, EscapeWhole DEF PutTogether
<1>7. Good(t, n, k)
  <2>1. Equal(t, n, k) <= n
    BY <1>3
  <2> QED
    BY <1>3, <1>4, <1>6, <2>1 DEF Good
<1>8. Decoded(SubSeq(t, k, e - 1)) = first /\ Decoded(SubSeq(t, e + 1, m)) = second
  BY <1>1 DEF PutTogether
<1> QED
  BY <1>3, <1>4, <1>7, <1>8 DEF Name

\* A pair that is added to a table takes the place of an older one of its name.
LEMMA TableGrows ==
    ASSUME NEW t, NEW n, NEW K \in SUBSET Nat, NEW k \in Nat, \A j \in K : j < k
    PROVE  Table(t, n, K \cup {k}) =
             Put(Table(t, n, K), Name(t, n, k), CText(Decoded(Value(t, n, k))))
<1> DEFINE x == Name(t, n, k)
           Of(S, y) == {j \in S : Name(t, n, j) = y}
           Latest(S, y) == CText(Decoded(Value(t, n, Max(Of(S, y)))))
           more == K \cup {k}
<1>1. \A S : Table(t, n, S) = [y \in {Name(t, n, j) : j \in S} |-> Latest(S, y)]
  BY DEF Table
<1>2. Of(more, x) = Of(K, x) \cup {k} /\ \A j \in Of(K, x) : j < k
  OBVIOUS
<1>3. Max(Of(more, x)) = k
  <2> DEFINE S == Of(more, x)
  <2>1. k \in S /\ S \subseteq Nat /\ \A j \in S : k >= j
    <3>1. Of(K, x) \subseteq Nat
      OBVIOUS
    <3> HIDE DEF Of
    <3> QED
      BY <1>2, <3>1
  <2> HIDE DEF S
  <2>2. \A j \in S : (\A i \in S : j >= i) => j = k
    BY <2>1
  <2>3. Max(S) = CHOOSE j \in S : \A i \in S : j >= i
    BY Zenon DEF Max
  <2>4. Max(S) \in S /\ \A i \in S : Max(S) >= i
    BY <2>1, <2>3
  <2>5. Max(S) = k
    BY <2>2, <2>4
  <2> QED
    BY <2>5 DEF S
<1>4. \A y : y # x => Of(more, y) = Of(K, y)
  OBVIOUS
<1>5. Latest(more, x) = CText(Decoded(Value(t, n, k)))
  BY <1>3
<1>6. \A y : y # x => Latest(more, y) = Latest(K, y)
  BY <1>4
<1>7. {Name(t, n, j) : j \in more} = {Name(t, n, j) : j \in K} \cup {x}
  OBVIOUS
<1> HIDE DEF Latest, more
<1> DEFINE old == {Name(t, n, j) : j \in K}
<1>8. Table(t, n, more) = [y \in old \cup {x} |-> Latest(more, y)]
  BY <1>1, <1>7
<1>9. Table(t, n, K) = [y \in old |-> Latest(K, y)]
  BY <1>1
<1> HIDE DEF old, x
<1>10. [y \in old \cup {x} |-> Latest(more, y)] =
          [y \in old \cup {x} |-> IF y = x THEN Latest(more, x) ELSE Latest(K, y)]
  BY <1>6
<1>11. Put(Table(t, n, K), x, Latest(more, x)) =
          [y \in old \cup {x} |-> IF y = x THEN Latest(more, x) ELSE Latest(K, y)]
  <2>1. DOMAIN Table(t, n, K) = old /\ \A y \in old : Table(t, n, K)[y] = Latest(K, y)
    BY <1>9
  <2> QED
    BY <2>1 DEF Put
<1> QED
  BY <1>5, <1>8, <1>10, <1>11 DEF more, x

LEMMA BeforeIsNat ==
    ASSUME NEW t, NEW n \in Nat, NEW k PROVE Before(t, n, k) \in SUBSET Nat
<1>1. \A j : j \in Starts(t, n) => j = 1 \/ j \in 2 .. n + 1
  BY StartsAre
<1> QED
  BY <1>1 DEF Before

\* A separator ends the pair, which goes to the table.
LEMMA ReadingEnds ==
    ASSUME NEW t \in Seq(Int), NEW m \in 0 .. Len(t) - 1, NEW k \in 1 .. m + 1, NEW table,
           Reading(t, k, m, table), NEW first, NEW second,
           InValue(t, k, m, 0, first, second), t[m + 1] \in Separators
    PROVE  Reading(t, m + 2, m + 1, Put(table, CText(first), CText(second)))
<1>1. m \in Nat /\ m + 1 \in Nat /\ Len(t) \in Nat /\ m \in 0 .. Len(t) /\ k \in Nat
  OBVIOUS
<1>2. EndsPair(t, m + 1)
  <2>1. PICK e \in k + 1 .. m : t[e] = EQUAL /\ \A i \in e + 1 .. m : t[i] \notin Separators
    BY DEF InValue, Cut
  <2>2. e \in 1 .. (m + 1) - 1 /\ \A i \in e .. (m + 1) - 1 : i = e \/ i \in e + 1 .. m
    BY <1>1, <2>1
  <2>3. EQUAL \notin Separators
    BY DEF EQUAL, Separators, AMP, LF
  <2>4. \A i \in e .. (m + 1) - 1 : t[i] \notin Separators
    BY <2>1, <2>2, <2>3
  <2> QED
    BY <2>1, <2>2, <2>4 DEF EndsPair
<1>3. m + 2 \in Starts(t, m + 1) /\ \A j \in Starts(t, m + 1) : j <= m + 2
  <2>1. \A j : j \in Starts(t, m + 1) <=>
                  j = 1 \/ (j \in 2 .. (m + 1) + 1 /\ EndsPair(t, j - 1))
    BY <1>1, StartsAre
  <2>2. m + 2 \in 2 .. (m + 1) + 1 /\ (m + 2) - 1 = m + 1
    BY <1>1
  <2>3. \A j \in 2 .. (m + 1) + 1 : j <= m + 2
    BY <1>1
  <2> QED
    BY <1>1, <1>2, <2>1, <2>2, <2>3
<1>4. ASSUME NEW n \in m + 1 .. Len(t)
      PROVE  /\ Put(table, CText(first), CText(second)) = Table(t, n, Before(t, n, m + 2))
             /\ \A j \in Before(t, n, m + 2) : Good(t, n, j)
  <2>1. n \in m .. Len(t) /\ n \in Nat
    BY <1>1
  <2>2. Before(t, n, m + 2) = Before(t, n, k) \cup {k}
    <3>1. ASSUME NEW j PROVE j \in Starts(t, n) /\ j < m + 2 <=> j \in Starts(t, m)
      <4>1. j \in Starts(t, n) <=> j = 1 \/ (j \in 2 .. n + 1 /\ EndsPair(t, j - 1))
        BY <2>1, StartsAre
      <4>2. j \in Starts(t, m) <=> j = 1 \/ (j \in 2 .. m + 1 /\ EndsPair(t, j - 1))
        BY <1>1, StartsAre
      <4>3. j \in 2 .. n + 1 /\ j < m + 2 <=> j \in 2 .. m + 1
        BY <1>1, <2>1
      <4> QED
        BY <1>1, <4>1, <4>2, <4>3
    <3>2. \A j \in Starts(t, m) : j \in Nat
      <4>1. \A j : j \in Starts(t, m) => j = 1 \/ j \in 2 .. m + 1
        BY <1>1, StartsAre
      <4> QED
        BY <4>1
    <3>3. k \in Starts(t, m) /\ \A j \in Starts(t, m) : j <= k
      BY DEF Reading
    <3>4. k < m + 2
      BY <1>1
    <3>5. ASSUME NEW j \in Starts(t, m), NEW i \in Nat, i = k
          PROVE  j < i \/ j = i
      BY <3>2, <3>3, <3>5
    <3>6. ASSUME NEW j PROVE j \in Before(t, n, m + 2) <=> j \in Before(t, n, k) \cup {k}
      <4>1. j \in Before(t, n, m + 2) <=> j \in Starts(t, m)
        BY <3>1 DEF Before
      <4>2. j \in Before(t, n, k) <=> j \in Starts(t, m) /\ j < k
        <5>1. j \in Starts(t, m) /\ j < k => j \in Starts(t, n)
          BY <3>1
        <5>2. j \in Starts(t, n) /\ j < k => j \in Starts(t, m)
          <6>1. j \in Starts(t, n) => j \in Nat
            BY <2>1, BeforeIsNat, StartsAre
          <6> QED
            BY <1>1, <3>1, <3>4, <6>1
        <5> QED
          BY <5>1, <5>2 DEF Before
      <4>3. j \in Starts(t, m) => j < k \/ j = k
        BY <1>1, <3>5
      <4> QED
        BY <3>3, <4>1, <4>2, <4>3
    <3> QED
      BY <3>6
  <2>3. table = Table(t, n, Before(t, n, k)) /\ \A j \in Before(t, n, k) : Good(t, n, j)
    BY <2>1 DEF Reading
  <2>4. /\ Good(t, n, k) /\ Name(t, n, k) = CText(first)
        /\ CText(Decoded(Value(t, n, k))) = CText(second)
    BY <1>1, <2>1, ValueGood
  <2>5. Table(t, n, Before(t, n, k) \cup {k}) =
           Put(Table(t, n, Before(t, n, k)), Name(t, n, k), CText(Decoded(Value(t, n, k))))
    <3>1. Before(t, n, k) \in SUBSET Nat /\ \A j \in Before(t, n, k) : j < k
      BY <2>1, BeforeIsNat DEF Before
    <3> QED
      BY <1>1, <3>1, TableGrows
  <2> QED
    BY <2>2, <2>3, <2>4, <2>5
<1> QED
  BY <1>3, <1>4 DEF Reading

\* The table of what was read is what the text means if the pair that is being read is
\* not good, and is not when the text ends that pair.
LEMMA MeaningBad ==
    ASSUME NEW t, NEW n \in Nat, NEW k \in Starts(t, n), ~Good(t, n, k),
           \A j \in Before(t, n, k) : Good(t, n, j)
    PROVE  Meaning(t, n) = Table(t, n, Before(t, n, k))
<1> DEFINE K == {i \in Starts(t, n) : \A j \in Starts(t, n) : j <= i => Good(t, n, j)}
<1>1. \A j \in Starts(t, n) : j \in Nat
  <2>1. \A j : j \in Starts(t, n) => j = 1 \/ j \in 2 .. n + 1
    BY StartsAre
  <2> QED
    BY <2>1
<1>2. ASSUME NEW i PROVE i \in K <=> i \in Before(t, n, k)
  <2>1. ASSUME i \in K PROVE i \in Before(t, n, k)
    <3>1. ~(k <= i) /\ i \in Nat /\ k \in Nat
      BY <1>1, <2>1
    <3> QED
      BY <2>1, <3>1 DEF Before
  <2>2. ASSUME i \in Before(t, n, k) PROVE i \in K
    <3>1. i \in Starts(t, n) /\ i < k /\ i \in Nat /\ k \in Nat
      BY <1>1, <2>2 DEF Before
    <3>2. ASSUME NEW j \in Starts(t, n), j <= i PROVE j \in Before(t, n, k)
      BY <1>1, <3>1, <3>2 DEF Before
    <3> QED
      BY <3>1, <3>2
  <2> QED
    BY <2>1, <2>2
<1>3. K = Before(t, n, k)
  BY <1>2
<1>4. Meaning(t, n) = Table(t, n, K)
  BY DEF Meaning
<1> QED
  BY <1>3, <1>4

LEMMA MeaningGood ==
    ASSUME NEW t, NEW n \in Nat, NEW k \in Starts(t, n), \A j \in Starts(t, n) : j <= k,
           Good(t, n, k), \A j \in Before(t, n, k) : Good(t, n, j)
    PROVE  Meaning(t, n) = Put(Table(t, n, Before(t, n, k)), Name(t, n, k),
                               CText(Decoded(Value(t, n, k))))
<1> DEFINE K == {i \in Starts(t, n) : \A j \in Starts(t, n) : j <= i => Good(t, n, j)}
<1>1. \A j \in Starts(t, n) : j \in Nat
  <2>1. \A j : j \in Starts(t, n) => j = 1 \/ j \in 2 .. n + 1
    BY StartsAre
  <2> QED
    BY <2>1
<1>2. \A j \in Starts(t, n) : j = k \/ j \in Before(t, n, k)
  BY <1>1 DEF Before
<1>3. K = Before(t, n, k) \cup {k}
  BY <1>2 DEF Before
<1>4. Meaning(t, n) = Table(t, n, K)
  BY DEF Meaning
<1>5. Before(t, n, k) \in SUBSET Nat /\ k \in Nat /\ \A j \in Before(t, n, k) : j < k
  BY <1>1, BeforeIsNat DEF Before
<1>6. Table(t, n, Before(t, n, k) \cup {k}) =
         Put(Table(t, n, Before(t, n, k)), Name(t, n, k), CText(Decoded(Value(t, n, k))))
  BY <1>5, TableGrows
<1> QED
  BY <1>3, <1>4, <1>6

\* The character behind the first m of t adds to what is put together of them.
Adds(t, m, j, string, i, longer) ==
    \A k \in 1 .. m + 1 :
        PutTogether(SubSeq(t, k, m), j, string) => PutTogether(SubSeq(t, k, m + 1), i, longer)

Spaced(x) == IF x = PLUS THEN SPACE ELSE x

LEMMA Adding ==
    ASSUME NEW t \in Seq(Int), NEW m \in 0 .. Len(t) - 1, NEW string
    PROVE  /\ t[m + 1] # PERCENT => Adds(t, m, 0, string, 0, Append(string, Spaced(t[m + 1])))
           /\ t[m + 1] = PERCENT => Adds(t, m, 0, string, 1, string)
           /\ IsHex(t[m + 1]) => Adds(t, m, 1, string, 2, string)
           /\ IsHex(t[m + 1]) => Adds(t, m, 2, string, 0,
                                      Append(string, Char(hex(t[m]) * 16 + hex(t[m + 1]))))
<1>1. ASSUME NEW k \in 1 .. m + 1
      PROVE  /\ SubSeq(t, k, m) \in Seq(Int) /\ t[m + 1] \in Int
             /\ SubSeq(t, k, m + 1) = Append(SubSeq(t, k, m), t[m + 1])
             /\ Len(SubSeq(t, k, m)) = m - k + 1
             /\ \A i \in 1 .. m - k + 1 : SubSeq(t, k, m)[i] = t[k + i - 1]
  <2>1. m \in 0 .. Len(t) /\ m < Len(t)
    OBVIOUS
  <2> QED
    BY <2>1, SegmentGrows
<1>2. ASSUME t[m + 1] # PERCENT
      PROVE  Adds(t, m, 0, string, 0, Append(string, Spaced(t[m + 1])))
  BY <1>1, <1>2, PutPlain DEF Adds, Spaced
<1>3. ASSUME t[m + 1] = PERCENT PROVE Adds(t, m, 0, string, 1, string)
  BY <1>1, <1>3, PutPercent DEF Adds
<1>4. ASSUME IsHex(t[m + 1]) PROVE Adds(t, m, 1, string, 2, string)
  BY <1>1, <1>4, PutFirst DEF Adds
<1>5. ASSUME IsHex(t[m + 1])
      PROVE  Adds(t, m, 2, string, 0, Append(string, Char(hex(t[m]) * 16 + hex(t[m + 1]))))
  <2> SUFFICES ASSUME NEW k \in 1 .. m + 1, PutTogether(SubSeq(t, k, m), 2, string)
               PROVE  PutTogether(SubSeq(t, k, m + 1), 0,
                                  Append(string, Char(hex(t[m]) * 16 + hex(t[m + 1]))))
    BY DEF Adds
  <2> DEFINE old == SubSeq(t, k, m)
  <2>1. /\ old \in Seq(Int) /\ t[m + 1] \in Int /\ Len(old) = m - k + 1
        /\ SubSeq(t, k, m + 1) = Append(old, t[m + 1])
        /\ \A i \in 1 .. m - k + 1 : old[i] = t[k + i - 1]
    BY <1>1
  <2>2. PutTogether(old, 2, string)
    OBVIOUS
  <2> HIDE DEF old
  <2>3. 2 > 0 /\ 2 <= Len(old)
    BY <2>2 DEF PutTogether, Escape
  <2>4. old[Len(old)] = t[m]
    <3>1. PICK i \in 1 .. m - k + 1 : i = Len(old)
      BY <2>1, <2>3
    <3>2. old[i] = t[k + i - 1] /\ k + i - 1 = m
      BY <2>1, <3>1
    <3> QED
      BY <3>1, <3>2
  <2>5. PutTogether(Append(old, t[m + 1]), 0,
                    Append(string, Char(hex(old[Len(old)]) * 16 + hex(t[m + 1]))))
    BY <1>5, <2>1, <2>2, PutSecond
  <2> QED
    BY <2>1, <2>4, <2>5
<1> QED
  BY <1>2, <1>3, <1>4, <1>5

LEMMA AttributeGrows ==
    ASSUME NEW t \in Seq(Int), NEW m \in 0 .. Len(t) - 1, NEW k \in 1 .. m + 1, NEW table,
           Reading(t, k, m, table), NEW j, NEW string, InAttribute(t, k, m, j, string),
           t[m + 1] # EQUAL, NEW i, NEW longer, Adds(t, m, j, string, i, longer)
    PROVE  Reading(t, k, m + 1, table) /\ InAttribute(t, k, m + 1, i, longer)
<1>1. \A l \in k .. m : t[l] # EQUAL
  BY DEF InAttribute
<1>2. Reading(t, k, m + 1, table)
  BY <1>1, ReadingAttribute
<1>3. PutTogether(SubSeq(t, k, m + 1), i, longer)
  BY DEF InAttribute, Adds
<1>4. \A l \in k .. m + 1 : l \in k .. m \/ l = m + 1
  OBVIOUS
<1>5. \A l \in k .. m + 1 : t[l] # EQUAL
  BY <1>1, <1>4
<1> QED
  BY <1>2, <1>3, <1>5 DEF InAttribute

LEMMA ValueGrows ==
    ASSUME NEW t \in Seq(Int), NEW m \in 0 .. Len(t) - 1, NEW k \in 1 .. m + 1, NEW table,
           Reading(t, k, m, table), NEW j, NEW first, NEW second,
           InValue(t, k, m, j, first, second), t[m + 1] \notin Separators,
           NEW i, NEW longer, Adds(t, m, j, second, i, longer)
    PROVE  Reading(t, k, m + 1, table) /\ InValue(t, k, m + 1, i, first, longer)
<1>1. Reading(t, k, m + 1, table)
  <2>1. ~EndsPair(t, m + 1)
    BY DEF EndsPair
  <2> QED
    BY <2>1, ReadingGoesOn
<1>2. PICK e : /\ e \in k + 1 .. m /\ Cut(t, k, m, e)
               /\ PutTogether(SubSeq(t, k, e - 1), 0, first)
               /\ PutTogether(SubSeq(t, e + 1, m), j, second)
  BY DEF InValue
<1>3. e \in k + 1 .. m + 1 /\ e + 1 \in 1 .. m + 1
      /\ \A l \in e + 1 .. m + 1 : l \in e + 1 .. m \/ l = m + 1
  BY <1>2
<1>4. PutTogether(SubSeq(t, e + 1, m + 1), i, longer)
  BY <1>2, <1>3 DEF Adds
<1>5. Cut(t, k, m + 1, e)
  BY <1>2, <1>3 DEF Cut
<1> QED
  BY <1>1, <1>2, <1>3, <1>4, <1>5 DEF InValue

\* What the first m characters of t have made of the state of the parser.
HasRead(t, m, state, first, second, digit, table) ==
    /\ \E k \in 1 .. m + 1 :
          /\ Reading(t, k, m, table)
          /\ \/ state \in {1, 2, 3} /\ second = <<>> /\ InAttribute(t, k, m, state - 1, first)
             \/ state \in {11, 12, 13} /\ InValue(t, k, m, state - 11, first, second)
    /\ state \in {3, 13} => digit = hex(t[m])

\* The character that the parser gives up at.
Wrong(state, first, x) ==
    \/ state = 1 /\ x = EQUAL /\ first = <<>>
    \/ state \in {2, 3, 12, 13} /\ ~IsHex(x)

LEMMA NothingPut == PutTogether(<<>>, 0, <<>>)
BY DecodedNothing DEF PutTogether, Escape

LEMMA ReadNothing ==
    ASSUME NEW t \in Seq(Int), NEW digit PROVE HasRead(t, 0, 1, <<>>, <<>>, digit, <<>>)
<1>1. \A n \in Nat : Before(t, n, 1) = {}
  <2>1. ASSUME NEW n \in Nat, NEW j \in Starts(t, n) PROVE ~(j < 1)
    <3>1. j = 1 \/ j \in 2 .. n + 1
      BY StartsAre
    <3> QED
      BY <3>1
  <2> QED
    BY <2>1 DEF Before
<1>2. \A n : Table(t, n, {}) = <<>>
  BY DEF Table
<1>3. 1 \in Starts(t, 0) /\ \A j \in Starts(t, 0) : j <= 1
  <2>1. \A j : j \in Starts(t, 0) <=> j = 1 \/ (j \in 2 .. 0 + 1 /\ EndsPair(t, j - 1))
    BY StartsAre
  <2>2. 2 .. 0 + 1 = {}
    OBVIOUS
  <2> QED
    BY <2>1, <2>2
<1>4. Reading(t, 1, 0, <<>>)
  <2>1. ASSUME NEW n \in 0 .. Len(t)
        PROVE  <<>> = Table(t, n, Before(t, n, 1)) /\ \A j \in Before(t, n, 1) : Good(t, n, j)
    <3>1. n \in Nat
      OBVIOUS
    <3>2. Before(t, n, 1) = {}
      BY <1>1, <3>1
    <3> QED
      BY <1>2, <3>2
  <2> QED
    BY <1>3, <2>1 DEF Reading
<1>5. InAttribute(t, 1, 0, 0, <<>>)
  <2>1. SubSeq(t, 1, 0) = <<>>
    OBVIOUS
  <2>2. \A i \in 1 .. 0 : t[i] # EQUAL
    OBVIOUS
  <2> QED
    BY <2>1, <2>2, NothingPut DEF InAttribute
<1>6. 1 \in 1 .. 0 + 1 /\ 1 - 1 = 0
  OBVIOUS
<1> QED
  BY <1>4, <1>5, <1>6 DEF HasRead

\* What the first m + 1 characters have made of it, if they are read.
LEMMA ReadEqual ==
    ASSUME NEW t \in Seq(Int), NEW m \in 0 .. Len(t) - 1, NEW first, NEW second, NEW digit,
           NEW table, HasRead(t, m, 1, first, second, digit, table),
           t[m + 1] = EQUAL, first # <<>>
    PROVE  HasRead(t, m + 1, 11, first, second, digit, table)
<1>1. PICK k \in 1 .. m + 1 :
         Reading(t, k, m, table) /\ second = <<>> /\ InAttribute(t, k, m, 0, first)
  BY DEF HasRead
<1>2. (\A i \in k .. m : t[i] # EQUAL) /\ PutTogether(SubSeq(t, k, m), 0, first)
  BY <1>1 DEF InAttribute
<1>3. Reading(t, k, m + 1, table)
  BY <1>1, <1>2, ReadingAttribute
<1>4. k # m + 1
  <2>1. m \in 0 .. Len(t)
    OBVIOUS
  <2>2. SubSeq(t, k, m) = <<>> <=> k = m + 1
    BY <2>1, SegmentGrows
  <2>3. SubSeq(t, k, m) # <<>>
    BY <1>2 DEF PutTogether
  <2> QED
    BY <2>2, <2>3
<1> DEFINE e == m + 1
<1>5. /\ e \in k + 1 .. m + 1 /\ e - 1 = m /\ k \in 1 .. (m + 1) + 1
      /\ \A i \in e + 1 .. m + 1 : FALSE
  BY <1>4
<1>6. Cut(t, k, m + 1, e)
  BY <1>2, <1>5 DEF Cut
<1>7. SubSeq(t, e + 1, m + 1) = <<>>
  <2>1. m + 1 \in 0 .. Len(t) /\ e + 1 \in 1 .. (m + 1) + 1 /\ e + 1 = (m + 1) + 1
    OBVIOUS
  <2> QED
    BY <2>1, SegmentGrows
<1>8. InValue(t, k, m + 1, 0, first, second)
  <2>1. PutTogether(SubSeq(t, e + 1, m + 1), 0, second)
    BY <1>1, <1>7, NothingPut
  <2>2. PutTogether(SubSeq(t, k, e - 1), 0, first)
    BY <1>2, <1>5
  <2> HIDE DEF e
  <2> QED
    BY <1>5, <1>6, <2>1, <2>2 DEF InValue
<1> QED
  BY <1>3, <1>5, <1>8 DEF HasRead

LEMMA ReadSeparator ==
    ASSUME NEW t \in Seq(Int), NEW m \in 0 .. Len(t) - 1, NEW first, NEW second, NEW digit,
           NEW table, HasRead(t, m, 11, first, second, digit, table),
           t[m + 1] \in Separators
    PROVE  HasRead(t, m + 1, 1, <<>>, <<>>, digit, Put(table, CText(first), CText(second)))
<1>1. PICK k \in 1 .. m + 1 : Reading(t, k, m, table) /\ InValue(t, k, m, 0, first, second)
  BY DEF HasRead
<1>2. Reading(t, m + 2, m + 1, Put(table, CText(first), CText(second)))
  BY <1>1, ReadingEnds
<1>3. SubSeq(t, m + 2, m + 1) = <<>>
  <2>1. m + 1 \in 0 .. Len(t) /\ m + 2 \in 1 .. (m + 1) + 1 /\ m + 2 = (m + 1) + 1
    OBVIOUS
  <2> QED
    BY <2>1, SegmentGrows
<1>4. InAttribute(t, m + 2, m + 1, 0, <<>>)
  <2>1. \A i \in m + 2 .. m + 1 : FALSE
    OBVIOUS
  <2> QED
    BY <1>3, <2>1, NothingPut DEF InAttribute
<1>5. m + 2 \in 1 .. (m + 1) + 1 /\ 1 - 1 = 0
  OBVIOUS
<1> QED
  BY <1>2, <1>4, <1>5 DEF HasRead

LEMMA ReadInAttribute ==
    ASSUME NEW t \in Seq(Int), NEW m \in 0 .. Len(t) - 1, NEW first, NEW second, NEW digit,
           NEW table, NEW state \in {1, 2, 3}, HasRead(t, m, state, first, second, digit, table),
           t[m + 1] # EQUAL, NEW next \in {1, 2, 3}, NEW longer,
           Adds(t, m, state - 1, first, next - 1, longer),
           NEW x, next = 3 => x = hex(t[m + 1])
    PROVE  HasRead(t, m + 1, next, longer, second, x, table)
<1>1. PICK k \in 1 .. m + 1 :
         Reading(t, k, m, table) /\ second = <<>> /\ InAttribute(t, k, m, state - 1, first)
  BY DEF HasRead
<1>2. Reading(t, k, m + 1, table) /\ InAttribute(t, k, m + 1, next - 1, longer)
  BY <1>1, AttributeGrows
<1>3. k \in 1 .. (m + 1) + 1
  OBVIOUS
<1> QED
  BY <1>1, <1>2, <1>3 DEF HasRead

LEMMA ReadInValue ==
    ASSUME NEW t \in Seq(Int), NEW m \in 0 .. Len(t) - 1, NEW first, NEW second, NEW digit,
           NEW table, NEW state \in {11, 12, 13},
           HasRead(t, m, state, first, second, digit, table),
           t[m + 1] \notin Separators, NEW next \in {11, 12, 13}, NEW longer,
           Adds(t, m, state - 11, second, next - 11, longer),
           NEW x, next = 13 => x = hex(t[m + 1])
    PROVE  HasRead(t, m + 1, next, first, longer, x, table)
<1>1. PICK k \in 1 .. m + 1 :
         Reading(t, k, m, table) /\ InValue(t, k, m, state - 11, first, second)
  BY DEF HasRead
<1>2. Reading(t, k, m + 1, table) /\ InValue(t, k, m + 1, next - 11, first, longer)
  BY <1>1, ValueGrows
<1>3. k \in 1 .. (m + 1) + 1
  OBVIOUS
<1> QED
  BY <1>1, <1>2, <1>3 DEF HasRead

\* Where the parser ends.
LEMMA ReadEnds ==
    ASSUME NEW t \in Seq(Int), NEW m \in 0 .. Len(t), NEW state, NEW first, NEW second,
           NEW digit, NEW table, HasRead(t, m, state, first, second, digit, table)
    PROVE  Meaning(t, m) = IF state = 11 THEN Put(table, CText(first), CText(second))
                           ELSE table
<1>1. PICK k \in 1 .. m + 1 :
         /\ Reading(t, k, m, table)
         /\ \/ state \in {1, 2, 3} /\ InAttribute(t, k, m, state - 1, first)
            \/ state \in {11, 12, 13} /\ InValue(t, k, m, state - 11, first, second)
  BY DEF HasRead
<1>2. m \in Nat /\ m \in m .. Len(t) /\ ~(m > m)
  OBVIOUS
<1>3. /\ k \in Starts(t, m) /\ \A j \in Starts(t, m) : j <= k
      /\ table = Table(t, m, Before(t, m, k))
      /\ \A j \in Before(t, m, k) : Good(t, m, j)
  BY <1>1, <1>2 DEF Reading
<1>4. CASE state \in {1, 2, 3} /\ InAttribute(t, k, m, state - 1, first)
  <2>1. state - 1 \in {0, 1, 2} /\ state # 11
    BY <1>4
  <2>2. ~Good(t, m, k)
    BY <1>2, <1>4, <2>1, AttributeBad
  <2> QED
    BY <1>2, <1>3, <2>1, <2>2, MeaningBad
<1>5. CASE state \in {12, 13} /\ InValue(t, k, m, state - 11, first, second)
  <2>1. state - 11 \in {1, 2} /\ state # 11
    BY <1>5
  <2>2. ~Good(t, m, k)
    BY <1>2, <1>5, <2>1, ValueBad
  <2> QED
    BY <1>2, <1>3, <2>1, <2>2, MeaningBad
<1>6. CASE state = 11 /\ InValue(t, k, m, state - 11, first, second)
  <2>1. InValue(t, k, m, 0, first, second)
    BY <1>6
  <2>2. /\ Good(t, m, k) /\ Name(t, m, k) = CText(first)
        /\ CText(Decoded(Value(t, m, k))) = CText(second)
    BY <1>2, <2>1, ValueGood
  <2>3. Meaning(t, m) = Put(Table(t, m, Before(t, m, k)), Name(t, m, k),
                            CText(Decoded(Value(t, m, k))))
    BY <1>2, <1>3, <2>2, MeaningGood
  <2> QED
    BY <1>3, <1>6, <2>2, <2>3
<1> QED
  BY <1>1, <1>4, <1>5, <1>6

\* Nothing that stands behind a character that the parser gives up at is read.
LEMMA ReadWrong ==
    ASSUME NEW t \in Seq(Int), NEW m \in 0 .. Len(t) - 1, NEW state, NEW first, NEW second,
           NEW digit, NEW table, HasRead(t, m, state, first, second, digit, table),
           Wrong(state, first, t[m + 1]), NEW n \in m + 1 .. Len(t)
    PROVE  Meaning(t, n) = table
<1>1. PICK k \in 1 .. m + 1 :
         /\ Reading(t, k, m, table)
         /\ \/ state \in {1, 2, 3} /\ InAttribute(t, k, m, state - 1, first)
            \/ state \in {11, 12, 13} /\ InValue(t, k, m, state - 11, first, second)
  BY DEF HasRead
<1>2. n \in Nat /\ m \in Nat /\ n \in m .. Len(t) /\ n > m /\ m \in 0 .. Len(t)
  OBVIOUS
<1>3. /\ k \in Starts(t, m)
      /\ table = Table(t, n, Before(t, n, k))
      /\ \A j \in Before(t, n, k) : Good(t, n, j)
  BY <1>1, <1>2 DEF Reading
<1>4. k \in Starts(t, n)
  <2>1. k = 1 \/ (k \in 2 .. m + 1 /\ EndsPair(t, k - 1))
    BY <1>2, <1>3, StartsAre
  <2>2. k \in 2 .. m + 1 => k \in 2 .. n + 1
    BY <1>2
  <2> QED
    BY <1>2, <2>1, <2>2, StartsAre
<1>5. ~Good(t, n, k)
  <2>1. CASE state = 1 /\ InAttribute(t, k, m, state - 1, first)
    <3>1. InAttribute(t, k, m, 0, first) /\ t[m + 1] = EQUAL /\ first = <<>>
      BY <2>1 DEF Wrong
    <3> QED
      BY <1>2, <3>1, AttributeBad
  <2>2. CASE state \in {2, 3} /\ InAttribute(t, k, m, state - 1, first)
    <3>1. state - 1 \in {0, 1, 2} /\ state - 1 # 0 /\ ~IsHex(t[m + 1])
      BY <2>2 DEF Wrong
    <3> QED
      BY <1>2, <2>2, <3>1, AttributeBad
  <2>3. CASE state \in {12, 13} /\ InValue(t, k, m, state - 11, first, second)
    <3>1. state - 11 \in {1, 2} /\ ~IsHex(t[m + 1])
      BY <2>3 DEF Wrong
    <3> QED
      BY <1>2, <2>3, <3>1, ValueBad
  <2>4. state # 11
    BY DEF Wrong
  <2> QED
    BY <1>1, <2>1, <2>2, <2>3, <2>4
<1> QED
  BY <1>2, <1>3, <1>4, <1>5, MeaningBad

\* What is put together is read up to the character at pos, or up to the one before it
\* if that is where the parser gave up, or including it if next failed behind it.
Going ==
    /\ s > 0
    /\ HasRead(text, pos - 1, s, attribute, value, encoded, pairs)
    /\ failed => pos <= Len(text) /\ Wrong(s, attribute, text[pos])

Cutoff ==
    /\ s < 0 /\ failed /\ pos <= Len(text)
    /\ HasRead(text, pos, -s, attribute, value, encoded, pairs)

GivenUp ==
    /\ s < 0 /\ pos > 1
    /\ HasRead(text, pos - 2, -s, attribute, value, encoded, pairs)
    /\ Wrong(-s, attribute, text[pos - 1])

ParserInv ==
    /\ text \in Seq(Int)
    /\ s \in Int
    /\ pos \in 1 .. Len(text) + 1
    /\ ended => QueryMeaning
    /\ ~ended => Going \/ Cutoff \/ GivenUp

\* Inside the loop the parser has not given up, and a failure of next was the answer to
\* the character it gives up at.
LEMMA InTheLoop ==
    ASSUME ParserInv, Looping
    PROVE  /\ text \in Seq(Int) /\ pos \in 1 .. Len(text) /\ pos - 1 \in 0 .. Len(text) - 1
           /\ (pos - 1) + 1 = pos /\ text[pos] \in Int
           /\ s > 0 /\ s \in Int
           /\ HasRead(text, pos - 1, s, attribute, value, encoded, pairs)
           /\ ~Wrong(s, attribute, char) => ~failed
<1>1. text \in Seq(Int) /\ s \in Int /\ pos \in 1 .. Len(text) + 1 /\ (Going \/ Cutoff \/ GivenUp)
  BY DEF ParserInv, Looping
<1>2. pos <= Len(text) /\ s > 0
  BY DEF Looping
<1>3. pos \in 1 .. Len(text) /\ text[pos] \in Int
  BY <1>1, <1>2
<1>4. ~(s < 0)
  BY <1>1, <1>2
<1>5. Going
  BY <1>1, <1>4 DEF Cutoff, GivenUp
<1> QED
  BY <1>1, <1>2, <1>3, <1>5 DEF Going, char

LEMMA GoesOn ==
    ASSUME ParserInv, NEW state \in {1, 2, 3, 11, 12, 13}, Advance(state),
           ~Wrong(s, attribute, char),
           HasRead(text, pos, state, attribute', value', encoded', pairs')
    PROVE  ParserInv'
<1>1. Looping /\ text' = text /\ ended' = ended /\ ~ended
  BY DEF Advance, Looping
<1>2. text \in Seq(Int) /\ pos \in 1 .. Len(text) /\ ~failed
  BY <1>1, InTheLoop
<1>3. CASE pos' = pos + 1 /\ s' = state /\ failed' = failed
  <2>1. pos' - 1 = pos /\ s' > 0 /\ s' \in Int /\ pos' \in 1 .. Len(text) + 1
    BY <1>2, <1>3
  <2>2. Going'
    BY <1>1, <1>2, <1>3, <2>1 DEF Going
  <2> QED
    BY <1>1, <1>2, <2>1, <2>2 DEF ParserInv
<1>4. CASE failed' = TRUE /\ s' = -state /\ pos' = pos
  <2>1. s' < 0 /\ s' \in Int /\ -s' = state /\ pos' \in 1 .. Len(text) + 1 /\ pos' <= Len(text)
    BY <1>2, <1>4
  <2>2. Cutoff'
    BY <1>1, <1>4, <2>1 DEF Cutoff
  <2> QED
    BY <1>1, <1>2, <2>1, <2>2 DEF ParserInv
<1> QED
  BY <1>3, <1>4 DEF Advance

LEMMA GivesUp ==
    ASSUME ParserInv, Advance(-s), Wrong(s, attribute, char), attribute' = attribute,
           value' = value, encoded' = encoded, pairs' = pairs
    PROVE  ParserInv'
<1>1. Looping /\ text' = text /\ ended' = ended /\ ~ended
  BY DEF Advance, Looping
<1>2. /\ text \in Seq(Int) /\ pos \in 1 .. Len(text) /\ s > 0 /\ s \in Int
      /\ HasRead(text, pos - 1, s, attribute, value, encoded, pairs)
  BY <1>1, InTheLoop
<1>3. CASE pos' = pos + 1 /\ s' = -s
  <2>1. /\ pos' - 2 = pos - 1 /\ pos' - 1 = pos /\ s' < 0 /\ s' \in Int /\ -s' = s
        /\ pos' > 1 /\ pos' \in 1 .. Len(text) + 1
    BY <1>2, <1>3
  <2>2. GivenUp'
    BY <1>1, <1>2, <2>1 DEF GivenUp, char
  <2> QED
    BY <1>1, <1>2, <2>1, <2>2 DEF ParserInv
<1>4. CASE s' = -(-s) /\ pos' = pos
  <2>1. s' = s /\ pos' <= Len(text) /\ pos' \in 1 .. Len(text) + 1
    BY <1>2, <1>4
  <2>2. Going'
    BY <1>1, <1>2, <1>4, <2>1 DEF Going, char
  <2> QED
    BY <1>1, <1>2, <2>1, <2>2 DEF ParserInv
<1> QED
  BY <1>3, <1>4 DEF Advance

\* The loop's cases.
LEMMA EqualStep == ASSUME ParserInv, Looping, case_equal PROVE ParserInv'
<1>1. /\ text \in Seq(Int) /\ pos - 1 \in 0 .. Len(text) - 1 /\ (pos - 1) + 1 = pos
      /\ HasRead(text, pos - 1, s, attribute, value, encoded, pairs)
  BY InTheLoop
<1>2. /\ s = 1 /\ char = EQUAL /\ UNCHANGED <<attribute, value, encoded, pairs>>
      /\ Advance(IF attribute = <<>> THEN -1 ELSE 11)
  BY DEF case_equal
<1>3. CASE attribute = <<>>
  <2>1. Wrong(s, attribute, char) /\ Advance(-s)
    BY <1>2, <1>3 DEF Wrong
  <2> QED
    BY <1>2, <2>1, GivesUp
<1>4. CASE attribute # <<>>
  <2>1. ~Wrong(s, attribute, char) /\ Advance(11)
    BY <1>2, <1>4 DEF Wrong
  <2>2. HasRead(text, (pos - 1) + 1, 11, attribute, value, encoded, pairs)
    BY <1>1, <1>2, <1>4, ReadEqual DEF char
  <2>3. HasRead(text, pos, 11, attribute', value', encoded', pairs')
    BY <1>1, <1>2, <2>2
  <2> QED
    BY <2>1, <2>3, GoesOn
<1> QED
  BY <1>3, <1>4

LEMMA SeparatorStep == ASSUME ParserInv, Looping, case_separator PROVE ParserInv'
<1>1. /\ text \in Seq(Int) /\ pos - 1 \in 0 .. Len(text) - 1 /\ (pos - 1) + 1 = pos
      /\ HasRead(text, pos - 1, s, attribute, value, encoded, pairs)
  BY InTheLoop
<1>2. /\ s = 11 /\ char \in Separators /\ Advance(1) /\ attribute' = <<>> /\ value' = <<>>
      /\ encoded' = encoded /\ pairs' = Put(pairs, CText(attribute), CText(value))
  BY DEF case_separator, Set, Separators
<1>3. ~Wrong(s, attribute, char)
  BY <1>2 DEF Wrong
<1>4. HasRead(text, (pos - 1) + 1, 1, <<>>, <<>>, encoded,
             Put(pairs, CText(attribute), CText(value)))
  BY <1>1, <1>2, ReadSeparator DEF char
<1>5. HasRead(text, pos, 1, attribute', value', encoded', pairs')
  BY <1>1, <1>2, <1>4
<1> QED
  BY <1>2, <1>3, <1>5, GoesOn

LEMMA PercentStep == ASSUME ParserInv, Looping, case_percent PROVE ParserInv'
<1>1. /\ text \in Seq(Int) /\ pos - 1 \in 0 .. Len(text) - 1 /\ (pos - 1) + 1 = pos
      /\ HasRead(text, pos - 1, s, attribute, value, encoded, pairs)
  BY InTheLoop
<1>2. /\ s \in {1, 11} /\ char = PERCENT /\ Advance(s + 1) /\ encoded' = 0
      /\ UNCHANGED <<attribute, value, pairs>>
  BY DEF case_percent
<1>3. char # EQUAL /\ char \notin Separators /\ text[(pos - 1) + 1] = char
  BY <1>1, <1>2 DEF PERCENT, EQUAL, Separators, AMP, LF, char
<1>4. ~Wrong(s, attribute, char)
  BY <1>2, <1>3 DEF Wrong
<1>5. \A string : Adds(text, pos - 1, 0, string, 1, string)
  BY <1>1, <1>2, <1>3, Adding
<1>6. CASE s = 1
  <2>1. Adds(text, pos - 1, s - 1, attribute, 2 - 1, attribute)
    BY <1>5, <1>6
  <2>2. HasRead(text, (pos - 1) + 1, 2, attribute, value, encoded', pairs)
    BY <1>1, <1>3, <1>6, <2>1, ReadInAttribute
  <2>3. HasRead(text, pos, 2, attribute', value', encoded', pairs')
    BY <1>1, <1>2, <2>2
  <2> QED
    BY <1>2, <1>4, <1>6, <2>3, GoesOn
<1>7. CASE s = 11
  <2>1. Adds(text, pos - 1, s - 11, value, 12 - 11, value)
    BY <1>5, <1>7
  <2>2. HasRead(text, (pos - 1) + 1, 12, attribute, value, encoded', pairs)
    BY <1>1, <1>3, <1>7, <2>1, ReadInValue
  <2>3. HasRead(text, pos, 12, attribute', value', encoded', pairs')
    BY <1>1, <1>2, <2>2
  <2> QED
    BY <1>2, <1>4, <1>7, <2>3, GoesOn
<1> QED
  BY <1>2, <1>6, <1>7

LEMMA PlainStep == ASSUME ParserInv, Looping, case_plain PROVE ParserInv'
<1>1. /\ text \in Seq(Int) /\ pos - 1 \in 0 .. Len(text) - 1 /\ (pos - 1) + 1 = pos
      /\ HasRead(text, pos - 1, s, attribute, value, encoded, pairs)
  BY InTheLoop
<1>2. /\ Advance(s) /\ PutChar(Spaced(char)) /\ UNCHANGED <<encoded, pairs>>
      /\ char # PERCENT /\ s \in {1, 11}
      /\ s = 1 => char # EQUAL
      /\ s = 11 => char \notin Separators
  BY DEF case_plain, Spaced, Separators
<1>3. text[(pos - 1) + 1] = char
  BY <1>1 DEF char
<1>4. ~Wrong(s, attribute, char)
  BY <1>2 DEF Wrong
<1>5. \A string : Adds(text, pos - 1, 0, string, 0, Append(string, Spaced(char)))
  BY <1>1, <1>2, <1>3, Adding
<1>6. CASE s = 1
  <2>1. attribute' = Append(attribute, Spaced(char)) /\ value' = value
    BY <1>2, <1>6 DEF PutChar
  <2>2. Adds(text, pos - 1, s - 1, attribute, 1 - 1, attribute')
    BY <1>5, <1>6, <2>1
  <2>3. HasRead(text, (pos - 1) + 1, 1, attribute', value, encoded, pairs)
    BY <1>1, <1>2, <1>3, <1>6, <2>2, ReadInAttribute
  <2>4. HasRead(text, pos, 1, attribute', value', encoded', pairs')
    BY <1>1, <1>2, <2>1, <2>3
  <2> QED
    BY <1>2, <1>4, <1>6, <2>4, GoesOn
<1>7. CASE s = 11
  <2>1. value' = Append(value, Spaced(char)) /\ attribute' = attribute
    BY <1>2, <1>7 DEF PutChar
  <2>2. Adds(text, pos - 1, s - 11, value, 11 - 11, value')
    BY <1>5, <1>7, <2>1
  <2>3. HasRead(text, (pos - 1) + 1, 11, attribute, value', encoded, pairs)
    BY <1>1, <1>2, <1>3, <1>7, <2>2, ReadInValue
  <2>4. HasRead(text, pos, 11, attribute', value', encoded', pairs')
    BY <1>1, <1>2, <2>1, <2>3
  <2> QED
    BY <1>2, <1>4, <1>7, <2>4, GoesOn
<1> QED
  BY <1>2, <1>6, <1>7

LEMMA FirstHexStep == ASSUME ParserInv, Looping, case_first_hex PROVE ParserInv'
<1>1. /\ text \in Seq(Int) /\ pos - 1 \in 0 .. Len(text) - 1 /\ (pos - 1) + 1 = pos
      /\ HasRead(text, pos - 1, s, attribute, value, encoded, pairs)
  BY InTheLoop
<1>2. s \in {2, 12} /\ UNCHANGED <<attribute, value, pairs>>
  BY DEF case_first_hex
<1>3. CASE ~IsHex(char)
  <2>1. Wrong(s, attribute, char) /\ Advance(-s) /\ encoded' = encoded
    BY <1>2, <1>3 DEF Wrong, case_first_hex
  <2> QED
    BY <1>2, <2>1, GivesUp
<1>4. CASE IsHex(char)
  <2>1. Advance(s + 1) /\ encoded' = hex(char)
    BY <1>4 DEF case_first_hex
  <2>2. char # EQUAL /\ char \notin Separators /\ text[(pos - 1) + 1] = char
    BY <1>1, <1>4, HexIsPlain DEF char
  <2>3. ~Wrong(s, attribute, char)
    BY <1>2, <1>4 DEF Wrong
  <2>4. \A string : Adds(text, pos - 1, 1, string, 2, string)
    BY <1>1, <1>4, <2>2, Adding
  <2>5. CASE s = 2
    <3>1. Adds(text, pos - 1, s - 1, attribute, 3 - 1, attribute)
      BY <2>4, <2>5
    <3>2. HasRead(text, (pos - 1) + 1, 3, attribute, value, encoded', pairs)
      BY <1>1, <2>1, <2>2, <2>5, <3>1, ReadInAttribute
    <3>3. HasRead(text, pos, 3, attribute', value', encoded', pairs')
      BY <1>1, <1>2, <3>2
    <3> QED
      BY <2>1, <2>3, <2>5, <3>3, GoesOn
  <2>6. CASE s = 12
    <3>1. Adds(text, pos - 1, s - 11, value, 13 - 11, value)
      BY <2>4, <2>6
    <3>2. HasRead(text, (pos - 1) + 1, 13, attribute, value, encoded', pairs)
      BY <1>1, <2>1, <2>2, <2>6, <3>1, ReadInValue
    <3>3. HasRead(text, pos, 13, attribute', value', encoded', pairs')
      BY <1>1, <1>2, <3>2
    <3> QED
      BY <2>1, <2>3, <2>6, <3>3, GoesOn
  <2> QED
    BY <1>2, <2>5, <2>6
<1> QED
  BY <1>3, <1>4

LEMMA SecondHexStep == ASSUME ParserInv, Looping, case_second_hex PROVE ParserInv'
<1>1. /\ text \in Seq(Int) /\ pos - 1 \in 0 .. Len(text) - 1 /\ (pos - 1) + 1 = pos
      /\ HasRead(text, pos - 1, s, attribute, value, encoded, pairs)
  BY InTheLoop
<1>2. s \in {3, 13} /\ UNCHANGED <<encoded, pairs>>
  BY DEF case_second_hex
<1>3. CASE ~IsHex(char)
  <2>1. Wrong(s, attribute, char) /\ Advance(-s) /\ UNCHANGED <<attribute, value>>
    BY <1>2, <1>3 DEF Wrong, case_second_hex
  <2> QED
    BY <1>2, <2>1, GivesUp
<1>4. CASE IsHex(char)
  <2> DEFINE x == Char(encoded * 16 + hex(char))
  <2>1. Advance(s - 2) /\ PutChar(x)
    BY <1>4 DEF case_second_hex
  <2>2. char # EQUAL /\ char \notin Separators /\ text[(pos - 1) + 1] = char
    BY <1>1, <1>4, HexIsPlain DEF char
  <2>3. ~Wrong(s, attribute, char)
    BY <1>2, <1>4 DEF Wrong
  <2>4. encoded = hex(text[pos - 1])
    BY <1>1, <1>2 DEF HasRead
  <2>5. \A string : Adds(text, pos - 1, 2, string, 0, Append(string, x))
    BY <1>1, <1>4, <2>2, <2>4, Adding
  <2> HIDE DEF x
  <2>6. CASE s = 3
    <3>1. attribute' = Append(attribute, x) /\ value' = value
      BY <2>1, <2>6 DEF PutChar
    <3>2. Adds(text, pos - 1, s - 1, attribute, 1 - 1, attribute')
      BY <2>5, <2>6, <3>1
    <3>3. HasRead(text, (pos - 1) + 1, 1, attribute', value, encoded, pairs)
      BY <1>1, <2>2, <2>6, <3>2, ReadInAttribute
    <3>4. HasRead(text, pos, 1, attribute', value', encoded', pairs')
      BY <1>1, <1>2, <3>1, <3>3
    <3> QED
      BY <2>1, <2>3, <2>6, <3>4, GoesOn
  <2>7. CASE s = 13
    <3>1. value' = Append(value, x) /\ attribute' = attribute
      BY <2>1, <2>7 DEF PutChar
    <3>2. Adds(text, pos - 1, s - 11, value, 11 - 11, value')
      BY <2>5, <2>7, <3>1
    <3>3. HasRead(text, (pos - 1) + 1, 11, attribute, value', encoded, pairs)
      <4>1. HasRead(text, pos - 1, 13, attribute, value, encoded, pairs)
        BY <1>1, <2>7
      <4>2. Adds(text, pos - 1, 13 - 11, value, 11 - 11, value')
        BY <2>7, <3>2
      <4>3. text[(pos - 1) + 1] \notin Separators
        BY <2>2
      <4>4. 13 \in {11, 12, 13} /\ 11 \in {11, 12, 13} /\ 11 # 13
        OBVIOUS
      <4> QED
        BY <1>1, <4>1, <4>2, <4>3, <4>4, ReadInValue
    <3>4. HasRead(text, pos, 11, attribute', value', encoded', pairs')
      BY <1>1, <1>2, <3>1, <3>3
    <3> QED
      BY <2>1, <2>3, <2>7, <3>4, GoesOn
  <2> QED
    BY <1>2, <2>6, <2>7
<1> QED
  BY <1>3, <1>4

LEMMA FinishStep == ASSUME ParserInv, finish PROVE ParserInv'
<1> DEFINE n == IF failed THEN Min({pos, Len(text)}) ELSE Len(text)
<1>1. /\ text \in Seq(Int) /\ s \in Int /\ pos \in 1 .. Len(text) + 1
      /\ Going \/ Cutoff \/ GivenUp
  BY DEF ParserInv, finish
<1>2. /\ pairs' = IF s \in {11, -11} THEN Put(pairs, CText(attribute), CText(value)) ELSE pairs
      /\ ended' /\ UNCHANGED <<text, pos, s, failed>>
  BY DEF finish, Set
<1>3. failed => n \in {pos, Len(text)} /\ n <= pos /\ n <= Len(text)
  <2>1. {pos, Len(text)} \in SUBSET Nat /\ {pos, Len(text)} # {}
    BY <1>1
  <2>2. Min({pos, Len(text)}) \in {pos, Len(text)} /\ \A i \in {pos, Len(text)} : Min({pos, Len(text)}) <= i
    BY <2>1, MinIsLeast
  <2> QED
    BY <2>2
<1>4. ~failed => n = Len(text)
  OBVIOUS
<1> HIDE DEF n
<1>5. pairs' = Meaning(text, n)
  <2>1. CASE Going
    <3>1. pos > Len(text) /\ ~failed /\ s > 0
      BY <1>1, <2>1 DEF Going, finish, Looping
    <3>2. pos - 1 = Len(text) /\ n = Len(text) /\ Len(text) \in 0 .. Len(text)
      BY <1>1, <1>4, <3>1
    <3>3. HasRead(text, Len(text), s, attribute, value, encoded, pairs)
      BY <2>1, <3>2 DEF Going
    <3>4. Meaning(text, Len(text)) =
             IF s = 11 THEN Put(pairs, CText(attribute), CText(value)) ELSE pairs
      BY <1>1, <3>2, <3>3, ReadEnds
    <3>5. s \in {11, -11} <=> s = 11
      BY <1>1, <3>1
    <3> QED
      BY <1>2, <3>2, <3>4, <3>5
  <2>2. CASE Cutoff
    <3>1. s < 0 /\ n = pos /\ pos \in 0 .. Len(text)
      BY <1>1, <1>3, <2>2 DEF Cutoff
    <3>2. HasRead(text, pos, -s, attribute, value, encoded, pairs)
      BY <2>2 DEF Cutoff
    <3>3. Meaning(text, pos) =
             IF -s = 11 THEN Put(pairs, CText(attribute), CText(value)) ELSE pairs
      BY <1>1, <3>1, <3>2, ReadEnds
    <3>4. s \in {11, -11} <=> -s = 11
      BY <1>1, <3>1
    <3> QED
      BY <1>2, <3>1, <3>3, <3>4
  <2>3. CASE GivenUp
    <3>1. /\ s < 0 /\ pos - 2 \in 0 .. Len(text) - 1 /\ (pos - 2) + 1 = pos - 1
          /\ n \in (pos - 2) + 1 .. Len(text)
      BY <1>1, <1>3, <1>4, <2>3 DEF GivenUp
    <3>2. /\ HasRead(text, pos - 2, -s, attribute, value, encoded, pairs)
          /\ Wrong(-s, attribute, text[(pos - 2) + 1])
      BY <2>3, <3>1 DEF GivenUp
    <3>3. Meaning(text, n) = pairs
      BY <1>1, <3>1, <3>2, ReadWrong
    <3>4. s \notin {11, -11}
      BY <1>1, <3>1, <3>2 DEF Wrong
    <3> QED
      BY <1>2, <3>3, <3>4
  <2> QED
    BY <1>1, <2>1, <2>2, <2>3
<1>6. QueryMeaning'
  BY <1>2, <1>5 DEF QueryMeaning, n
<1> QED
  BY <1>1, <1>2, <1>6 DEF ParserInv

\* When the parser returns, the table holds what the text means, whatever the text and
\* wherever the stream failed: no pair is lost, invented or read twice.
THEOREM QueryMeaningHolds == ParserSpec => []QueryMeaning
<1>1. ParserInit => ParserInv
  <2> SUFFICES ASSUME ParserInit PROVE ParserInv
    OBVIOUS
  <2>1. /\ text \in Seq(Int) /\ pos = 1 /\ s = 1 /\ attribute = <<>> /\ value = <<>>
        /\ pairs = <<>> /\ failed = FALSE /\ ended = FALSE
    BY InputsAssumption DEF ParserInit
  <2>2. HasRead(text, 0, 1, <<>>, <<>>, encoded, <<>>)
    BY <2>1, ReadNothing
  <2>3. Going
    BY <2>1, <2>2 DEF Going
  <2> QED
    BY <2>1, <2>3 DEF ParserInv
<1>2. ParserInv /\ [ParserNext]_parserVars => ParserInv'
  <2> SUFFICES ASSUME ParserInv, [ParserNext]_parserVars PROVE ParserInv'
    OBVIOUS
  <2>1. CASE Loop
    BY <2>1, EqualStep, SeparatorStep, PercentStep, PlainStep, FirstHexStep, SecondHexStep
       DEF Loop
  <2>2. CASE finish
    BY <2>2, FinishStep
  <2>3. CASE UNCHANGED parserVars
    BY <2>3 DEF ParserInv, Going, Cutoff, GivenUp, QueryMeaning, parserVars
  <2> QED
    BY <2>1, <2>2, <2>3 DEF ParserNext, Returned
<1>3. ParserInv => QueryMeaning
  BY DEF ParserInv, QueryMeaning
<1> QED
  BY <1>1, <1>2, <1>3, PTL DEF ParserSpec

------------------------------------------------------------------------------
\* The body of a response

\* What flush_body has sent of the first n characters of t, of which the lines are sent:
\* a CR waits for the LF that ends its line.
Flushed(t, sent, n) ==
    IF n > 0 /\ t[n] = CR THEN [status |-> 1, out |-> Append(sent[n - 1], CR)]
    ELSE [status |-> 0, out |-> sent[n]]

\* Characters put at the end of a text, one after the other.
LEMMA Appended ==
    ASSUME NEW q \in Seq(Int), NEW x \in Int, NEW y \in Int
    PROVE  q \o <<>> = q /\ q \o <<x>> = Append(q, x) /\ q \o <<x, y>> = Append(Append(q, x), y)
<1> DEFINE l == q \o <<x, y>>
           r == Append(Append(q, x), y)
<1>1. q \o <<>> = q /\ q \o <<x>> = Append(q, x)
  OBVIOUS
<1>2. <<x, y>> \in Seq(Int) /\ Len(<<x, y>>) = 2 /\ <<x, y>>[1] = x /\ <<x, y>>[2] = y
  OBVIOUS
<1>3. l \in Seq(Int) /\ Len(l) = Len(q) + 2
  BY <1>2
<1>4. r \in Seq(Int) /\ Len(r) = Len(q) + 2
  OBVIOUS
<1>5. ASSUME NEW i \in 1 .. Len(q) + 2 PROVE l[i] = r[i]
  <2>1. CASE i <= Len(q)
    BY <1>2, <2>1
  <2>2. CASE i = Len(q) + 1
    BY <1>2, <2>2
  <2>3. CASE i = Len(q) + 2
    BY <1>2, <2>3
  <2> QED
    BY <2>1, <2>2, <2>3
<1> HIDE DEF l, r
<1>6. l = r
  BY <1>3, <1>4, <1>5, SameText
<1> QED
  BY <1>1, <1>6 DEF l, r

\* What body_step does, case by case.
LEMMA BodySteps ==
    ASSUME NEW q, NEW c
    PROVE  /\ body_step([status |-> 0, out |-> q], CR) = [status |-> 1, out |-> Append(q, CR)]
           /\ body_step([status |-> 0, out |-> q], LF) = [status |-> 0, out |-> q \o <<CR, LF>>]
           /\ body_step([status |-> 1, out |-> q], CR) = [status |-> 1, out |-> q \o <<LF, CR>>]
           /\ body_step([status |-> 1, out |-> q], LF) = [status |-> 0, out |-> Append(q, LF)]
           /\ c \notin {CR, LF} =>
                 /\ body_step([status |-> 0, out |-> q], c) = [status |-> 0, out |-> Append(q, c)]
                 /\ body_step([status |-> 1, out |-> q], c) =
                       [status |-> 0, out |-> q \o <<LF, c>>]
<1>1. CR # LF
  BY DEF CR, LF
<1> DEFINE ready == [status |-> 0, out |-> q]
           half == [status |-> 1, out |-> q]
<1>2. ready.status = 0 /\ ready.out = q /\ half.status = 1 /\ half.out = q
  OBVIOUS
<1>3. \A y : /\ [ready EXCEPT !.out = y] = [status |-> 0, out |-> y]
             /\ [half EXCEPT !.out = y] = [status |-> 1, out |-> y]
  OBVIOUS
<1> HIDE DEF ready, half
<1>4. /\ body_step(ready, CR) = [status |-> 1, out |-> Append(q, CR)]
      /\ body_step(half, LF) = [status |-> 0, out |-> Append(q, LF)]
  BY <1>1, <1>2 DEF body_step
<1>5. body_step(ready, LF) = [status |-> 0, out |-> q \o <<CR, LF>>]
  <2>1. body_step(ready, LF) = [ready EXCEPT !.out = @ \o <<CR, LF>>]
    BY <1>1, <1>2 DEF body_step
  <2> QED
    BY <1>2, <1>3, <2>1
<1>6. body_step(half, CR) = [status |-> 1, out |-> q \o <<LF, CR>>]
  <2>1. body_step(half, CR) = [half EXCEPT !.out = @ \o <<LF, CR>>]
    BY <1>1, <1>2 DEF body_step
  <2> QED
    BY <1>2, <1>3, <2>1
<1>7. ASSUME c \notin {CR, LF}
      PROVE  /\ body_step(ready, c) = [status |-> 0, out |-> Append(q, c)]
             /\ body_step(half, c) = [status |-> 0, out |-> q \o <<LF, c>>]
  <2>1. body_step(ready, c) = [ready EXCEPT !.out = Append(@, c)]
    BY <1>2, <1>7 DEF body_step
  <2>2. body_step(half, c) = [status |-> 0, out |-> q \o <<LF, c>>]
    BY <1>2, <1>7 DEF body_step
  <2> QED
    BY <1>2, <1>3, <2>1, <2>2
<1> QED
  BY <1>4, <1>5, <1>6, <1>7 DEF ready, half

LEMMA FlushedStep ==
    ASSUME NEW t \in Seq(Int), NEW sent \in [0 .. Len(t) -> Seq(Int)],
           \A n \in 1 .. Len(t) : sent[n] = sent[n - 1] \o Line(t, n),
           NEW n \in 1 .. Len(t)
    PROVE  body_step(Flushed(t, sent, n - 1), t[n]) = Flushed(t, sent, n)
<1> DEFINE old == sent[n - 1]
           c == t[n]
<1>1. /\ n \in Int /\ n > 0 /\ n - 1 \in 0 .. Len(t) /\ n \in 0 .. Len(t)
      /\ old \in Seq(Int) /\ c \in Int /\ sent[n] = old \o Line(t, n)
  <2>1. n \in Int /\ n > 0 /\ n - 1 \in 0 .. Len(t) /\ n \in 0 .. Len(t) /\ c \in Int
    OBVIOUS
  <2>2. old \in Seq(Int) /\ sent[n] = old \o Line(t, n)
    BY <2>1
  <2> QED
    BY <2>1, <2>2
<1>2. CR # LF /\ CR \in Int /\ LF \in Int
  BY DEF CR, LF
<1> HIDE DEF old
<1>3. old \o <<CR, LF>> = Append(Append(old, CR), LF) /\ old \o <<>> = old
      /\ old \o <<c>> = Append(old, c)
  <2>1. old \o <<CR, LF>> = Append(Append(old, CR), LF)
    BY <1>1, <1>2, Appended
  <2>2. old \o <<>> = old /\ old \o <<c>> = Append(old, c)
    BY <1>1, Appended
  <2> QED
    BY <2>1, <2>2
<1>4. CASE n > 1 /\ t[n - 1] = CR
  <2> DEFINE older == sent[n - 2]
  <2>1. n - 1 \in 1 .. Len(t) /\ (n - 1) - 1 = n - 2 /\ n - 2 \in 0 .. Len(t) /\ n - 1 > 0
    BY <1>1, <1>4
  <2>2. older \in Seq(Int) /\ old = older \o Line(t, n - 1)
    BY <2>1 DEF old
  <2>3. Line(t, n - 1) = <<CR, LF>>
    BY <1>2, <1>4 DEF Line
  <2>4. Flushed(t, sent, n - 1) = [status |-> 1, out |-> Append(older, CR)]
    BY <1>4, <2>1 DEF Flushed
  <2> HIDE DEF older
  <2>5. Append(older, CR) \in Seq(Int) /\ old = Append(Append(older, CR), LF)
    <3>1. older \o <<CR, LF>> = Append(Append(older, CR), LF)
      BY <1>2, <2>2, Appended
    <3>2. old = older \o <<CR, LF>>
      BY <2>2, <2>3
    <3>3. Append(older, CR) \in Seq(Int)
      BY <1>2, <2>2
    <3> QED
      BY <3>1, <3>2, <3>3
  <2> DEFINE q == Append(older, CR)
             st == [status |-> 1, out |-> q]
  <2>6. q \in Seq(Int) /\ old = Append(q, LF)
    BY <2>5
  <2> HIDE DEF q
  <2>7. CASE c = CR
    <3>1. body_step(st, CR) = [status |-> 1, out |-> q \o <<LF, CR>>]
      BY BodySteps
    <3>2. q \o <<LF, CR>> = Append(old, CR)
      <4>1. q \o <<LF, CR>> = Append(Append(q, LF), CR)
        BY <1>1, <1>2, <2>6, Appended
      <4> QED
        BY <2>6, <4>1
    <3>3. Flushed(t, sent, n) = [status |-> 1, out |-> Append(old, CR)]
      BY <1>1, <2>7 DEF Flushed, old
    <3> QED
      BY <2>4, <2>7, <3>1, <3>2, <3>3 DEF q
  <2>8. CASE c = LF
    <3>1. body_step(st, LF) = [status |-> 0, out |-> Append(q, LF)]
      BY BodySteps
    <3>2. Line(t, n) = <<>>
      BY <1>4, <2>8 DEF Line
    <3>3. Flushed(t, sent, n) = [status |-> 0, out |-> old]
      BY <1>1, <1>2, <1>3, <2>8, <3>2 DEF Flushed
    <3> QED
      BY <2>4, <2>6, <2>8, <3>1, <3>3 DEF q
  <2>9. CASE c \notin {CR, LF}
    <3>1. body_step(st, c) = [status |-> 0, out |-> q \o <<LF, c>>]
      BY <2>9, BodySteps
    <3>2. q \o <<LF, c>> = Append(old, c)
      <4>1. q \o <<LF, c>> = Append(Append(q, LF), c)
        <5>1. q \in Seq(Int) /\ LF \in Int /\ c \in Int
          BY <1>1, <1>2, <2>6
        <5> HIDE DEF c
        <5> QED
          BY <5>1, Appended
      <4> QED
        BY <2>6, <4>1
    <3>3. Line(t, n) = <<c>>
      BY <2>9 DEF Line
    <3>4. Flushed(t, sent, n) = [status |-> 0, out |-> Append(old, c)]
      BY <1>1, <1>3, <2>9, <3>3 DEF Flushed
    <3> QED
      BY <2>4, <3>1, <3>2, <3>4 DEF q
  <2> QED
    BY <2>7, <2>8, <2>9
<1>5. CASE ~(n > 1 /\ t[n - 1] = CR)
  <2> DEFINE st == [status |-> 0, out |-> old]
  <2>1. Flushed(t, sent, n - 1) = st
    <3>1. n - 1 > 0 => n > 1
      BY <1>1
    <3> QED
      BY <1>5, <3>1 DEF Flushed, old
  <2>2. CASE c = CR
    <3>1. body_step(st, CR) = [status |-> 1, out |-> Append(old, CR)]
      BY BodySteps
    <3>2. Flushed(t, sent, n) = [status |-> 1, out |-> Append(old, CR)]
      BY <1>1, <2>2 DEF Flushed, old
    <3> QED
      BY <2>1, <2>2, <3>1, <3>2
  <2>3. CASE c = LF
    <3>1. body_step(st, LF) = [status |-> 0, out |-> old \o <<CR, LF>>]
      BY BodySteps
    <3>2. Line(t, n) = <<CR, LF>>
      BY <1>1, <1>5, <2>3 DEF Line
    <3>3. Flushed(t, sent, n) = [status |-> 0, out |-> old \o <<CR, LF>>]
      BY <1>1, <1>2, <2>3, <3>2 DEF Flushed
    <3> QED
      BY <2>1, <2>3, <3>1, <3>3
  <2>4. CASE c \notin {CR, LF}
    <3>1. body_step(st, c) = [status |-> 0, out |-> Append(old, c)]
      BY <2>4, BodySteps
    <3>2. Line(t, n) = <<c>>
      BY <2>4 DEF Line
    <3>3. Flushed(t, sent, n) = [status |-> 0, out |-> Append(old, c)]
      BY <1>1, <1>3, <2>4, <3>2 DEF Flushed
    <3> QED
      BY <2>1, <3>1, <3>3
  <2> QED
    BY <2>2, <2>3, <2>4
<1> QED
  BY <1>4, <1>5

\* A body that does not end with a CR is sent as its lines.
LEMMA BodySent ==
    ASSUME NEW t \in Seq(Int), t = <<>> \/ t[Len(t)] # CR
    PROVE  flush_body(t) = Lines(t)
<1> DEFINE m == Len(t)
           pieces == [i \in DOMAIN t |-> Line(t, i)]
           G(g) == [n \in 0 .. m |-> IF n = 0 THEN [status |-> 0, out |-> <<>>]
                                     ELSE body_step(g[n - 1], t[n])]
           at == CHOOSE g : g = G(g)
<1>1. m \in Nat /\ DOMAIN t = 1 .. m /\ CR \in Int /\ LF \in Int
  BY DEF CR, LF
<1>2. pieces \in Seq(Seq(Int)) /\ Len(pieces) = m
  <2>1. ASSUME NEW i \in 1 .. m PROVE Line(t, i) \in Seq(Int)
    <3>1. t[i] \in Int
      OBVIOUS
    <3> QED
      BY <1>1, <3>1 DEF Line
  <2>2. pieces \in [1 .. m -> Seq(Int)]
    BY <1>1, <2>1
  <2> HIDE DEF pieces, m
  <2> QED
    BY <1>1, <2>2, FunctionText
<1>3. Lines(t) = FlattenSeq(pieces)
  BY Zenon DEF Lines
<1>4. \A n \in 1 .. m : pieces[n] = Line(t, n)
  BY <1>1
<1> HIDE DEF pieces
<1>5. PICK sent \in [0 .. m -> Seq(Int)] :
         /\ sent[0] = <<>> /\ sent[m] = Lines(t)
         /\ \A n \in 1 .. m : sent[n] = sent[n - 1] \o Line(t, n)
  <2>1. \E f \in [0 .. Len(pieces) -> Seq(Int)] :
           /\ f[0] = <<>> /\ f[Len(pieces)] = FlattenSeq(pieces)
           /\ \A n \in 1 .. Len(pieces) : f[n] = f[n - 1] \o pieces[n]
    BY <1>2, FlattenBuilds
  <2> HIDE DEF m
  <2> QED
    BY <1>2, <1>3, <1>4, <2>1
<1>6. flush_body(t) = at[m].out
  BY Zenon DEF flush_body
<1>7. ASSUME NEW n \in 1 .. m PROVE body_step(Flushed(t, sent, n - 1), t[n]) = Flushed(t, sent, n)
  BY <1>5, FlushedStep
<1>8. Flushed(t, sent, 0) = [status |-> 0, out |-> <<>>]
  BY <1>5 DEF Flushed
<1>9. Flushed(t, sent, m) = [status |-> 0, out |-> Lines(t)]
  <2>1. ~(m > 0 /\ t[m] = CR)
    BY <1>1
  <2> QED
    BY <1>5, <2>1 DEF Flushed
<1> HIDE DEF m
<1> DEFINE f == [n \in 0 .. m |-> Flushed(t, sent, n)]
<1>10. ASSUME NEW n \in 0 .. m PROVE f[n] = G(f)[n]
  <2>1. CASE n = 0
    BY <1>1, <1>8, <2>1
  <2>2. CASE n # 0
    <3>1. n \in 1 .. m /\ n - 1 \in 0 .. m
      BY <1>1, <2>2
    <3>2. f[n] = Flushed(t, sent, n) /\ f[n - 1] = Flushed(t, sent, n - 1)
      BY <3>1
    <3>3. f[n] = body_step(f[n - 1], t[n])
      BY <1>7, <3>1, <3>2
    <3> HIDE DEF f
    <3> QED
      BY <2>2, <3>3
  <2> QED
    BY <2>1, <2>2
<1>11. f = G(f)
  <2>1. f = [n \in 0 .. m |-> f[n]]
    OBVIOUS
  <2> HIDE DEF f
  <2> QED
    BY <1>10, <2>1
<1>12. f[0] = Flushed(t, sent, 0) /\ \A n \in 1 .. m : f[n] = body_step(f[n - 1], t[n])
  <2>1. \A n \in 1 .. m : n \in 0 .. m /\ n - 1 \in 0 .. m
    BY <1>1
  <2> QED
    BY <1>1, <1>7, <2>1
<1>13. f[m] = Flushed(t, sent, m)
  BY <1>1
<1> HIDE DEF f, G
<1>14. at = G(at)
  BY <1>11
<1> HIDE DEF at
<1>15. at[0] = [status |-> 0, out |-> <<>>] /\ \A n \in 1 .. m : at[n] = body_step(at[n - 1], t[n])
  <2>1. at[0] = [status |-> 0, out |-> <<>>]
    BY <1>1, <1>14 DEF G
  <2>2. \A n \in 1 .. m : at[n] = body_step(at[n - 1], t[n])
    BY <1>1, <1>14 DEF G
  <2> QED
    BY <2>1, <2>2
<1> DEFINE T == {n \in 0 .. m : at[n] = f[n]}
<1>16. 0 \in T
  BY <1>1, <1>8, <1>12, <1>15
<1>17. ASSUME NEW n \in 1 .. m, n - 1 \in T PROVE n \in T
  <2>1. at[n - 1] = f[n - 1] /\ n \in 0 .. m
    BY <1>1, <1>17
  <2>2. at[n] = body_step(at[n - 1], t[n]) /\ f[n] = body_step(f[n - 1], t[n])
    BY <1>12, <1>15
  <2> QED
    BY <2>1, <2>2
<1> HIDE DEF T
<1>18. m \in T
  <2>1. \A n \in 0 .. m : n \in T
    BY <1>1, <1>16, <1>17, UpTo
  <2> QED
    BY <1>1, <2>1
<1> QED
  BY <1>6, <1>9, <1>13, <1>18 DEF T

\* The text never changes: it is one of Inputs.
LEMMA TextKept == ParserSpec => [](text \in Inputs)
<1>1. ParserInit => text \in Inputs
  BY DEF ParserInit
<1>2. text \in Inputs /\ [ParserNext]_parserVars => (text \in Inputs)'
  BY DEF ParserNext, Loop, case_equal, case_separator, case_percent, case_plain,
         case_first_hex, case_second_hex, finish, Returned, Advance, parserVars
<1> QED
  BY <1>1, <1>2, PTL DEF ParserSpec

\* flush_body sends each line of a body ended by CR LF, however CR and LF follow each
\* other, unless the body ends with a lone CR.
THEOREM BodyLinesHolds == ParserSpec => []BodyLines
<1>1. text \in Inputs => BodyLines
  <2> SUFFICES ASSUME text \in Inputs, text = <<>> \/ Last(text) # CR
               PROVE  flush_body(text) = Lines(text)
    BY DEF BodyLines
  <2>1. text \in Seq(Int) /\ (text = <<>> \/ text[Len(text)] # CR)
    BY InputsAssumption DEF Last
  <2> QED
    BY <2>1, BodySent
<1> QED
  BY <1>1, TextKept, PTL

------------------------------------------------------------------------------
\* The content type

TypeFields == {"s", "type", "subtype", "attribute", "value", "parameters", "null"}

\* The parameters are being read: the type and the subtype stay what they are.
Keeps(st, next) ==
    /\ DOMAIN next = TypeFields /\ next.s \in 2 .. 5
    /\ next.type = st.type /\ next.subtype = st.subtype

LEMMA ParameterKeeps ==
    ASSUME NEW st, DOMAIN st = TypeFields PROVE Keeps(st, Parameter(st))
BY DEF Parameter, Keeps, TypeFields

LEMMA QuotedKeeps ==
    ASSUME NEW st, DOMAIN st = TypeFields, st.s \in 2 .. 5, NEW c
    PROVE  Keeps(st, quoted_step(st, c))
<1>1. CASE c = QUOTE
  BY <1>1 DEF quoted_step, Keeps, TypeFields
<1>2. CASE c # QUOTE /\ st.s = 2
  BY <1>2 DEF quoted_step, Keeps, TypeFields
<1>3. CASE c # QUOTE /\ st.s # 2
  BY <1>3 DEF quoted_step, Keeps, TypeFields
<1> QED
  BY <1>1, <1>2, <1>3

LEMMA PlainKeeps ==
    ASSUME NEW st, DOMAIN st = TypeFields, st.s \in 2 .. 5, NEW c
    PROVE  Keeps(st, plain_step(st, c))
<1>1. CASE c = SEMICOLON
  <2>1. plain_step(st, c) = Parameter(st)
    BY <1>1 DEF plain_step, SEMICOLON, QUOTE
  <2> QED
    BY <2>1, ParameterKeeps
<1>2. CASE c # SEMICOLON /\ c = QUOTE
  <2>1. plain_step(st, c) = [st EXCEPT !.s = IF st.attribute = <<>> THEN 4 ELSE 3]
    BY <1>2 DEF plain_step
  <2> QED
    BY <2>1 DEF Keeps, TypeFields
<1>3. CASE c # SEMICOLON /\ c # QUOTE
  <2>1. plain_step(st, c) = [st EXCEPT !.value = Append(@, c)]
    BY <1>3 DEF plain_step
  <2> QED
    BY <2>1 DEF Keeps, TypeFields
<1> QED
  BY <1>1, <1>2, <1>3

LEMMA TypeKept ==
    ASSUME NEW st, DOMAIN st = TypeFields, st.s \in 2 .. 5, NEW c
    PROVE  Keeps(st, content_type_step(st, c))
<1>1. CASE st.s = 2 /\ c = EQUAL
  <2>1. content_type_step(st, c) = [st EXCEPT !.s = 3]
    BY <1>1 DEF content_type_step
  <2> QED
    BY <2>1 DEF Keeps, TypeFields
<1>2. CASE st.s = 2 /\ c # EQUAL
  <2>1. content_type_step(st, c) = [st EXCEPT !.attribute = Append(@, c)]
    BY <1>2 DEF content_type_step
  <2> QED
    BY <1>2, <2>1 DEF Keeps, TypeFields
<1>3. CASE st.s = 3
  <2> DEFINE middle == plain_step(st, c)
  <2>1. content_type_step(st, c) = quoted_step(middle, c)
    BY <1>3 DEF content_type_step
  <2>2. Keeps(st, middle)
    BY PlainKeeps
  <2> HIDE DEF middle
  <2>3. Keeps(middle, quoted_step(middle, c))
    BY <2>2, QuotedKeeps DEF Keeps
  <2> QED
    BY <2>1, <2>2, <2>3 DEF Keeps
<1>4. CASE st.s = 4
  <2>1. content_type_step(st, c) = quoted_step(st, c)
    BY <1>4 DEF content_type_step
  <2> QED
    BY <2>1, QuotedKeeps
<1>5. CASE st.s = 5 /\ c = SEMICOLON
  <2>1. content_type_step(st, c) = Parameter(st)
    BY <1>5 DEF content_type_step
  <2> QED
    BY <2>1, ParameterKeeps
<1>6. CASE st.s = 5 /\ c # SEMICOLON
  <2>1. content_type_step(st, c) = st
    BY <1>6 DEF content_type_step
  <2> QED
    BY <1>6, <2>1 DEF Keeps
<1> QED
  BY <1>1, <1>2, <1>3, <1>4, <1>5, <1>6

\* What is read of t before its character n + 1: p is the place of the first slash, q that
\* of the first semicolon behind it.
TypeAt(t, p, q, n, st) ==
    /\ DOMAIN st = TypeFields
    /\ n < p => st.s = 0 /\ st.type = SubSeq(t, 1, n) /\ st.subtype = <<>>
    /\ n >= p /\ n < q =>
          st.s = 1 /\ st.type = SubSeq(t, 1, p - 1) /\ st.subtype = SubSeq(t, p + 1, n)
    /\ n >= q =>
          /\ st.s \in 2 .. 5 /\ st.type = SubSeq(t, 1, p - 1)
          /\ st.subtype = SubSeq(t, p + 1, q - 1)

TypeCuts(t, p, q) ==
    /\ p \in 1 .. Len(t) + 1
    /\ q \in p + 1 .. IF p <= Len(t) THEN Len(t) + 1 ELSE p + 1
    /\ p <= Len(t) => t[p] = SLASH
    /\ \A i \in 1 .. p - 1 : t[i] # SLASH
    /\ q <= Len(t) => t[q] = SEMICOLON
    /\ \A i \in p + 1 .. q - 1 : t[i] # SEMICOLON

LEMMA TypeStep ==
    ASSUME NEW t \in Seq(Int), NEW p, NEW q, TypeCuts(t, p, q),
           NEW n \in 1 .. Len(t), NEW st, TypeAt(t, p, q, n - 1, st)
    PROVE  TypeAt(t, p, q, n, content_type_step(st, t[n]))
<1> DEFINE next == content_type_step(st, t[n])
<1>1. /\ n \in Int /\ p \in Int /\ q \in Int /\ n >= 1 /\ n <= Len(t) /\ Len(t) \in Nat
      /\ p >= 1 /\ p < q
      /\ p <= Len(t) => t[p] = SLASH
      /\ \A i \in 1 .. p - 1 : t[i] # SLASH
      /\ q <= Len(t) => t[q] = SEMICOLON
      /\ \A i \in p + 1 .. q - 1 : t[i] # SEMICOLON
      /\ DOMAIN st = TypeFields
  <2>1. p \in 1 .. Len(t) + 1 /\ q \in p + 1 .. IF p <= Len(t) THEN Len(t) + 1 ELSE p + 1
    BY DEF TypeCuts
  <2>2. n \in Int /\ p \in Int /\ q \in Int /\ n >= 1 /\ n <= Len(t) /\ Len(t) \in Nat
    BY <2>1
  <2>3. p >= 1 /\ p < q
    BY <2>1, <2>2
  <2> QED
    BY <2>2, <2>3 DEF TypeAt, TypeCuts
<1>2. CASE n < p
  <2>1. n - 1 < p /\ t[n] # SLASH /\ n < q
    BY <1>1, <1>2
  <2>2. st.s = 0 /\ st.type = SubSeq(t, 1, n - 1) /\ st.subtype = <<>>
    BY <2>1 DEF TypeAt
  <2>3. next = [st EXCEPT !.type = Append(@, t[n])]
    BY <2>1, <2>2 DEF content_type_step
  <2>4. SubSeq(t, 1, n) = Append(SubSeq(t, 1, n - 1), t[n])
    BY PrefixSteps
  <2>5. /\ DOMAIN next = TypeFields /\ next.s = 0 /\ next.type = SubSeq(t, 1, n)
        /\ next.subtype = <<>>
    BY <1>1, <2>2, <2>3, <2>4 DEF TypeFields
  <2> HIDE DEF next
  <2>6. TypeAt(t, p, q, n, next)
    BY <1>1, <1>2, <2>1, <2>5 DEF TypeAt
  <2> QED
    BY <2>6 DEF next
<1>3. CASE n = p
  <2>1. n - 1 < p /\ t[n] = SLASH /\ n < q /\ n >= p
    BY <1>1, <1>3
  <2>2. st.s = 0 /\ st.type = SubSeq(t, 1, n - 1) /\ st.subtype = <<>>
    BY <2>1 DEF TypeAt
  <2>3. next = [st EXCEPT !.s = 1]
    BY <2>1, <2>2 DEF content_type_step
  <2>4. SubSeq(t, p + 1, n) = <<>>
    BY <1>1, <1>3
  <2>5. /\ DOMAIN next = TypeFields /\ next.s = 1 /\ next.type = SubSeq(t, 1, p - 1)
        /\ next.subtype = <<>>
    BY <1>1, <1>3, <2>2, <2>3 DEF TypeFields
  <2> HIDE DEF next
  <2>6. TypeAt(t, p, q, n, next)
    BY <1>1, <1>3, <2>1, <2>4, <2>5 DEF TypeAt
  <2> QED
    BY <2>6 DEF next
<1>4. CASE n > p /\ n < q
  <2>1. n - 1 >= p /\ t[n] # SEMICOLON /\ n - 1 < q
    BY <1>1, <1>4
  <2>2. st.s = 1 /\ st.type = SubSeq(t, 1, p - 1) /\ st.subtype = SubSeq(t, p + 1, n - 1)
    BY <2>1 DEF TypeAt
  <2>3. next = [st EXCEPT !.subtype = Append(@, t[n])]
    BY <2>1, <2>2 DEF content_type_step
  <2>4. SubSeq(t, p + 1, n) = Append(SubSeq(t, p + 1, n - 1), t[n])
    <3> DEFINE m == n - 1
    <3>1. m \in 0 .. Len(t) /\ p + 1 \in 1 .. m + 1 /\ m < Len(t) /\ m + 1 = n
      BY <1>1, <1>4
    <3>2. SubSeq(t, p + 1, m + 1) = Append(SubSeq(t, p + 1, m), t[m + 1])
      BY <3>1, SegmentGrows
    <3> QED
      BY <3>1, <3>2
  <2>5. /\ DOMAIN next = TypeFields /\ next.s = 1 /\ next.type = SubSeq(t, 1, p - 1)
        /\ next.subtype = SubSeq(t, p + 1, n)
    BY <1>1, <2>2, <2>3, <2>4 DEF TypeFields
  <2> HIDE DEF next
  <2>6. TypeAt(t, p, q, n, next)
    BY <1>1, <1>4, <2>5 DEF TypeAt
  <2> QED
    BY <2>6 DEF next
<1>5. CASE n = q
  <2>1. n - 1 >= p /\ t[n] = SEMICOLON /\ n - 1 < q /\ q - 1 = n - 1
    BY <1>1, <1>5
  <2>2. st.s = 1 /\ st.type = SubSeq(t, 1, p - 1) /\ st.subtype = SubSeq(t, p + 1, q - 1)
    BY <2>1 DEF TypeAt
  <2>3. next = [st EXCEPT !.s = 2]
    BY <2>1, <2>2 DEF content_type_step
  <2>4. /\ DOMAIN next = TypeFields /\ next.s = 2 /\ next.type = SubSeq(t, 1, p - 1)
        /\ next.subtype = SubSeq(t, p + 1, q - 1)
    BY <1>1, <2>2, <2>3 DEF TypeFields
  <2> HIDE DEF next
  <2>5. TypeAt(t, p, q, n, next)
    BY <1>1, <1>5, <2>4 DEF TypeAt
  <2> QED
    BY <2>5 DEF next
<1>6. CASE n > q
  <2>1. n - 1 >= q /\ ~(n - 1 < q) /\ ~(n < p) /\ ~(n < q) /\ n >= q
    BY <1>1, <1>6
  <2>2. /\ st.s \in 2 .. 5 /\ st.type = SubSeq(t, 1, p - 1)
        /\ st.subtype = SubSeq(t, p + 1, q - 1)
    BY <2>1 DEF TypeAt
  <2>3. Keeps(st, next)
    BY <1>1, <2>2, TypeKept
  <2> HIDE DEF next
  <2>4. TypeAt(t, p, q, n, next)
    BY <2>1, <2>2, <2>3 DEF TypeAt, Keeps
  <2> QED
    BY <2>4 DEF next
<1> QED
  BY <1>1, <1>2, <1>3, <1>4, <1>5, <1>6

\* The loop of content_type.
NoType == [s |-> 0, type |-> <<>>, subtype |-> <<>>, attribute |-> <<>>, value |-> <<>>,
           parameters |-> <<>>, null |-> FALSE]

LoopOf(t, m, f) ==
    f = [n \in 0 .. m |-> IF n = 0 THEN NoType ELSE content_type_step(f[n - 1], t[n])]

LEMMA LoopExists == ASSUME NEW t, NEW m \in Nat PROVE \E f : LoopOf(t, m, f)
<1> DEFINE T == {n \in 0 .. m : \E f : LoopOf(t, n, f)}
<1>1. 0 \in T
  <2> DEFINE f == [n \in 0 .. 0 |-> NoType]
  <2>1. f = [n \in 0 .. 0 |-> IF n = 0 THEN NoType ELSE content_type_step(f[n - 1], t[n])]
    <3>1. \A n \in 0 .. 0 : n = 0
      OBVIOUS
    <3> QED
      BY <3>1
  <2> HIDE DEF f
  <2>2. LoopOf(t, 0, f)
    BY <2>1 DEF LoopOf
  <2> QED
    BY <2>2
<1>2. ASSUME NEW n \in 1 .. m, n - 1 \in T PROVE n \in T
  <2>1. PICK f : LoopOf(t, n - 1, f)
    BY <1>2
  <2> DEFINE next == content_type_step(f[n - 1], t[n])
             g == [i \in 0 .. n |-> IF i < n THEN f[i] ELSE next]
  <2>2. \A i \in 0 .. n - 1 : f[i] = IF i = 0 THEN NoType ELSE content_type_step(f[i - 1], t[i])
    BY <2>1, Zenon DEF LoopOf
  <2>3. ASSUME NEW i \in 0 .. n
        PROVE  g[i] = IF i = 0 THEN NoType ELSE content_type_step(g[i - 1], t[i])
    <3>1. CASE i < n
      <4>1. i \in 0 .. n - 1 /\ g[i] = f[i] /\ (i # 0 => g[i - 1] = f[i - 1])
        BY <3>1
      <4> HIDE DEF g
      <4> QED
        BY <2>2, <4>1
    <3>2. CASE i = n
      <4>1. i # 0 /\ g[i] = next /\ g[i - 1] = f[n - 1]
        BY <3>2
      <4> HIDE DEF g
      <4> QED
        BY <3>2, <4>1
    <3> QED
      BY <3>1, <3>2
  <2>4. g = [i \in 0 .. n |-> g[i]]
    OBVIOUS
  <2> HIDE DEF g
  <2>5. g = [i \in 0 .. n |-> IF i = 0 THEN NoType ELSE content_type_step(g[i - 1], t[i])]
    BY <2>3, <2>4
  <2>6. LoopOf(t, n, g)
    BY <2>5 DEF LoopOf
  <2>7. n \in 0 .. m
    OBVIOUS
  <2> QED
    BY <2>6, <2>7
<1> HIDE DEF T
<1>3. m \in T
  <2>1. \A n \in 0 .. m : n \in T
    BY <1>1, <1>2, UpTo
  <2> QED
    BY <2>1
<1> QED
  BY <1>3 DEF T

LEMMA TypeRead ==
    ASSUME NEW t \in Seq(Int), NEW p, NEW q, TypeCuts(t, p, q)
    PROVE  /\ content_type(t).type = SubSeq(t, 1, p - 1)
           /\ content_type(t).subtype = SubSeq(t, p + 1, q - 1)
<1> DEFINE m == Len(t)
           at == CHOOSE f : f = [n \in 0 .. m |-> IF n = 0 THEN NoType
                                                  ELSE content_type_step(f[n - 1], t[n])]
<1>1. /\ m \in Nat /\ p \in 1 .. m + 1 /\ q \in Int /\ q > p
      /\ p <= m => q <= m + 1
      /\ p = m + 1 => q = m + 2
  BY DEF TypeCuts
<1>2. content_type(t) = IF at[m].s \in {3, 5} THEN Parameter(at[m]) ELSE at[m]
  BY Zenon DEF content_type, NoType
<1> HIDE DEF m
<1>3. LoopOf(t, m, at)
  <2>1. \E f : f = [n \in 0 .. m |-> IF n = 0 THEN NoType ELSE content_type_step(f[n - 1], t[n])]
    BY <1>1, LoopExists DEF LoopOf
  <2> QED
    BY <2>1, Zenon DEF LoopOf
<1> HIDE DEF at
<1>4. at[0] = NoType /\ \A n \in 1 .. m : at[n] = content_type_step(at[n - 1], t[n])
  <2>1. \A n \in 0 .. m : at[n] = IF n = 0 THEN NoType ELSE content_type_step(at[n - 1], t[n])
    BY <1>3, Zenon DEF LoopOf
  <2>2. 0 \in 0 .. m /\ \A n \in 1 .. m : n \in 0 .. m /\ n # 0
    BY <1>1
  <2> QED
    BY <2>1, <2>2
<1> DEFINE T == {n \in 0 .. m : TypeAt(t, p, q, n, at[n])}
<1>5. 0 \in T
  <2>1. /\ DOMAIN NoType = TypeFields /\ NoType.s = 0 /\ NoType.type = <<>>
        /\ NoType.subtype = <<>>
    BY DEF NoType, TypeFields
  <2>2. SubSeq(t, 1, 0) = <<>> /\ 0 < p /\ 0 < q /\ 0 \in 0 .. m
    BY <1>1
  <2>3. ~(0 >= p) /\ ~(0 >= q)
    BY <1>1
  <2>4. TypeAt(t, p, q, 0, NoType)
    BY <2>1, <2>2, <2>3 DEF TypeAt
  <2> QED
    BY <1>4, <2>2, <2>4
<1>6. ASSUME NEW n \in 1 .. m, n - 1 \in T PROVE n \in T
  <2>1. TypeAt(t, p, q, n - 1, at[n - 1]) /\ n \in 1 .. Len(t)
    BY <1>6 DEF m
  <2>2. TypeAt(t, p, q, n, content_type_step(at[n - 1], t[n]))
    BY <2>1, TypeStep
  <2>3. n \in 0 .. m
    BY <1>1
  <2> QED
    BY <1>4, <2>2, <2>3
<1> HIDE DEF T
<1>7. TypeAt(t, p, q, m, at[m])
  <2>1. \A n \in 0 .. m : n \in T
    BY <1>1, <1>5, <1>6, UpTo
  <2>2. m \in T
    BY <1>1, <2>1
  <2> QED
    BY <2>2 DEF T
<1>8. /\ DOMAIN at[m] = TypeFields /\ at[m].type = SubSeq(t, 1, p - 1)
      /\ at[m].subtype = SubSeq(t, p + 1, q - 1)
  <2>1. CASE m < p
    <3>1. p = m + 1 /\ p - 1 = m /\ q - 1 = m + 1 /\ p + 1 = m + 2
      BY <1>1, <2>1
    <3>2. SubSeq(t, p + 1, q - 1) = <<>>
      BY <1>1, <3>1
    <3> QED
      BY <1>7, <2>1, <3>1, <3>2 DEF TypeAt
  <2>2. CASE m >= p /\ m < q
    <3>1. q - 1 = m
      BY <1>1, <2>2
    <3> QED
      BY <1>7, <2>2, <3>1 DEF TypeAt
  <2>3. CASE m >= q
    BY <1>1, <1>7, <2>3 DEF TypeAt
  <2> QED
    BY <1>1, <2>1, <2>2, <2>3
<1>9. /\ Parameter(at[m]).type = at[m].type /\ Parameter(at[m]).subtype = at[m].subtype
  BY <1>8, ParameterKeeps DEF Keeps
<1> QED
  BY <1>2, <1>8, <1>9

\* A part of the rest of a text is a part of the text.
LEMMA PartOfRest ==
    ASSUME NEW t \in Seq(Int), NEW k \in 1 .. Len(t) + 1, NEW n \in 0 .. Len(t) - k + 1
    PROVE  SubSeq(SubSeq(t, k, Len(t)), 1, n) = SubSeq(t, k, k + n - 1)
<1> DEFINE rest == SubSeq(t, k, Len(t))
           l == SubSeq(rest, 1, n)
           r == SubSeq(t, k, k + n - 1)
<1>1. Len(t) \in Nat /\ k \in Int /\ n \in Nat /\ Len(t) \in 0 .. Len(t)
      /\ k + n - 1 \in 0 .. Len(t) /\ k \in 1 .. (k + n - 1) + 1 /\ (k + n - 1) - k + 1 = n
  OBVIOUS
<1>2. /\ rest \in Seq(Int) /\ Len(rest) = Len(t) - k + 1
      /\ \A i \in 1 .. Len(t) - k + 1 : rest[i] = t[k + i - 1]
  BY <1>1, SegmentGrows
<1>3. r \in Seq(Int) /\ Len(r) = n /\ \A i \in 1 .. n : r[i] = t[k + i - 1]
  <2>1. /\ r \in Seq(Int) /\ Len(r) = (k + n - 1) - k + 1
        /\ \A i \in 1 .. (k + n - 1) - k + 1 : r[i] = t[k + i - 1]
    BY <1>1, SegmentGrows
  <2> HIDE DEF r
  <2> QED
    BY <1>1, <2>1
<1> HIDE DEF rest, r
<1>4. l \in Seq(Int) /\ Len(l) = n /\ \A i \in 1 .. n : l[i] = rest[i]
  <2>1. n \in 0 .. Len(rest) /\ 1 \in 1 .. n + 1 /\ n - 1 + 1 = n
    BY <1>1, <1>2
  <2>2. /\ l \in Seq(Int) /\ Len(l) = n - 1 + 1
        /\ \A i \in 1 .. n - 1 + 1 : l[i] = rest[1 + i - 1]
    BY <1>2, <2>1, SegmentGrows
  <2>3. \A i \in 1 .. n : 1 + i - 1 = i
    OBVIOUS
  <2> HIDE DEF l
  <2> QED
    BY <2>1, <2>2, <2>3
<1> HIDE DEF l
<1>5. ASSUME NEW i \in 1 .. n PROVE l[i] = r[i]
  <2>1. i \in 1 .. Len(t) - k + 1
    BY <1>1
  <2> QED
    BY <1>2, <1>3, <1>4, <2>1
<1>6. l = r
  BY <1>3, <1>4, <1>5, SameText
<1> QED
  BY <1>6 DEF l, r, rest

LEMMA ContentTypeParts ==
    ASSUME NEW t \in Seq(Int)
    PROVE  LET slash == First(t, Len(t), 1, {SLASH})
               rest == SubSeq(t, slash + 1, Len(t))
           IN  /\ content_type(t).type = SubSeq(t, 1, slash - 1)
               /\ content_type(t).subtype =
                     SubSeq(rest, 1, First(rest, Len(rest), 1, {SEMICOLON}) - 1)
<1> DEFINE m == Len(t)
           p == First(t, m, 1, {SLASH})
           rest == SubSeq(t, p + 1, m)
           l == Len(rest)
           r == First(rest, l, 1, {SEMICOLON})
<1>1. m \in Nat
  OBVIOUS
<1>2. /\ p \in 1 .. m + 1
      /\ p <= m => t[p] = SLASH
      /\ \A i \in 1 .. p - 1 : t[i] # SLASH
  <2>1. 1 \in 1 .. m + 1
    BY <1>1
  <2>2. /\ p \in 1 .. m + 1
        /\ p <= m => t[p] \in {SLASH}
        /\ \A i \in 1 .. p - 1 : t[i] \notin {SLASH}
    BY <1>1, <2>1, FirstIs
  <2> HIDE DEF p
  <2> QED
    BY <2>2
<1> HIDE DEF p
<1>3. CASE p <= m
  <2>1. rest \in Seq(Int) /\ l = m - p /\ \A i \in 1 .. m - p : rest[i] = t[p + i]
    <3>1. m \in 0 .. Len(t) /\ p + 1 \in 1 .. m + 1 /\ m - (p + 1) + 1 = m - p
          /\ \A i \in Int : (p + 1) + i - 1 = p + i
      BY <1>1, <1>2, <1>3
    <3>2. /\ rest \in Seq(Int) /\ Len(rest) = m - (p + 1) + 1
          /\ \A i \in 1 .. m - (p + 1) + 1 : rest[i] = t[(p + 1) + i - 1]
      BY <3>1, SegmentGrows
    <3> HIDE DEF rest
    <3>3. ASSUME NEW i \in 1 .. m - p PROVE rest[i] = t[p + i]
      <4>1. i \in 1 .. m - (p + 1) + 1 /\ (p + 1) + i - 1 = p + i
        BY <3>1
      <4>2. rest[i] = t[(p + 1) + i - 1]
        BY <3>2, <4>1
      <4> QED
        BY <4>1, <4>2
    <3>4. l = m - p
      BY <3>1, <3>2
    <3> QED
      BY <3>2, <3>3, <3>4
  <2> HIDE DEF rest, l
  <2>2. l \in Nat /\ 1 \in 1 .. l + 1
    BY <1>1, <1>2, <1>3, <2>1
  <2>3. /\ r \in 1 .. l + 1
        /\ r <= l => rest[r] \in {SEMICOLON}
        /\ \A i \in 1 .. r - 1 : rest[i] \notin {SEMICOLON}
    BY <2>2, FirstIs
  <2> HIDE DEF r
  <2> DEFINE q == p + r
  <2>4. TypeCuts(t, p, q)
    <3>1. q \in p + 1 .. IF p <= Len(t) THEN Len(t) + 1 ELSE p + 1
      BY <1>1, <1>2, <1>3, <2>1, <2>3
    <3>2. q <= Len(t) => t[q] = SEMICOLON
      <4>1. q <= Len(t) => r <= l /\ r \in 1 .. m - p
        BY <1>1, <1>2, <2>1, <2>3
      <4> QED
        BY <2>1, <2>3, <4>1
    <3>3. ASSUME NEW i \in p + 1 .. q - 1 PROVE t[i] # SEMICOLON
      <4>1. i - p \in 1 .. r - 1 /\ i - p \in 1 .. m - p /\ p + (i - p) = i
        BY <1>1, <1>2, <2>1, <2>3
      <4>2. rest[i - p] = t[p + (i - p)] /\ rest[i - p] # SEMICOLON
        BY <2>1, <2>3, <4>1
      <4> QED
        BY <4>1, <4>2
    <3> QED
      BY <1>2, <3>1, <3>2, <3>3 DEF TypeCuts
  <2>5. /\ content_type(t).type = SubSeq(t, 1, p - 1)
        /\ content_type(t).subtype = SubSeq(t, p + 1, q - 1)
    BY <2>4, TypeRead
  <2>6. SubSeq(rest, 1, r - 1) = SubSeq(t, p + 1, q - 1)
    <3>1. p + 1 \in 1 .. Len(t) + 1 /\ r - 1 \in 0 .. Len(t) - (p + 1) + 1
          /\ (p + 1) + (r - 1) - 1 = q - 1
      BY <1>1, <1>2, <1>3, <2>1, <2>3
    <3>2. SubSeq(SubSeq(t, p + 1, Len(t)), 1, r - 1) = SubSeq(t, p + 1, (p + 1) + (r - 1) - 1)
      BY <3>1, PartOfRest
    <3> QED
      BY <3>1, <3>2 DEF rest
  <2> QED
    BY <2>5, <2>6 DEF p, rest, r, l
<1>4. CASE ~(p <= m)
  <2>1. p = m + 1
    BY <1>1, <1>2, <1>4
  <2>2. rest = <<>> /\ l = 0
    <3>1. SubSeq(t, p + 1, m) = <<>>
      BY <1>1, <2>1
    <3> QED
      BY <3>1
  <2>3. TypeCuts(t, p, p + 1)
    <3>1. \A i \in p + 1 .. (p + 1) - 1 : FALSE
      BY <1>2
    <3>2. p + 1 \in p + 1 .. p + 1 /\ ~(p + 1 <= m)
      BY <1>1, <2>1
    <3> QED
      BY <1>2, <1>4, <3>1, <3>2 DEF TypeCuts
  <2>4. /\ content_type(t).type = SubSeq(t, 1, p - 1)
        /\ content_type(t).subtype = SubSeq(t, p + 1, (p + 1) - 1)
    BY <2>3, TypeRead
  <2>5. SubSeq(t, p + 1, (p + 1) - 1) = <<>>
    BY <1>1, <2>1
  <2> HIDE DEF rest, l
  <2>6. r \in 1 .. 1
    <3>1. 0 \in Nat /\ 1 \in 1 .. 0 + 1
      OBVIOUS
    <3>2. First(rest, 0, 1, {SEMICOLON}) \in 1 .. 0 + 1
      BY <3>1, FirstIs
    <3> QED
      BY <2>2, <3>2
  <2>7. SubSeq(rest, 1, r - 1) = <<>>
    <3>1. r - 1 = 0
      BY <2>6
    <3>2. SubSeq(<<>>, 1, 0) = <<>>
      OBVIOUS
    <3> HIDE DEF r
    <3> QED
      BY <2>2, <3>1, <3>2
  <2> QED
    BY <2>4, <2>5, <2>7 DEF p, rest, r, l
<1> QED
  BY <1>3, <1>4

\* The type and the subtype of every text are cut at the first slash and at the first
\* semicolon behind it, whatever the parameters that follow do to the parser.
THEOREM ContentTypeReadHolds == ParserSpec => []ContentTypeRead
<1>1. text \in Inputs => ContentTypeRead
  <2> SUFFICES ASSUME text \in Inputs PROVE ContentTypeRead
    OBVIOUS
  <2>1. text \in Seq(Int)
    BY InputsAssumption
  <2> QED
    BY <2>1, ContentTypeParts DEF ContentTypeRead
<1> QED
  BY <1>1, TextKept, PTL

------------------------------------------------------------------------------
\* Two cookies of a browser

LEMMA Joined ==
    ASSUME NEW a \in Seq(Int), NEW b \in Seq(Int)
    PROVE  /\ a \o b \in Seq(Int)
           /\ Len(a \o b) = Len(a) + Len(b)
           /\ \A i \in 1 .. Len(a) : (a \o b)[i] = a[i]
           /\ \A i \in Len(a) + 1 .. Len(a) + Len(b) : (a \o b)[i] = b[i - Len(a)]
OBVIOUS

LEMMA Reassociated ==
    ASSUME NEW a \in Seq(Int), NEW b \in Seq(Int), NEW c \in Seq(Int)
    PROVE  a \o (b \o c) = (a \o b) \o c
<1> DEFINE l == a \o (b \o c)
           r == (a \o b) \o c
           bc == b \o c
           ab == a \o b
<1>1. /\ bc \in Seq(Int) /\ Len(bc) = Len(b) + Len(c)
      /\ \A i \in 1 .. Len(b) : bc[i] = b[i]
      /\ \A i \in Len(b) + 1 .. Len(b) + Len(c) : bc[i] = c[i - Len(b)]
  BY Joined
<1>2. /\ ab \in Seq(Int) /\ Len(ab) = Len(a) + Len(b)
      /\ \A i \in 1 .. Len(a) : ab[i] = a[i]
      /\ \A i \in Len(a) + 1 .. Len(a) + Len(b) : ab[i] = b[i - Len(a)]
  BY Joined
<1> HIDE DEF bc, ab
<1>3. /\ l \in Seq(Int) /\ Len(l) = Len(a) + Len(bc)
      /\ \A i \in 1 .. Len(a) : l[i] = a[i]
      /\ \A i \in Len(a) + 1 .. Len(a) + Len(bc) : l[i] = bc[i - Len(a)]
  <2>1. l = a \o bc
    BY DEF bc
  <2> HIDE DEF l
  <2>2. /\ a \o bc \in Seq(Int) /\ Len(a \o bc) = Len(a) + Len(bc)
        /\ \A i \in 1 .. Len(a) : (a \o bc)[i] = a[i]
        /\ \A i \in Len(a) + 1 .. Len(a) + Len(bc) : (a \o bc)[i] = bc[i - Len(a)]
    BY <1>1, Joined
  <2> QED
    BY <2>1, <2>2
<1>4. /\ r \in Seq(Int) /\ Len(r) = Len(ab) + Len(c)
      /\ \A i \in 1 .. Len(ab) : r[i] = ab[i]
      /\ \A i \in Len(ab) + 1 .. Len(ab) + Len(c) : r[i] = c[i - Len(ab)]
  <2>1. r = ab \o c
    BY DEF ab
  <2> HIDE DEF r
  <2>2. /\ ab \o c \in Seq(Int) /\ Len(ab \o c) = Len(ab) + Len(c)
        /\ \A i \in 1 .. Len(ab) : (ab \o c)[i] = ab[i]
        /\ \A i \in Len(ab) + 1 .. Len(ab) + Len(c) : (ab \o c)[i] = c[i - Len(ab)]
    BY <1>2, Joined
  <2> QED
    BY <2>1, <2>2
<1> HIDE DEF l, r
<1>5. ASSUME NEW i \in 1 .. Len(a) + Len(b) + Len(c) PROVE l[i] = r[i]
  <2>1. Len(a) \in Nat /\ Len(b) \in Nat /\ Len(c) \in Nat /\ i \in Int
    OBVIOUS
  <2>2. CASE i <= Len(a)
    <3>1. i \in 1 .. Len(a) /\ i \in 1 .. Len(ab)
      BY <1>2, <2>1, <2>2
    <3> QED
      BY <1>2, <1>3, <1>4, <3>1
  <2>3. CASE i > Len(a) /\ i <= Len(a) + Len(b)
    <3>1. /\ i \in Len(a) + 1 .. Len(a) + Len(bc) /\ i \in Len(a) + 1 .. Len(a) + Len(b)
          /\ i \in 1 .. Len(ab) /\ i - Len(a) \in 1 .. Len(b)
      BY <1>1, <1>2, <2>1, <2>3
    <3>2. l[i] = bc[i - Len(a)] /\ bc[i - Len(a)] = b[i - Len(a)]
      BY <1>1, <1>3, <3>1
    <3>3. r[i] = ab[i] /\ ab[i] = b[i - Len(a)]
      BY <1>2, <1>4, <3>1
    <3> QED
      BY <3>2, <3>3
  <2>4. CASE i > Len(a) + Len(b)
    <3>1. /\ i \in Len(a) + 1 .. Len(a) + Len(bc)
          /\ i \in Len(ab) + 1 .. Len(ab) + Len(c)
          /\ i - Len(a) \in Len(b) + 1 .. Len(b) + Len(c)
          /\ (i - Len(a)) - Len(b) = i - Len(ab)
      BY <1>1, <1>2, <2>1, <2>4
    <3>2. l[i] = bc[i - Len(a)] /\ bc[i - Len(a)] = c[(i - Len(a)) - Len(b)]
      BY <1>1, <1>3, <3>1
    <3>3. r[i] = c[i - Len(ab)]
      BY <1>4, <3>1
    <3> QED
      BY <3>1, <3>2, <3>3
  <2> QED
    BY <2>1, <2>2, <2>3, <2>4
<1>6. Len(l) = Len(a) + Len(b) + Len(c) /\ Len(r) = Len(a) + Len(b) + Len(c)
  BY <1>1, <1>2, <1>3, <1>4
<1>7. l = r
  BY <1>3, <1>4, <1>5, <1>6, SameText
<1> QED
  BY <1>7 DEF l, r

\* What a browser sends of two cookies, piece by piece.
LEMMA SentPieces ==
    ASSUME NEW e \in Seq(Int), NEW f \in Seq(Int)
    PROVE  /\ <<A, EQUAL>> \o e \o <<SEMICOLON, SPACE, A, A, EQUAL>> \o f =
                 (<<A>> \o <<EQUAL>> \o e) \o <<SEMICOLON, SPACE>> \o (<<A, A>> \o <<EQUAL>> \o f)
           /\ <<A>> \o <<EQUAL>> \o e \in Seq(Int)
           /\ <<A, A>> \o <<EQUAL>> \o f \in Seq(Int)
           /\ <<SEMICOLON, SPACE>> \in Seq(Int)
<1>1. /\ <<A>> \in Seq(Int) /\ <<EQUAL>> \in Seq(Int) /\ <<A, A>> \in Seq(Int)
      /\ <<SEMICOLON, SPACE>> \in Seq(Int) /\ A \in Int /\ EQUAL \in Int
      /\ SEMICOLON \in Int /\ SPACE \in Int
  BY DEF A, EQUAL, SEMICOLON, SPACE
<1>2. <<A>> \o <<EQUAL>> = <<A, EQUAL>>
  <2> DEFINE p == <<A>> \o <<EQUAL>>
             q == <<A, EQUAL>>
  <2>1. p \in Seq(Int) /\ q \in Seq(Int) /\ Len(p) = 2 /\ Len(q) = 2
    BY <1>1
  <2>2. p[1] = q[1] /\ p[2] = q[2]
    OBVIOUS
  <2>3. \A i \in 1 .. 2 : i = 1 \/ i = 2
    OBVIOUS
  <2> HIDE DEF p, q
  <2>4. \A i \in 1 .. Len(p) : p[i] = q[i]
    BY <2>1, <2>2, <2>3
  <2>5. p = q
    BY <2>1, <2>4, SameText
  <2> QED
    BY <2>5 DEF p, q
<1> DEFINE head == <<A>> \o <<EQUAL>> \o e
           name == <<A, A>> \o <<EQUAL>>
           gap == <<SEMICOLON, SPACE>>
           five == <<SEMICOLON, SPACE, A, A, EQUAL>>
<1>3. name \in Seq(Int) /\ Len(name) = 3 /\ name[1] = A /\ name[2] = A /\ name[3] = EQUAL
  BY <1>1
<1>4. head \in Seq(Int) /\ name \o f \in Seq(Int)
  BY <1>1, <1>3
<1>5. gap \o name = five
  <2> DEFINE p == gap \o name
  <2>1. gap \in Seq(Int) /\ Len(gap) = 2 /\ gap[1] = SEMICOLON /\ gap[2] = SPACE
    BY <1>1
  <2> HIDE DEF gap, name
  <2>9. /\ p \in Seq(Int) /\ Len(p) = Len(gap) + Len(name)
        /\ \A i \in 1 .. Len(gap) : p[i] = gap[i]
        /\ \A i \in Len(gap) + 1 .. Len(gap) + Len(name) : p[i] = name[i - Len(gap)]
    BY <1>3, <2>1, Joined
  <2> HIDE DEF p
  <2>2. /\ p \in Seq(Int) /\ Len(p) = 5
        /\ \A i \in 1 .. 2 : p[i] = gap[i]
        /\ \A i \in 3 .. 5 : p[i] = name[i - 2]
    BY <1>3, <2>1, <2>9
  <2>3. p[1] = SEMICOLON /\ p[2] = SPACE /\ p[3] = A /\ p[4] = A /\ p[5] = EQUAL
    <3>1. /\ 1 \in 1 .. 2 /\ 2 \in 1 .. 2 /\ 3 \in 3 .. 5 /\ 4 \in 3 .. 5 /\ 5 \in 3 .. 5
          /\ 3 - 2 = 1 /\ 4 - 2 = 2 /\ 5 - 2 = 3
      OBVIOUS
    <3>2. p[3] = name[3 - 2] /\ p[4] = name[4 - 2] /\ p[5] = name[5 - 2]
      BY <2>2, <3>1
    <3>3. p[1] = gap[1] /\ p[2] = gap[2]
      BY <2>2, <3>1
    <3> QED
      BY <1>3, <2>1, <3>1, <3>2, <3>3
  <2>4. five \in Seq(Int) /\ Len(five) = 5
    BY <1>1
  <2>5. /\ five[1] = SEMICOLON /\ five[2] = SPACE /\ five[3] = A /\ five[4] = A
        /\ five[5] = EQUAL
    OBVIOUS
  <2>6. \A i \in 1 .. 5 : i = 1 \/ i = 2 \/ i = 3 \/ i = 4 \/ i = 5
    OBVIOUS
  <2> HIDE DEF five
  <2>7. \A i \in 1 .. Len(p) : p[i] = five[i]
    BY <2>2, <2>3, <2>5, <2>6
  <2>8. p = five
    BY <2>2, <2>4, <2>7, SameText
  <2> QED
    BY <2>8 DEF p
<1>6. <<A, EQUAL>> \o e = head
  BY <1>2
<1>7. gap \in Seq(Int)
  BY <1>1
<1> HIDE DEF head, name, gap, five
<1>8. head \o gap \o (name \o f) = (head \o five) \o f
  <2>1. head \o gap \in Seq(Int)
    BY <1>4, <1>7, Joined
  <2>2. (head \o gap) \o (name \o f) = ((head \o gap) \o name) \o f
    BY <1>3, <2>1, Reassociated
  <2>3. head \o (gap \o name) = (head \o gap) \o name
    <3>1. head \in Seq(Int) /\ gap \in Seq(Int) /\ name \in Seq(Int)
      BY <1>3, <1>4, <1>7
    <3> QED
      BY <3>1, Reassociated
  <2> QED
    BY <1>5, <2>2, <2>3
<1> QED
  BY <1>1, <1>4, <1>6, <1>8 DEF head, name, gap, five

LEMMA EmptyJar == <<>> \in Jars
<1> DEFINE none == {}
<1>1. none \in SUBSET Seq(Int) /\ <<>> \in [none -> Seq(Int)]
  OBVIOUS
<1> HIDE DEF none
<1> QED
  BY <1>1 DEF Jars

\* A cookie the end of the text ends is put in the jar as its name and its decoded value.
LEMMA LastCookie ==
    ASSUME NEW n \in Seq(Int), NEW t \in Seq(Int), NEW j \in Jars, NEW w \in Seq(Int),
           parse_cookie_value(t) = w, CText(w) = w
    PROVE  /\ JarStep[<<JarAt(2, n, t, j), 0>>] = JarAt(3, <<>>, t, Put(j, n, w))
           /\ JarAt(3, <<>>, t, Put(j, n, w)) \in JarState
           /\ JarAt(2, n, t, j) \in JarState
<1>1. CText(parse_cookie_value(t)) = w
  OBVIOUS
<1>2. JarStep[<<JarAt(2, n, t, j), 0>>] = JarAt(3, <<>>, t, Put(j, n, w))
  BY <1>1, SeparatorRun
<1>3. JarAt(3, <<>>, t, Put(j, n, w)) \in JarState
  BY <1>1, SeparatorRun
<1>4. 2 \in 1 .. 3
  OBVIOUS
<1>5. JarAt(2, n, t, j) \in JarState
  BY <1>4, JarAtState
<1> QED
  BY <1>2, <1>3, <1>5

LEMMA TwoCookiesRead ==
    ASSUME NEW v \in Seq(Int), NEW w \in Seq(Int),
           \A i \in 1 .. Len(v) : v[i] # 0, \A i \in 1 .. Len(w) : w[i] # 0
    PROVE  parse_cookies(<<A, EQUAL>> \o encode_value(v) \o <<SEMICOLON, SPACE, A, A, EQUAL>>
                            \o encode_value(w))
           = [n \in {<<A>>, <<A, A>>} |-> IF n = <<A>> THEN v ELSE w]
<1> DEFINE e == encode_value(v)
           f == encode_value(w)
           first == <<A>> \o <<EQUAL>> \o e
           second == <<A, A>> \o <<EQUAL>> \o f
           gap == <<SEMICOLON, SPACE>>
           sent == <<A, EQUAL>> \o e \o <<SEMICOLON, SPACE, A, A, EQUAL>> \o f
           start == JarAt(1, <<>>, <<>>, <<>>)
           one == Put(<<>>, <<A>>, v)
           two == Put(one, <<A, A>>, w)
<1>1. /\ Unended(e) /\ e \in Seq(Int) /\ parse_cookie_value(e) = v
      /\ Unended(f) /\ f \in Seq(Int) /\ parse_cookie_value(f) = w
  BY ValueRoundTrip DEF Unended
<1>2. CText(v) = v /\ CText(w) = w
  BY NoNul
<1>3. Nameable(<<A>>) /\ Nameable(<<A, A>>) /\ <<A>> \in Seq(Int) /\ <<A, A>> \in Seq(Int)
  <2>1. A \in Int /\ A # SPACE /\ A \notin {0, EQUAL, SEMICOLON}
    BY DEF A, SPACE, EQUAL, SEMICOLON
  <2>2. /\ <<A>> \in Seq(Int) /\ Len(<<A>>) = 1 /\ <<A>>[1] = A
        /\ <<A, A>> \in Seq(Int) /\ Len(<<A, A>>) = 2 /\ <<A, A>>[1] = A /\ <<A, A>>[2] = A
    BY <2>1
  <2>3. <<A>> # <<>> /\ <<A, A>> # <<>>
    BY <2>2
  <2>4. /\ \A i \in 1 .. 1 : <<A>>[i] = A
        /\ \A i \in 1 .. 2 : <<A, A>>[i] = A
    <3>1. (\A i \in 1 .. 1 : i = 1) /\ (\A i \in 1 .. 2 : i = 1 \/ i = 2)
      OBVIOUS
    <3> QED
      BY <2>2, <3>1
  <2>5. Nameable(<<A>>)
    BY <2>1, <2>2, <2>3, <2>4 DEF Nameable
  <2>6. Nameable(<<A, A>>)
    BY <2>1, <2>2, <2>3, <2>4 DEF Nameable
  <2> QED
    BY <2>2, <2>5, <2>6
<1>4. <<>> \in Seq(Int) /\ <<>> \in Jars
  BY EmptyJar
<1>5. one \in Jars /\ two \in Jars
  <2>1. one \in Jars
    BY <1>3, <1>4, PutJar
  <2> HIDE DEF one
  <2> QED
    BY <1>3, <2>1, PutJar
<1>6. sent = first \o gap \o second /\ first \in Seq(Int) /\ second \in Seq(Int) /\ gap \in Seq(Int)
  <2> HIDE DEF e, f
  <2> QED
    BY <1>1, SentPieces
<1> HIDE DEF e, f
<1>7. Run(JarState, JarStep, start, first, JarAt(2, <<A>>, e, <<>>))
  BY <1>1, <1>3, <1>4, CookieRead
<1>8. Run(JarState, JarStep, JarAt(2, <<A>>, e, <<>>), gap, JarAt(3, <<>>, e, one))
  BY <1>1, <1>2, <1>3, <1>4, SeparatorRun
<1> HIDE DEF one
<1>9. Run(JarState, JarStep, JarAt(3, <<>>, e, one), second, JarAt(2, <<A, A>>, f, one))
  BY <1>1, <1>3, <1>5, CookieRead
<1> HIDE DEF first, second, gap, sent, start
<1>10. Run(JarState, JarStep, start, first \o gap, JarAt(3, <<>>, e, one))
  BY <1>6, <1>7, <1>8, RunConcat
<1>11. first \o gap \in Seq(Int)
  BY <1>6
<1>12. Run(JarState, JarStep, start, sent, JarAt(2, <<A, A>>, f, one)) /\ sent \in Seq(Int)
  <2>1. Run(JarState, JarStep, start, (first \o gap) \o second, JarAt(2, <<A, A>>, f, one))
    BY <1>6, <1>9, <1>10, <1>11, RunConcat
  <2>2. (first \o gap) \o second \in Seq(Int)
    BY <1>6, <1>11
  <2> QED
    BY <1>6, <2>1, <2>2
<1> DEFINE end == JarAt(3, <<>>, f, two)
<1>13. /\ JarStep[<<JarAt(2, <<A, A>>, f, one), 0>>] = end /\ end \in JarState
       /\ JarAt(2, <<A, A>>, f, one) \in JarState
  <2> HIDE DEF two
  <2>1. /\ <<A, A>> \in Seq(Int) /\ f \in Seq(Int) /\ one \in Jars /\ w \in Seq(Int)
        /\ parse_cookie_value(f) = w /\ CText(w) = w
    BY <1>1, <1>2, <1>3, <1>5
  <2> HIDE DEF end
  <2>2. /\ JarStep[<<JarAt(2, <<A, A>>, f, one), 0>>] = JarAt(3, <<>>, f, Put(one, <<A, A>>, w))
        /\ JarAt(3, <<>>, f, Put(one, <<A, A>>, w)) \in JarState
        /\ JarAt(2, <<A, A>>, f, one) \in JarState
    BY <2>1, LastCookie
  <2> QED
    BY <2>2 DEF end, two
<1>14. Run(JarState, JarStep, start, Append(sent, 0), end)
  <2> HIDE DEF end
  <2>1. 0 \in Int
    OBVIOUS
  <2>2. Run(JarState, JarStep, start, Append(sent, 0), JarStep[<<JarAt(2, <<A, A>>, f, one), 0>>])
    BY <1>12, <1>13, <2>1, RunAppend
  <2> QED
    BY <1>13, <2>2
<1>15. sent # <<>>
  <2>1. Len(first) # 0 /\ Len(first) \in Nat
    <3>1. <<A>> \o <<EQUAL>> \in Seq(Int) /\ Len(<<A>> \o <<EQUAL>>) = 2
      BY DEF A, EQUAL
    <3> QED
      BY <1>1, <3>1 DEF first
  <2>2. Len(first \o gap) = Len(first) + Len(gap) /\ Len(gap) \in Nat
    BY <1>6
  <2>3. Len((first \o gap) \o second) = Len(first) + Len(gap) + Len(second) /\ Len(second) \in Nat
    BY <1>6, <1>11, <2>2
  <2>4. Len(sent) # 0
    BY <1>6, <2>1, <2>2, <2>3
  <2> QED
    BY <1>12, <2>4
<1>16. parse_cookies(sent) = end.jar
  BY <1>12, <1>14, <1>15, JarParsed DEF start
<1>17. end.jar = two
  BY DEF JarAt
<1>18. two = [n \in {<<A>>, <<A, A>>} |-> IF n = <<A>> THEN v ELSE w]
  <2>1. <<A>> # <<A, A>>
    <3>1. Len(<<A>>) = 1 /\ Len(<<A, A>>) = 2
      OBVIOUS
    <3> QED
      BY <3>1
  <2>2. DOMAIN one = {<<A>>} /\ one[<<A>>] = v
    BY DEF one, Put
  <2>3. two = [n \in {<<A>>, <<A, A>>} |-> IF n = <<A, A>> THEN w ELSE one[n]]
    <3>1. {<<A>>} \cup {<<A, A>>} = {<<A>>, <<A, A>>}
      OBVIOUS
    <3> QED
      BY <2>2, <3>1 DEF Put
  <2>4. \A n \in {<<A>>, <<A, A>>} : (IF n = <<A, A>> THEN w ELSE one[n])
                                     = (IF n = <<A>> THEN v ELSE w)
    BY <2>1, <2>2
  <2> HIDE DEF two
  <2> QED
    BY <2>3, <2>4
<1> QED
  BY <1>16, <1>17, <1>18 DEF sent, e, f

\* A value is a C string: it holds no NUL.
InputsAreStrings == \A t \in Inputs : \A i \in 1 .. Len(t) : t[i] # 0

\* encode_value and parse_cookies are inverses: whatever two values are set, a browser
\* that sends both cookies brings both values back.
THEOREM CookieRoundTripHolds == ASSUME InputsAreStrings PROVE ParserSpec => []CookieRoundTrip
<1>1. text \in Inputs => CookieRoundTrip
  <2> SUFFICES ASSUME text \in Inputs PROVE CookieRoundTrip
    OBVIOUS
  <2> DEFINE other == Reverse(text)
  <2>1. text \in Seq(Int) /\ Len(text) \in Nat /\ \A i \in 1 .. Len(text) : text[i] # 0
    BY InputsAssumption DEF InputsAreStrings
  <2>2. other = [i \in 1 .. Len(text) |-> text[(Len(text) - i) + 1]]
    BY DEF Reverse
  <2>3. \A i \in 1 .. Len(text) : (Len(text) - i) + 1 \in 1 .. Len(text)
    BY <2>1
  <2> HIDE DEF other
  <2>4. other \in [1 .. Len(text) -> Int] /\ \A i \in 1 .. Len(text) : other[i] # 0
    BY <2>1, <2>2, <2>3
  <2>5. other \in Seq(Int) /\ Len(other) = Len(text)
    BY <2>1, <2>4, FunctionText
  <2>6. parse_cookies(<<A, EQUAL>> \o encode_value(text) \o <<SEMICOLON, SPACE, A, A, EQUAL>>
                         \o encode_value(other))
        = [n \in {<<A>>, <<A, A>>} |-> IF n = <<A>> THEN text ELSE other]
    BY <2>1, <2>4, <2>5, TwoCookiesRead
  <2> QED
    BY <2>6 DEF CookieRoundTrip, other
<1> QED
  BY <1>1, TextKept, PTL
=============================================================================

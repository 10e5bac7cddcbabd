----------------------------- MODULE CgiCookies -----------------------------
(***************************************************************************)
(* The cookies of src/src/cad_cgi_cookies.c: objects in memory, which the  *)
(* handler makes and changes, and the jar, which owns those that are put   *)
(* in it.  A cookie is named by its address.  malloc may fail in the       *)
(* functions that set a field.                                             *)
(***************************************************************************)
EXTENDS CgiMeta, FiniteSetsExt

CONSTANTS
    Names,       \* names of cookies, texts
    Values,      \* values of cookies, texts
    MaxFaults,   \* bound: how often malloc fails
    MaxCookies,  \* bound: how many cookies the handlers of a process make
    Resets       \* whether the handler sets a cookie that is in the jar already

\* Names are not escaped: they hold nothing that ends them, and no blank before them.
ASSUME TextsAssumption ==
    /\ IsFiniteSet(Names)
    /\ \A n \in Names : /\ n \in Seq(Int) /\ n # <<>> /\ n[1] # SPACE
                        /\ \A k \in 1 .. Len(n) : n[k] \notin {0, EQUAL, SEMICOLON}
    /\ \A v \in Values : v \in Seq(Int) /\ \A k \in 1 .. Len(v) : v[k] # 0

VARIABLES
    heap,     \* addresses to the cookies that were made, alive or freed
    jar,      \* names to cookies
    touched,  \* names and values of what the handler has changed in the jar
    faults,   \* how often malloc has failed
    mishap    \* what went wrong in memory: NULL, "wild free" (of what malloc left), or
              \* "double free", which is kept rather than a wild one

cookieVars == <<heap, jar, touched, faults, mishap>>

\* All fields are initialised but the value.  `wild`, `alive` and `kept` are not fields of
\* the cookie: whether the value is what malloc left, NULL or anything, whether the cookie
\* was freed, and whether it was ever in the jar.
new_cad_cgi_cookie(n, v) ==
    [name |-> n, value |-> v, changed |-> FALSE, expires |-> 0, max_age |-> 0,
     flag |-> "default", domain |-> NULL, path |-> NULL,
     wild |-> TRUE, alive |-> TRUE, kept |-> FALSE]

\* The addresses of the cookies that the environment and the handler make.
Sent(n) == <<"sent", n>>
Made == {<<"made", i>> : i \in 1 .. MaxCookies}

\* The jar that is made of the environment: one cookie for each name.
Parsed(http_cookie) ==
    LET sent == parse_cookies(http_cookie)
    IN  [cookies |-> [k \in {Sent(n) : n \in DOMAIN sent} |->
                         [new_cad_cgi_cookie(k[2], sent[k[2]]) EXCEPT !.wild = FALSE, !.kept = TRUE]],
         jar |-> [n \in DOMAIN sent |-> Sent(n)]]

MallocFails == faults < MaxFaults /\ faults' = faults + 1

InJar == {jar[n] : n \in DOMAIN jar}

\* The handler only works on cookies that it has not lost.
Usable(k) == heap[k].alive

\* A change the code makes to cookie k, and what the handler expects of it.
Changed(k, cookie) ==
    /\ heap' = [heap EXCEPT ![k] = [cookie EXCEPT !.changed = TRUE]]
    /\ touched' = IF k \in InJar THEN Put(touched, cookie.name, cookie.value) ELSE touched
    /\ UNCHANGED jar

new_cookie(n) ==
    /\ Made \ DOMAIN heap # {}
    /\ LET k == CHOOSE k \in Made \ DOMAIN heap : TRUE
       IN  heap' = Put(heap, k, new_cad_cgi_cookie(n, NoValue))
    /\ UNCHANGED <<jar, touched, faults, mishap>>

\* Mutant: the flag that makes the cookie be sent is not set.
set_value_quiet(k, v) ==
    /\ Usable(k)
    /\ heap' = [heap EXCEPT ![k].value = v]
    /\ touched' = IF k \in InJar THEN Put(touched, heap[k].name, v) ELSE touched
    /\ UNCHANGED <<jar, faults, mishap>>

\* What may have gone wrong after a free: what was never initialised may be NULL, or not.
AfterFree(wild) == IF wild /\ mishap = NULL THEN {NULL, "wild free"} ELSE {mishap}

\* The old value is freed, whatever it is, then the new one is copied.
set_value(k, v) ==
    /\ Usable(k)
    /\ mishap' \in AfterFree(heap[k].wild)
    /\ \/ Changed(k, [heap[k] EXCEPT !.value = v, !.wild = FALSE]) /\ UNCHANGED faults
       \/ /\ MallocFails
          /\ heap' = [heap EXCEPT ![k] = [@ EXCEPT !.value = NoValue, !.wild = FALSE]]
          /\ UNCHANGED <<jar, touched>>

\* Either is refused while the other is set.
set_expires(k, t) ==
    /\ Usable(k)
    /\ heap[k].max_age = 0
    /\ Changed(k, [heap[k] EXCEPT !.expires = t])
    /\ UNCHANGED <<faults, mishap>>

set_max_age(k, t) ==
    /\ Usable(k)
    /\ heap[k].expires = 0
    /\ Changed(k, [heap[k] EXCEPT !.max_age = t])
    /\ UNCHANGED <<faults, mishap>>

set_domain(k, d) ==
    /\ Usable(k)
    /\ UNCHANGED mishap
    /\ \/ Changed(k, [heap[k] EXCEPT !.domain = d]) /\ UNCHANGED faults
       \/ /\ MallocFails
          /\ heap' = [heap EXCEPT ![k].domain = NULL]
          /\ UNCHANGED <<jar, touched>>

set_path(k, p) ==
    /\ Usable(k)
    /\ UNCHANGED mishap
    /\ \/ Changed(k, [heap[k] EXCEPT !.path = p]) /\ UNCHANGED faults
       \/ /\ MallocFails
          /\ heap' = [heap EXCEPT ![k].path = NULL]
          /\ UNCHANGED <<jar, touched>>

set_flag(k, f) ==
    /\ Usable(k)
    /\ Changed(k, [heap[k] EXCEPT !.flag = f])
    /\ UNCHANGED <<faults, mishap>>

\* A set of cookies is freed: one of them, or the whole jar.
Freed(cookies, K) == [k \in DOMAIN cookies |->
                         IF k \in K THEN [cookies[k] EXCEPT !.alive = FALSE] ELSE cookies[k]]
AfterFrees(K) == IF \E k \in K : ~heap[k].alive THEN {"double free"}
                 ELSE AfterFree(\E k \in K : heap[k].wild)

\* A cookie that goes in the jar is expected to be sent if it was given anything.
Touched(k) ==
    LET n == heap[k].name
    IN  IF heap[k].changed THEN Put(touched, n, heap[k].value)
        ELSE [m \in DOMAIN touched \ {n} |-> touched[m]]

\* Mutant: the cookie that was in the jar is not freed.
set_leaks(k) ==
    /\ Usable(k)
    /\ k \notin InJar
    /\ jar' = Put(jar, heap[k].name, k)
    /\ heap' = [heap EXCEPT ![k].kept = TRUE]
    /\ touched' = Touched(k)
    /\ UNCHANGED <<faults, mishap>>

\* The cookie goes in the jar; the one that the hash table gives back is freed.
set(k) ==
    LET n == heap[k].name
        old == IF n \in DOMAIN jar THEN {jar[n]} ELSE {}
    IN  /\ Usable(k)
        /\ k \in InJar => Resets
        /\ jar' = Put(jar, n, k)
        /\ heap' = [Freed(heap, old) EXCEPT ![k].kept = TRUE]
        /\ mishap' \in AfterFrees(old)
        /\ touched' = Touched(k)
        /\ UNCHANGED faults

\* The handler frees a cookie that it did not put in the jar.
free_cookie(k) ==
    /\ Usable(k)
    /\ k \notin InJar
    /\ heap' = Freed(heap, {k})
    /\ mishap' \in AfterFrees({k})
    /\ UNCHANGED <<jar, touched, faults>>

\* A line for each cookie that was changed, which is then not any more.  The dates
\* and the attributes of the lines are left out.
flush_cookie(k) == [name |-> heap[k].name, value |-> encode_value(heap[k].value)]

ToFlush == {k \in InJar : heap[k].changed}
Unchanged == [k \in DOMAIN heap |-> IF k \in InJar THEN [heap[k] EXCEPT !.changed = FALSE]
                                                   ELSE heap[k]]

\* encode_value reads the value before it is tested for NULL.
NullValue == \E k \in ToFlush : heap[k].value = NoValue

CookieCall ==
    \/ \E n \in Names : new_cookie(n)
    \/ \E k \in DOMAIN heap :
          \/ \E v \in Values : set_value(k, v)
          \/ set_expires(k, 1) \/ set_max_age(k, 1)
          \/ set_domain(k, "domain") \/ set_path(k, "path") \/ set_flag(k, "secure")
          \/ set(k) \/ free_cookie(k)

\* The jar only holds cookies that are alive, each under its name: get, iterate and
\* flush never meet one that was freed.
JarAlive == \A n \in DOMAIN jar : heap[jar[n]].alive /\ heap[jar[n]].name = n
=============================================================================

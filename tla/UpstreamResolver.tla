-------------------------- MODULE UpstreamResolver --------------------------
(***************************************************************************)
(* The choice of the upstream server of a new session: the static and the  *)
(* discovery resolver (static_resolver.rs, discovery_resolver.rs).         *)
(*                                                                         *)
(* resolve reads the list and bumps the counter under the read lock, and   *)
(* fetch_add is atomic, so a call takes effect in one step.  The reload    *)
(* loop looks the name up without the lock and replaces the list later,    *)
(* under the write lock: what it applies may be out of date by then.       *)
(***************************************************************************)
EXTENDS Integers, Sequences

CONSTANTS
    Addresses,    \* addresses of upstream servers
    Answers,      \* sequences of addresses that a lookup may return, or that
                  \* are configured
    Unusable,     \* addresses for which Url::set_host returns an error, if any
    CounterSize,  \* number of values of the counter (2^64 in the code)
    MaxPicks      \* bound: calls of resolve between two reloads

ASSUME ResolverAssumption ==
    /\ Answers \subseteq Seq(Addresses) /\ Answers # {}
    /\ CounterSize \in Nat \ {0} /\ MaxPicks \in Nat

VARIABLES
    kind,        \* "static" or "discovery", by configuration
    dns,         \* what the name resolves to now
    loop,        \* reload loop: waiting, looking, applying or stopped
    looked,      \* addresses of the lookup about to be applied
    found_urls, counter,
    cancelled,   \* cancel_token
    picks, n     \* calls per entry, and calls, since the last reload

vars == <<kind, dns, loop, looked, found_urls, counter, cancelled, picks, n>>

\* The loop over the addresses of a lookup: after k of them, the URLs pushed.
Usable(q) ==
    LET pushed[k \in 0..Len(q)] ==
          IF k = 0 THEN <<>>
          ELSE IF q[k] \in Unusable THEN pushed[k - 1]
          ELSE Append(pushed[k - 1], q[k])
    IN pushed[Len(q)]

UrlLists == {Usable(q) : q \in Answers}

TypeOK ==
    /\ kind \in {"static", "discovery"}
    /\ dns \in Answers
    /\ loop \in {"waiting", "looking", "applying", "stopped"}
    /\ looked \in UrlLists \cup {<<>>}
    /\ found_urls \in UrlLists \cup Answers \cup {<<>>}
    /\ counter \in 0..CounterSize - 1
    /\ cancelled \in BOOLEAN
    /\ picks \in [DOMAIN found_urls -> Nat]
    /\ n \in Nat

Zeros(q) == [i \in DOMAIN q |-> 0]

Init ==
    /\ dns \in Answers
    /\ looked = <<>>
    /\ \/ kind = "discovery" /\ loop = "waiting" /\ found_urls = <<>>
       \/ kind = "static" /\ loop = "stopped" /\ found_urls = dns
    /\ counter = 0
    /\ cancelled = FALSE
    /\ picks = Zeros(found_urls) /\ n = 0

-----------------------------------------------------------------------------
Index(c, len) == c % len

\* Mutant: the counter is of a type that does not wrap.
Resolve_NoWrap ==
    /\ found_urls # <<>>
    /\ n < MaxPicks
    /\ counter' = counter + 1
    /\ picks' = [picks EXCEPT ![Index(counter, Len(found_urls)) + 1] = @ + 1]
    /\ n' = n + 1
    /\ UNCHANGED <<kind, dns, loop, looked, found_urls, cancelled>>

\* resolve: the entry the counter points at.  An empty list is answered with
\* ServiceUnavailable and changes nothing.
Resolve ==
    LET i == Index(counter, Len(found_urls)) + 1 IN
    /\ found_urls # <<>>
    /\ n < MaxPicks
    /\ counter' = (counter + 1) % CounterSize
    /\ picks' = [picks EXCEPT ![i] = @ + 1]
    /\ n' = n + 1
    /\ UNCHANGED <<kind, dns, loop, looked, found_urls, cancelled>>

\* The interval ticks.  A cancelled token may lose the select against it.
Tick ==
    /\ loop = "waiting"
    /\ loop' = "looking"
    /\ UNCHANGED <<kind, dns, looked, found_urls, counter, cancelled, picks, n>>

LookupAnswers ==
    /\ loop = "looking"
    /\ loop' = "applying"
    /\ looked' = Usable(dns)
    /\ UNCHANGED <<kind, dns, found_urls, counter, cancelled, picks, n>>

\* Mutant: a failed lookup ends the loop.
LookupFails_Breaks ==
    /\ loop = "looking"
    /\ loop' = "stopped"
    /\ UNCHANGED <<kind, dns, looked, found_urls, counter, cancelled, picks, n>>

\* A failed lookup is logged and the old list kept until the next tick.
LookupFails ==
    /\ loop = "looking"
    /\ loop' = "waiting"
    /\ UNCHANGED <<kind, dns, looked, found_urls, counter, cancelled, picks, n>>

\* Mutant: the list is replaced under a counter that keeps its position.
Apply_KeepsCounter ==
    /\ loop = "applying"
    /\ loop' = "waiting"
    /\ found_urls' = looked
    /\ picks' = Zeros(looked) /\ n' = 0
    /\ UNCHANGED <<kind, dns, looked, counter, cancelled>>

\* Under the write lock: counter and list are replaced together.
Apply ==
    /\ loop = "applying"
    /\ loop' = "waiting"
    /\ found_urls' = looked
    /\ looked' = <<>>
    /\ counter' = 0
    /\ picks' = Zeros(looked) /\ n' = 0
    /\ UNCHANGED <<kind, dns, cancelled>>

LoopStops ==
    /\ loop = "waiting"
    /\ cancelled
    /\ loop' = "stopped"
    /\ UNCHANGED <<kind, dns, looked, found_urls, counter, cancelled, picks, n>>

\* Environment: records change, the root token is cancelled.
DnsChanges ==
    /\ kind = "discovery"
    /\ dns' \in Answers \ {dns}
    /\ UNCHANGED <<kind, loop, looked, found_urls, counter, cancelled, picks, n>>

Cancel ==
    /\ ~cancelled
    /\ cancelled' = TRUE
    /\ UNCHANGED <<kind, dns, loop, looked, found_urls, counter, picks, n>>

Next ==
    \/ Resolve
    \/ Tick \/ LookupAnswers \/ LookupFails \/ Apply \/ LoopStops
    \/ DnsChanges \/ Cancel

Spec == Init /\ [][Next]_vars

\* The interval ticks while the loop waits, a woken loop runs, and lookups that
\* are retried for ever do not fail for ever.
FairSpec ==
    /\ Spec
    /\ WF_vars(Tick) /\ WF_vars(Apply) /\ WF_vars(LoopStops)
    /\ WF_vars(LookupAnswers \/ LookupFails) /\ SF_vars(LookupAnswers)

-----------------------------------------------------------------------------
\* Round robin: of the calls since the last reload every entry of the list got
\* the same number, the first ones one more, until the counter wraps; each time
\* it wraps between two entries adds at most one to the difference.
RoundRobin ==
    /\ n <= CounterSize =>
         \A i \in DOMAIN picks :
            picks[i] = (n + Len(found_urls) - i) \div Len(found_urls)
    /\ \A i, j \in DOMAIN picks : picks[i] - picks[j] <= 1 + n \div CounterSize

\* When the records stop changing and the server keeps running, the list becomes
\* the usable addresses of the records and stays so, whichever lookups fail and
\* however late a lookup's answer is applied.
Converges ==
    \A q \in Answers :
        <>[](kind = "discovery" /\ dns = q /\ ~cancelled)
            => <>[](found_urls = Usable(q))
=============================================================================

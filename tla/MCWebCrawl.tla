------------------------------ MODULE MCWebCrawl ------------------------------
(* Instances of WebCrawl for TLC: four sources of three to five pages. *)
EXTENDS WebCrawl, TLC
CONSTANTS s, a, b, p, q, c1, c2

\* s links to a, a links to b and back.
Chain == (s :> {a}) @@ (a :> {b, s}) @@ (b :> {}) @@ (p :> {}) @@ (q :> {})
\* s links to a and to b.
Fork == (s :> {a, b}) @@ (a :> {s}) @@ (b :> {}) @@ (p :> {}) @@ (q :> {})
\* s links to a, to b and to p.
Fan == (s :> {a, b, p}) @@ (a :> {s}) @@ (b :> {}) @@ (p :> {}) @@ (q :> {})

\* Two seeds: s links to b, and p to a to b to q.
Shortcut == (s :> {b}) @@ (p :> {a}) @@ (a :> {b}) @@ (b :> {q}) @@ (q :> {})

\* Every page is its own canonical URL.
Own == (s :> s) @@ (a :> a) @@ (b :> b) @@ (p :> p) @@ (q :> q)
\* a is the canonical URL of b.
Shared == (s :> s) @@ (a :> a) @@ (b :> a) @@ (p :> p) @@ (q :> q)

\* A crawl that is aborted and resumed while the site changes.
Resumed == [urls |-> {s, a, b}, seeds |-> {s}, links |-> Chain, canon |-> Own, disallowed |-> {},
            contents |-> {c1, c2}, depth |-> 2, pages |-> 3, faults |-> {"abort"},
            jobs |-> 2, changes |-> 2]
\* Every fault at once, a cap, and two URLs of one canonical page.
Faulty == [urls |-> {s, a, b}, seeds |-> {s}, links |-> Fork, canon |-> Shared, disallowed |-> {},
           contents |-> {c1}, depth |-> 1, pages |-> 2, faults |-> FaultKinds,
           jobs |-> 2, changes |-> 1]
\* Crawls that are not aborted, with a shared canonical URL and a robots exclusion.
Whole == [urls |-> {s, a, b, p}, seeds |-> {s}, links |-> Fan, canon |-> Shared, disallowed |-> {p},
          contents |-> {c1}, depth |-> 1, pages |-> 4, faults |-> {"persist"},
          jobs |-> 2, changes |-> 1]
\* A page that is first found the long way.
LongWay == [urls |-> {s, a, b, p, q}, seeds |-> {s, p}, links |-> Shortcut, canon |-> Own, disallowed |-> {},
            contents |-> {c1}, depth |-> 2, pages |-> 5, faults |-> {"persist"},
            jobs |-> 2, changes |-> 1]
FourSources == {Resumed, Faulty, Whole, LongWay}
=============================================================================

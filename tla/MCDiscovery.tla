---------------------------- MODULE MCDiscovery ----------------------------
(* Pools and configurations for module Discovery.                           *)
EXTENDS Discovery

\* By GeckoTerminal's account pools 2 and 3 were created together; DexScreener
\* dates pool 3 later and the youngest one, pool 5, back to the first.
CreatedByGecko == <<1, 2, 2, 4, 5, 4>>
CreatedByDex == <<1, 2, 4, 4, 1, 4>>

\* Against the order of identities; pools 3 and 6 are two mints of one pool.
Addresses == <<1, 5, 2, 4, 3, 2>>

\* Production reads one page of the merged sources; the tests read more pages
\* of one source, which no cap cuts.
Configured ==
    {[maxPages |-> 1, cap |-> 2, hints |-> 1],
     [maxPages |-> 2, cap |-> PageSize, hints |-> 0]}
=============================================================================

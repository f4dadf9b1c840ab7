---------------------------- MODULE HttpHandler ----------------------------
(***************************************************************************)
(* The HTTP client helper of the protocol plugins (plugins/lib/http.c).   *)
(* An HttpHandler holds its live HttpConnections (handler->conns), the    *)
(* DNS queries it started (handler->dns_queries), the cookie table and    *)
(* the hostname -> IP cache.  Every step runs in a libpurple callback;    *)
(* libpurple keeps its own registrations: pending proxy connects, input   *)
(* watchers and DNS lookups, which it will call back until cancelled.     *)
(*                                                                         *)
(* The operators take and return a record w holding both sides, so that  *)
(* a caller (GaAccount) can chain them within one handler.  Only the      *)
(* cookie "cookielogin" is told apart; every request goes to one host     *)
(* over plain HTTP without a proxy (the plugin never sets                 *)
(* HTTP_METHOD_SSL), so http_attempt_connection always takes the          *)
(* purple_proxy_connect branch.                                           *)
(***************************************************************************)
EXTENDS Naturals, FiniteSets, FiniteSetsExt

CONSTANTS
    Ids,      \* HttpConnection objects that may be live at once
    NoConn,   \* an Ids slot with no live HttpConnection
    MaxDns    \* bound on the DNS lookups outstanding at once

VARIABLES
    conns,        \* conns[i]: the HttpConnection i of handler->conns, or NoConn
    dns_queries,  \* length of handler->dns_queries
    cookielogin,  \* cookie_table holds "cookielogin"
    cache,        \* hostname_ip_cache has a non-NULL IP for the host
    pendConnect,  \* libpurple: connections whose proxy connect will call back
    watches,      \* libpurple: connections with a read watcher
    lookups       \* libpurple: DNS lookups that will call http_host_lookup_cb

httpVars == <<conns, dns_queries, cookielogin, cache, pendConnect, watches, lookups>>

(* A connection: what it was made for (its callback and user_data),      *)
(* connect_data # NULL, input_watcher > 0, and how much of the response   *)
(* is in rx_buf: none, part of the headers, or everything up to and past  *)
(* "\r\n\r\n".  The descriptor is closed with the object and not kept.     *)
Conn(P) == [purpose : P, connect : BOOLEAN, watch : BOOLEAN, rx : 0..2]
HeadersEnd == 2

Live(w)    == {i \in Ids : w.conns[i] # NoConn}
FreeIds(w) == Ids \ Live(w)

\* The state http_handler_new leaves: no connection, nothing cached.
HandlerInit ==
    /\ conns = [i \in Ids |-> NoConn]
    /\ dns_queries = 0
    /\ cookielogin = FALSE
    /\ cache = FALSE
    /\ pendConnect = {}
    /\ watches = {}
    /\ lookups = 0

(* Room for n more requests in the model's bounds: n free connection     *)
(* objects, and n more lookups should the cache miss.                     *)
CanPost(w, n) ==
    /\ Cardinality(FreeIds(w)) >= n
    /\ w.cache \/ w.lookups + n <= MaxDns

(* http_attempt_connection, without SSL: purple_proxy_connect registers  *)
(* the connect and its handle becomes connect_data.  The retry code is    *)
(* compiled out (#if 0), so there is no second attempt and no deadline.   *)
http_attempt_connection(w, i) ==
    [w EXCEPT !.conns[i].connect = TRUE, !.pendConnect = @ \cup {i}]

(* http_post_or_get: the request text is built (not modelled: it is only *)
(* sent).  On a cache miss a lookup is started and recorded in            *)
(* dns_queries (account->disconnecting is never set while a plugin        *)
(* callback runs).  The new HttpConnection is prepended to conns and the  *)
(* connection attempted.                                                   *)
http_post_or_get(w, purpose) ==
    LET i == CHOOSE j \in FreeIds(w) : TRUE
        lookup == ~w.cache
        w1 == [w EXCEPT !.dns_queries = IF lookup THEN @ + 1 ELSE @,
                        !.lookups     = IF lookup THEN @ + 1 ELSE @,
                        !.conns[i]    = [purpose |-> purpose, connect |-> FALSE,
                                         watch |-> FALSE, rx |-> 0]]
    IN  http_attempt_connection(w1, i)

(* http_connection_destroy: leave conns, cancel the proxy connect if      *)
(* connect_data is set, close fd, remove the input watcher if there is    *)
(* one.                                                                    *)
http_connection_destroy(w, i) ==
    [w EXCEPT !.conns[i]    = NoConn,
              !.pendConnect = IF w.conns[i].connect THEN @ \ {i} ELSE @,
              !.watches     = IF w.conns[i].watch THEN @ \ {i} ELSE @]

(* http_update_cookies: each "Set-Cookie: name=value;" of the headers    *)
(* replaces the table's entry; no cookie is ever removed.                 *)
http_update_cookies(w, setsLogin) == [w EXCEPT !.cookielogin = @ \/ setsLogin]

(* http_connection_process_data, up to the callback: when rx_buf holds    *)
(* the end of the headers, the cookies they set are entered; a response   *)
(* cut before it is handed on as it is.                                    *)
http_connection_process_data(w, i, setsLogin) ==
    IF w.conns[i].rx = HeadersEnd THEN http_update_cookies(w, setsLogin) ELSE w

(* Mutant: the DNS queries are left running.                             *)
http_handler_freeKeepDns(w) ==
    FoldSet(LAMBDA i, acc : http_connection_destroy(acc, i), w, Live(w))

(* http_handler_free: destroy every connection, then cancel every DNS     *)
(* query of dns_queries.                                                   *)
http_handler_free(w) ==
    LET w1 == FoldSet(LAMBDA i, acc : http_connection_destroy(acc, i), w, Live(w))
    IN  [w1 EXCEPT !.lookups = @ - w1.dns_queries, !.dns_queries = 0]
=============================================================================

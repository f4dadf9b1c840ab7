----------------------------- MODULE GaAccount -----------------------------
(***************************************************************************)
(* The gayattitude protocol plugin's account (plugins/gayattitude/         *)
(* ga_account.c, ga_buddylist.c) driving its HttpHandler (HttpHandler).    *)
(* libpurple calls back whatever is registered: a proxy connect's result, *)
(* a readable socket, a DNS answer, the status timer; the user logs in   *)
(* and closes the account.  Each callback runs to completion on the glib  *)
(* loop, so each is one action.                                            *)
(***************************************************************************)
EXTENDS HttpHandler

CONSTANTS
    Lists,           \* the buddy lists ga_buddylist_update fetches
    ConnectResults,  \* "error" (connect failed), or what write() of the request did: "ok", "eagain", "fail"
    LoginReplies,    \* "cookie": the response sets cookielogin; "nocookie"
    DnsResults,      \* "ip", or "fail" (error, no host, only 0.0.0.0)
    TimerReturns     \* what the GSourceFunc cast of a void function returns

VARIABLES
    pc,        \* the PurpleConnection's state as the plugin sets it
    timerId,   \* gaa->new_messages_check_timer # 0
    timerSrc,  \* glib: the check timer is registered
    freed      \* ga_account_free has run

vars == <<httpVars, pc, timerId, timerSrc, freed>>

Purposes == {"login", "status"} \cup Lists
PcStates == {"offline", "connecting", "connected", "autherr", "neterr", "closed"}

\* The whole state as one record, for the operators of HttpHandler.
W == [conns |-> conns, dns_queries |-> dns_queries, cookielogin |-> cookielogin,
      cache |-> cache, pendConnect |-> pendConnect, watches |-> watches,
      lookups |-> lookups, pc |-> pc, timerId |-> timerId, timerSrc |-> timerSrc,
      freed |-> freed]

Commit(w) ==
    /\ conns' = w.conns /\ dns_queries' = w.dns_queries /\ cookielogin' = w.cookielogin
    /\ cache' = w.cache /\ pendConnect' = w.pendConnect /\ watches' = w.watches
    /\ lookups' = w.lookups /\ pc' = w.pc /\ timerId' = w.timerId
    /\ timerSrc' = w.timerSrc /\ freed' = w.freed

\* ga_account_new: the account with its new HttpHandler, not yet logging in.
Init ==
    /\ HandlerInit
    /\ pc = "offline"
    /\ timerId = FALSE
    /\ timerSrc = FALSE
    /\ freed = FALSE

(* http_fatal_connection_cb: destroy the connection, then report a        *)
(* network error on the PurpleConnection; the callback is not called.     *)
http_fatal_connection_cb(w, i) ==
    LET w1 == http_connection_destroy(w, i)
    IN  [w1 EXCEPT !.pc = IF @ \in {"connecting", "connected"} THEN "neterr" ELSE @]

(* ga_buddylist_update: one GET per list, each parsed by                  *)
(* ga_buddylist_parse_cb.                                                  *)
ga_buddylist_update(w) == FoldSet(LAMBDA l, acc : http_post_or_get(acc, l), w, Lists)

\* ga_buddylist_check_status: a GET of the online list.
ga_buddylist_check_status(w) == http_post_or_get(w, "status")

(* ga_account_check_changes: the status check.  ga_message_check_received *)
(* is not in this tree.                                                    *)
ga_account_check_changes(w) == ga_buddylist_check_status(w)

(* ga_account_login_cb: without cookielogin in the cookie table, an       *)
(* authentication error; otherwise CONNECTED, the lists, a first check    *)
(* and the check timer.                                                    *)
ga_account_login_cb(w) ==
    IF ~w.cookielogin THEN [w EXCEPT !.pc = "autherr"]
    ELSE LET w1 == ga_account_check_changes(ga_buddylist_update([w EXCEPT !.pc = "connected"]))
         IN  [w1 EXCEPT !.timerId = TRUE, !.timerSrc = TRUE]

(* fbconn->callback.  ga_buddylist_parse_cb turns the HTML into buddy-    *)
(* list entries of libpurple, which the model does not hold.              *)
Callback(w, purpose) == IF purpose = "login" THEN ga_account_login_cb(w) ELSE w

\* Requests a callback may make: the login callback makes the most.
Room(w, i) == w.conns[i].purpose = "login" => CanPost(w, Cardinality(Lists) + 1)

-----------------------------------------------------------------------------
\* ga_account_login: CONNECTING, then the POST of the login form.
ga_account_login ==
    /\ pc = "offline"
    /\ CanPost(W, 1)
    /\ Commit(http_post_or_get([W EXCEPT !.pc = "connecting"], "login"))

(* Mutant: a written request gets no read watcher.                        *)
http_post_or_get_connect_cbNoWatch(i) ==
    /\ i \in pendConnect
    /\ \E res \in ConnectResults :
          LET w0 == [W EXCEPT !.pendConnect = @ \ {i}, !.conns[i].connect = FALSE]
          IN  Commit(IF res = "ok" \/ res = "eagain" THEN w0
                     ELSE http_fatal_connection_cb(w0, i))

(* Mutant: the answered query is not removed from dns_queries.           *)
http_host_lookup_cbKeep ==
    /\ lookups > 0
    /\ \E res \in DnsResults :
          /\ lookups' = lookups - 1
          /\ cache' = (cache \/ res = "ip")
    /\ UNCHANGED <<conns, dns_queries, cookielogin, pendConnect, watches, pc, timerId, timerSrc, freed>>

(* http_post_or_get_connect_cb: connect_data is cleared; on a connect     *)
(* error the connection is fatal.  Otherwise the request is written: on  *)
(* EAGAIN the callback returns, on a failed write the connection is       *)
(* fatal, and on any count written (a short one too) a read watcher is    *)
(* added.                                                                   *)
http_post_or_get_connect_cb(i) ==
    /\ i \in pendConnect
    /\ \E res \in ConnectResults :
          LET w0 == [W EXCEPT !.pendConnect = @ \ {i}, !.conns[i].connect = FALSE]
          IN  Commit(CASE res = "ok"     -> [w0 EXCEPT !.conns[i].watch = TRUE,
                                                       !.watches = @ \cup {i}]
                       [] res = "eagain" -> w0
                       [] OTHER          -> http_fatal_connection_cb(w0, i))

(* http_post_or_get_readdata_cb, for each outcome of recv(): more of the  *)
(* response is appended to rx_buf; an error other than EAGAIN/EINTR is    *)
(* fatal; 0 (the server closed) processes the data, calls the callback    *)
(* and destroys the connection.  EAGAIN/EINTR return with nothing done.   *)
ReadMore(i) ==
    /\ conns[i].rx < HeadersEnd
    /\ Commit([W EXCEPT !.conns[i].rx = @ + 1])

ReadError(i) == Commit(http_fatal_connection_cb(W, i))

ReadEof(i) ==
    /\ Room(W, i)
    /\ \E r \in LoginReplies :
          LET w1 == http_connection_process_data(W, i, r = "cookie")
          IN  Commit(http_connection_destroy(Callback(w1, conns[i].purpose), i))

http_post_or_get_readdata_cb(i) ==
    /\ i \in watches
    /\ ReadMore(i) \/ ReadError(i) \/ ReadEof(i)

(* http_host_lookup_cb: the query leaves dns_queries; an error or an      *)
(* empty answer returns; otherwise the first non-zero address is cached. *)
http_host_lookup_cb ==
    /\ lookups > 0
    /\ \E res \in DnsResults :
          /\ lookups' = lookups - 1
          /\ dns_queries' = dns_queries - 1
          /\ cache' = (cache \/ res = "ip")
    /\ UNCHANGED <<conns, cookielogin, pendConnect, watches, pc, timerId, timerSrc, freed>>

(* The check timer fires ga_account_check_changes.  The function returns *)
(* void but is called as a GSourceFunc, so whether glib keeps the timer  *)
(* depends on whatever the return register holds.                        *)
CheckTimer ==
    /\ timerSrc
    /\ CanPost(W, 1)
    /\ \E keep \in TimerReturns :
          Commit([ga_account_check_changes(W) EXCEPT !.timerSrc = keep])

(* ga_account_free, when the account closes: remove the timer if its id   *)
(* is set, then http_handler_free.                                         *)
ga_account_free ==
    /\ ~freed
    /\ pc # "offline"
    /\ LET w1 == [W EXCEPT !.timerSrc = IF timerId THEN FALSE ELSE @]
       IN  Commit([http_handler_free(w1) EXCEPT !.freed = TRUE, !.pc = "closed"])

Next ==
    \/ ga_account_login
    \/ \E i \in Ids : http_post_or_get_connect_cb(i) \/ http_post_or_get_readdata_cb(i)
    \/ http_host_lookup_cb
    \/ CheckTimer
    \/ ga_account_free

(* libpurple calls back what is registered: a connect attempt ends, a     *)
(* server answers and closes, a DNS lookup returns.  An error reported on *)
(* the connection makes libpurple close the account.  The user's login    *)
(* and close, and the timer, get no fairness.                              *)
Fairness ==
    /\ \A i \in Ids : WF_vars(http_post_or_get_connect_cb(i))
    /\ \A i \in Ids : WF_vars(http_post_or_get_readdata_cb(i))
    /\ WF_vars(http_host_lookup_cb)
    /\ WF_vars(pc \in {"autherr", "neterr"} /\ ga_account_free)

Spec == Init /\ [][Next]_vars /\ Fairness

-----------------------------------------------------------------------------
TypeOK ==
    /\ conns \in [Ids -> Conn(Purposes) \cup {NoConn}]
    /\ dns_queries \in 0..MaxDns /\ lookups \in 0..MaxDns
    /\ cookielogin \in BOOLEAN /\ cache \in BOOLEAN
    /\ pendConnect \subseteq Ids /\ watches \subseteq Ids
    /\ pc \in PcStates
    /\ timerId \in BOOLEAN /\ timerSrc \in BOOLEAN /\ freed \in BOOLEAN

(* No callback into freed memory: every connect, watcher and DNS lookup   *)
(* libpurple holds belongs to a live HttpConnection or to the handler of *)
(* a live account, and is recorded where http_connection_destroy and      *)
(* http_handler_free look for it to cancel it; the check timer is gone    *)
(* once the account is freed.                                               *)
CallbacksTargetLive ==
    /\ pendConnect = {i \in Live(W) : conns[i].connect}
    /\ watches = {i \in Live(W) : conns[i].watch}
    /\ lookups <= dns_queries
    /\ freed => lookups = 0 /\ ~timerSrc

(* Every request ends: each HttpConnection is eventually destroyed,       *)
(* through its callback or a fatal error, so no request of the plugin    *)
(* (the login, a buddy list, a status check) hangs.                      *)
RequestsComplete == \A i \in Ids : conns[i] # NoConn ~> conns[i] = NoConn
=============================================================================

# TLA+ models of minbif

minbif is an IRC server that fronts libpurple instant messaging. Each IM
contact is an IRC nick, each multi-user IM conversation is an IRC channel,
and IRC commands become IM actions. This directory holds TLA+ models of the
parts of `src/` whose correctness depends on ordering, interleaving and
bookkeeping. It also holds the TLC configurations that check them.
`PROJECT.json` lists the components, the runs, the mutants, the map from
each TLA+ definition to the source lines it translates, the findings and the
hazards.

## The system

| Part | Source | What it holds and does |
|------|--------|------------------------|
| Entity model | `src/src/irc/channel.cpp`, `nick.h`, `user.cpp` | A `Channel` is a vector of `ChanUser` memberships, each a Nick plus mode bits (q, o, h, v). A `Nick` keeps back-references to its memberships. The IRC object keeps the server-wide nick map. `User::send` writes lines to the one real IRC client. |
| Conversation bridge | `src/src/irc/conversation_channel.cpp`, `chat_buddy.cpp` | A `ConversationChannel` per IM chat. `cbuddies` maps an IM participant to its `ChanUser`. `addBuddy`, `updateBuddy`, `renameBuddy` and `delUser` are called from libpurple callbacks; the destructor runs when the chat closes. |
| IRC front end | `src/src/irc/irc.cpp` | Reads lines from the client and dispatches them. In this tree only `NICK` (`m_nick`) is present. |
| Message codec | `src/src/irc/message.cpp`, `src/src/core/util.cpp` | `parse`, `format`, `addArg` (the trailing-argument rule) and `rebuildWithQuotes`, which merges the quoted filenames of CTCP. |
| Buddy routing | `src/src/irc/buddy.cpp` | Chooses between private and public (status-channel "nick: text") delivery, with a 3600 s window, and intercepts DCC SEND offers. |
| DCC | `src/src/irc/dcc.cpp` | `DCCSend` listens, accepts, streams 512-byte chunks and counts 4-byte acknowledgements. `DCCGet` connects, writes the file and sends the final ack. `DCCChat` only relays. |
| Session multiplexer | `src/src/server_poll/daemon_fork.cpp` | The master accepts, forks a child per client and relays IPC lines between children: OPER, WALLOPS, DIE, REHASH and USER (duplicate-login eviction). |
| HTTP client helper | `src/plugins/lib/http.c` | An `HttpHandler` per plugin account: live `HttpConnection`s, DNS queries it started, a cookie table and an IP cache. Every request is a new connection: DNS lookup (cached), proxy connect, write, reads until the server closes, then the callback. |
| GayAttitude plugin | `src/plugins/gayattitude/ga_account.c`, `ga_buddylist.c` | Logs in by POST, checks for the `cookielogin` cookie, then fetches the buddy lists and polls the online list on a timer. |
| Formatting converters | `src/src/core/util.cpp` | `irc2markup` turns mIRC control codes (bold, colour, underline, reset) into libpurple's HTML-like markup; `markup2irc` turns markup back into codes. This tree has no caller of either; libpurple's IRC-side conversions use them. |
| IM account glue | `src/src/im/account.cpp`, `purple.cpp` | minbif's view of libpurple's accounts: the account list, the `id` an account carries in its settings (or the name `getNewAccountName` computes when it has none), `addAccount` and `delAccount`, and the `connected`/`disconnected` callbacks that add and remove the account's RemoteServer, named `username:id`. |
| Not modelled | `inetd.cpp`, `poll.cpp`, `auth_local.cpp`, `minbif.cpp`, `protocol.cpp` | A single-session poll, password checks, process setup, and protocol enumeration. |

How the parts interact: libpurple events enter the bridge, which mutates the
entity model and sends lines through `User::send` to the client. Client
lines enter through the codec and `IRC`'s dispatch into the entity model, or
into buddy routing and then the IM. DCC offers in private messages go from
buddy routing to `DCCGet`. The plugins run on the same loop inside libpurple, which calls them
back for connects, readable sockets, DNS answers and timers. In daemon-fork mode every session is a process,
and the processes talk only over the master's IPC sockets.

Everything in one session runs on one glib event loop. Each callback runs to
completion, so every handler is one atomic TLA+ action. Concurrency comes
from the order in which callbacks fire: IM events, client lines, socket
readiness and timers. Across sessions it comes from separate processes.

### Hard behaviours (the hazards of `PROJECT.json`)

- **Nick uniqueness is kept by hand.** There is no unique index, only a `while(getNick(n)) n += "_"` loop in `addBuddy` and `renameBuddy`. `m_nick` has no check at all.
- **Two-sided membership.** `Channel::delUser` erases only the channel side of a membership. Every caller must drop the Nick side itself. The bridge's destructor relies on the order "remove ChatBuddies, then `~Channel`".
- **The client's view.** The client knows a channel only through the JOIN, PART, MODE, NICK and NAMES lines it was sent, so every handler must send exactly the lines that describe its change.
- **DCC.** Socket lifecycles with an accept failure, peer close, a timeout tested only on IM progress, unchecked short writes, 4-byte acks split across reads, and a 32-bit ack count that a file of 4 GiB overflows.
- **Account names.** An account without a stored id is named anew at every `getID()` from the other accounts' ids; the name is never stored, so two calls around a change of the list disagree, and two such accounts share a name.
- **IPC.** A 511-byte peek framing, and eviction that does not wait for the evicted session.
- **Formatting state.** `irc2markup` keeps one flag per open tag across the iterations of its loop. The flags must stay in step with the tags written, through `\017`, colour codes and the end of the string.

## Modules

| Module | Models | State (VARIABLES) | Actions |
|--------|--------|-------------------|---------|
| `Channel` | `channel.cpp` (and `User::send`) as pure operators | `users` (`Channel::users`), `nickChans` (`Nick::channels`), `regKey` (the nick map), `nickname`, `view` and `clientNick` (the client's picture) | none: `addUser`, `delUser`, `setMode`, `delMode` and `BroadcastLines` return the next vector plus the lines the user receives. `Deliver` applies those lines to the client's view. |
| `ConversationChannel` | `conversation_channel.cpp`, `IRC::m_nick` | plus `alive`, `imPresent` and `imRole` (what libpurple reports), `cbuddies`, and `binding` (`ChatBuddy::im_cbuddy`) | `OpenConv` (constructor), `ImJoin` (addBuddy), `ImUpdate` (updateBuddy), `ImRename` (renameBuddy), `ImLeave` (delUser), `UserPart` (Nick::part), `CloseConv` (destructor and `~Channel`), `m_nick` |
| `MCConversationChannel` | the instance for TLC | | |
| `DCCSend` | `dcc.cpp`: `DCCServer` and `DCCSend` | `srv` (the object's `listen_data`, `fd`, `watcher`, `finished`, `fp`, the EOF flag, `bytes_sent` as `pos`, `rxqueue`), `open` (descriptors the kernel holds), `written` (bytes libpurple has written to the local file), `ftValid`, `expired` (the clock past `TIMEOUT`), and the client: `peer`, `wire`, `got`, `ackWire` | `listen_cb`, `connected`, `dcc_read` (EOF path and data path), `ImProgress` and `ImEnd` (the IM calling `updated(false)` and `updated(true)`), `Tick`, and the client's `PeerConnect`, `PeerRecv`, `PeerClose` |
| `DCCGet` | `dcc.cpp`: `DCCGet`, with the callback `Buddy::process_dcc_get` allocates | `phase` (offer not processed, constructor threw, live), `get` (the object's `finished`, `sock`, `watcher`, `fp`, `callback`, `bytes_received`), `open`, `cbAlloc` and `cbRan` (the `CallBack` on the heap, and whether it ran), `fileBytes`, and the client: `peer`, `sent`, `wire`, `ackWire` | `Create` (constructor with its fopen and connect failures), `dcc_read` (EOF path, short fwrite, completion with ack and callback), `setPeer` (with NULL), `PeerSend`, `PeerClose` |
| `DaemonFork` | `daemon_fork.cpp`: the master's `new_client_cb` and `ipc_read`, `m_user`, `m_wallops`, `m_oper`, `m_die`, `ipc_master_send`/`broadcast`, and each child's `ipc_read` and `ipc_child_send` | `master`, `childs` (the vector, as a set), `username` (`child_t::username`), per connection `proc` (not accepted, refused, running, or exited by eviction, shutdown or quit), `ipc` (the child's IPC end open), `login` and `stamp` (who the session logged in as, and in which order), `up` and `down` (the IPC socket in each direction, a FIFO of lines bounded by `QCap`), `nsent` | `new_client_cb`, `MasterRead` (EOF, and the USER, WALLOPS, OPER and DIE dispatch), `ChildLogin`, `ChildSend`, `ChildRead`, `ChildQuit` |
| `MCDaemonFork` | the instance for TLC | | |
| `IrcCodec` | `util.cpp` `stringtok` and `strupper`; `message.cpp` `parse`, `format`, `addArg`, `rebuildWithQuotes`; `dcc.cpp` `parseDCCSEND` and the offer line of `listen_cb` | none: pure operators over strings of symbols | none |
| `BuddyRouting` | `buddy.cpp`: `Buddy::send`, `process_dcc_get`, `check_conv`, `sendMessage` | `public_msgs`, `public_msgs_last`, `now` (`time(NULL)`), `conv`, `imQueue` (what `enqueueMessage` got), `gets` (`createDCCGet` calls), `statusChan`, `shown` (where each IM message was shown); history `addressed` and `lastAddr` | `UserSend` (`Buddy::send` for every receiver, body, prefix and upload-directory outcome), `ImMessage` (`sendMessage`), `Tick` |
| `MCBuddyRouting` | the instance for TLC | | |
| `IpcRelay` | `daemon_fork.cpp`: `ipc_child_send`, the master's and a child's `ipc_read` framing, `m_wallops` both ways | `up` and `down` (the IPC byte streams), history `sent`, and `shown` | `OperWallops`, `MasterRead`, `ChildRead` |
| `MCIpcRelay` | the instance for TLC | | |
| `HttpHandler` | `http.c`: `http_handler_new`, `http_post_or_get`, `http_attempt_connection`, `http_connection_destroy`, `http_update_cookies`, `http_connection_process_data`, `http_handler_free`, as pure operators over a record `w` of the whole state | `conns` (each connection's purpose, `connect_data`, `input_watcher`, and how much of the response is in `rx_buf`), `dns_queries`, `cookielogin`, `cache`; and libpurple's registrations `pendConnect`, `watches`, `lookups` | none |
| `GaAccount` | `ga_account.c`, `ga_buddylist.c` (update and status GETs), and the `http.c` callbacks | plus `pc` (the connection state the plugin sets), `timerId` (`new_messages_check_timer`), `timerSrc` (glib's timer), `freed` | `ga_account_login`, `http_post_or_get_connect_cb`, `http_post_or_get_readdata_cb` (`ReadMore`, `ReadError`, `ReadEof`, which runs `ga_account_login_cb`), `http_host_lookup_cb`, `CheckTimer`, `ga_account_free` |
| `MCGaAccount` | the instance for TLC | | |
| `IrcMarkup` | `util.cpp`: `irc2markup` as a state machine, `markup2irc` and the `irc_colors` table as operators | `str` (the argument), `cur`, `decoded` (the GString, as markup tokens), `bold`, `underline`, `font`, `done` | `Bold`, `Underline`, `Color`, `Ignore`, `Reset`, `Terminator`: one per case of the switch, each with the escaped text run before the code |
| `MCIrcMarkup` | the instance for TLC: every string up to `MaxLen` over the configured control codes | | |
| `IrcSession` | `irc.cpp`: `IRC::IRC`'s initial state, `readIO` (a read of data, 0 at EOF, -1 on a reset), the command table and `m_nick` | `wire` (unread client bytes), `nickname` (userNick's), `out` (commands sendmsg wrote), history `asked`, `line` (readIO's static buffer), `peer` (the client's end open, closed or reset) | `ClientNick` and `ClientClose` (the client), `readIO`, which calls `m_nick` through `Dispatch` |
| `MCIrcSession` | the instance for TLC | | |
| `AccountRegistry` | `purple.cpp`: `getNewAccountName` (the scan that restarts after every hit), `getAccountsList`, `addAccount`, `delAccount`; `account.cpp`: `getID`, `getServername`, `connect`, `disconnect`, `connected`, `disconnected`, `Account::init` | `list` (`purple_accounts_get_all`, in order), `storedId` (the `id` ui string), `created`, `enabled`, `online` (connection established), `servers` (RemoteServer names), `chans` (status channels), `booted` | `inited`, `addAccount` (with the `setOptions` failure and the saved-status test), `connect`, `disconnect`, `delAccount` (libpurple disconnects before unlisting), `connected`, `disconnected` |
| `MCAccountRegistry` | the instance for TLC: three accounts of one protocol | | |

Each action models the whole handler. `ImJoin` records the IM change and
runs all of `addBuddy`: the collision loop, `addNick`, `join`, `addUser` with
its JOIN, MODE and NAMES lines, and the `cbuddies` update. `CloseConv` runs
the derived destructor's loop and then `~Channel`'s loop. A ChatBuddy is a
handle from a finite pool (`CbHandles(c)`, bound `MaxCb`), so
allocating it is `\E h \in FreeCb(c)`. Nicknames are a stem and a count of
appended underscores. `Unused` is the collision loop as a RECURSIVE
operator, which stops at the named bound `MaxSuffix`.

In `IrcCodec` a string is a sequence of symbols. The characters the code
tests for are symbols of their own: space, `:`, `"`, `\001`, CR and LF.
Any other symbol is an atom, such as `"a"` or the word `"DCC"`, standing for
characters that no code path looks into. `stringtok`, `parse`, `format` and
`rebuildWithQuotes` are translated step by step, keeping their edge cases:
- the one space `stringtok` consumes;
- the trailing-argument rule;
- the out-of-bounds read of `(*s)[s->size()-1]` on an empty token. This is
  undefined behaviour. It is modelled as the zero byte that libstdc++ puts
  there.

The HTTP model keeps two sides apart: what the handler records (a
connection's `connect_data` and `input_watcher`, the list `dns_queries`,
the timer id) and what libpurple and glib actually hold registered. The
code cancels a registration only through the handler's record of it, so
the two can drift apart, and that drift is what `CallbacksTargetLive`
checks. A new connection takes a free slot of the pool `Ids` (`CHOOSE`,
standing for a fresh pointer). A response is three stages: nothing, part
of the headers, and everything past `\r\n\r\n`. Only `cookielogin` is
told apart among cookies.

In `IrcMarkup` a markup token is a whole tag, as `markup2irc`'s scanner
cuts it out between `<` and `>`, or one character. The alphabet (the plain
character `x`, the digits 1 and 2, `,` and the control codes) has no
character that `g_markup_escape_text` rewrites, so escaping is exact on it.
`markup2irc` is checked only on the tokens `irc2markup` emits. HTML a
protocol sends (other tags, attributes, entities) is not modelled, so the
formatting component is only partly modelled.
Two reference renderings give the meaning of a string. `IrcDisplay`
toggles bold and underline, resets everything at `\017`, and sets both
colours at a colour code; it reads the digits the way the code's own
`ColorCode` does, where a `,` after the foreground is consumed and a
number over 15 means no colour. `HtmlDisplay` shows a character bold while
more `<B>` than `</B>` precede it, ignores an end tag with nothing open,
and takes the colours of the innermost open FONT. `italic` is left out:
strpbrk never stops at `\011`, so that case of the switch is never reached.

`Nick::join`, `Nick::part`, `Nick::isOn`, `Nick::removeChanUser`,
`IRC::getNick` and `IRC::removeNick` are in files this tree does not contain
(`nick.cpp`, and the newer `irc.cpp`). They are modelled from the spec and
marked `spec_modelled` in the map.

## Runs

`PROJECT.json` lists twelve runs: one passing run per question, and one
violation run for each of the five disagreements that matter most. The
other counterexamples found while modelling are in the second table. Each
one's configuration is kept here and differs from a passing run in one
environment constant.

| Run | Config | Expect | What it shows |
|-----|--------|--------|---------------|
| `bridge` | `ConversationChannel.cfg` | pass | One channel; participants a, b, d and the user; buddy-list Nicks holding "a" and "a_". Every interleaving of joins with two mode bits, role changes, renames, leaves, the user's PART, closes and NICK keeps five properties. `NickUnique`: no two registered Nicks share a nickname. `MembershipBackRefs`: the channel side and the Nick side of every membership agree, and members are registered. `BridgeMirrorsIM`: `cbuddies` is exactly the participant set, with one member per participant bound to it and mode bits equal to its flags. `ClientViewExact`: the client, reading only the lines it was sent, sees exactly the members, their modes and its own nickname. 41,820 distinct states (with symmetry), depth 10. |
| `dccsend` | `DCCSend.cfg` | pass | A 4-byte file in 2-byte chunks (Chunk stands for the 512-byte `fread`), written by the IM in any increments, offered, accepted and acknowledged in 4-byte words split at any byte, to a client that may close at any time. `CompleteMeansDelivered`: the transfer ends while the client is connected only when it has the whole file. `BytesAccounted`: `bytes_sent` equals what the client read plus what is in flight. `Terminates`: every transfer ends, through the EOF path of `dcc_read` too. 1,544 states. |
| `dcc_eof_leak` | `DCCSendLeak.cfg` | violation of `DescriptorsReleased` | The client closes; `dcc_read` sets `fd = -1` before `deinit`, so the socket stays open (`dcc.cpp:219`). |
| `dccget` | `DCCGet.cfg` | pass | An 8-byte file in reads of up to 3 bytes, fwrite possibly failing, the buddy possibly leaving, the client possibly closing early. `AckExact`: the gateway writes back nothing or one 4-byte word equal to the size. `CallbackIffWhole`: a finished transfer ran the callback exactly when the file is whole. `Terminates`: every transfer ends and is torn down. 357 states. |
| `daemon` | `DaemonFork.cfg` | pass | Three connections of one user against maxcon 2; fork failures, refusals, logins, WALLOPS, OPER, DIE and quits in any order. `MaxConRespected`: never more running sessions than maxcon. `EvictionCompletes`: two live sessions of a user end as at most one. `ShutdownCompletes`: after the master relays DIE and quits, every session exits. 569,931 states, about two and a half minutes. |
| `daemon_evict_order` | `DaemonForkEvictOrder.cfg` | violation of `EvictsPrior` | The master reads the newer session's USER first, so the newer session is the one evicted (`daemon_fork.cpp:322`). |
| `buddy` | `BuddyRouting.cfg` | pass | One buddy; the user's texts go to it directly, or in the status channel with or without the "b: " prefix, or to another channel. The texts are a chat word, DCC offers of `a` and `a a`, and minbif's own five-word zero-size offer line. They interleave with two IM messages from the buddy and a clock that crosses the window. `ChatReachesIM`: the IM gets exactly the addressed texts that are not offers, in order. `OfferTargetsNamedFile`: each `createDCCGet` gets the name quoted in the offer that caused it. `RepliesFollowUser` (action property): each IM message is shown in the status channel exactly when the user last addressed the buddy there, at most the window ago. 13,218 states. |
| `irc_readio` | `IrcSession.cfg` | violation of `NickAsAsked` | The client sends `NICK a\r\n`; one `read()` returns it all and `Message::parse` splits only at spaces, so the nickname becomes `a\r\n` (`irc.cpp:110`). Spec scenario 1 says the argument is `alice` for `NICK alice\r\n`. |
| `wallops_round_trip` | `IpcRelay.cfg` | violation of `WallopsIntact` | The operator's WALLOPS text `a ` is written as `:a `, and the master's `parse` gives back `a` (`message.cpp:143`). Every session shows `a`, against the round-trip requirement of spec §4.1. |

| `ga_http` | `GaAccount.cfg` | pass | Login, one buddy list and the status check, all interleaved with DNS answers (an IP or a failure), connects that fail, writes that fail, reads that fail, servers that close early or set no cookie, the status timer (kept or dropped) and account close. `CallbacksTargetLive`: every connect, watcher and lookup libpurple holds belongs to a live connection and is recorded where `http_connection_destroy` and `http_handler_free` look for it, and once the account is freed nothing, not even the timer, can call back. `RequestsComplete`: every connection is eventually destroyed. 6,323 states, under a minute. |
| `account_server_leak` | `AccountRegistry.cfg` | violation of `ServersTrackConnections` | Account a1 has no stored id and a2 holds `jabber`; a1 connects as `u1:jabber1`, a2 is deleted, and a1's disconnect removes `u1:jabber`, the name `getID()` computes now, so `u1:jabber1` stays (`account.cpp:202`). Spec 3: a Remote Server is destroyed on disconnect. |
| `markup` | `IrcMarkup.cfg` | pass | Every string of up to five symbols over `\002`, `\003`, `\007`, `\017`, `\037`, the digits 1 and 2, `,` and `x`. `ColoursFaithful`: the markup `irc2markup` returns shows the same characters as the string, each in the same colours, whatever bold, underline and reset codes come between. 66,430 strings, 272,546 states, seconds. |

Further counterexamples. Each is TLC's result for
`tlc -config <cfg> <MC module>`, and each is recorded as a hazard in
`PROJECT.json`:

| Config | Property violated | What the code does |
|--------|-------------------|--------------------|
| `ConversationChannelNick.cfg` (`MCConversationChannel`) | `NickUnique` | `/NICK a` while a buddy is "a": two Nicks share one name, because `m_nick` makes no lookup (`irc.cpp:130`). |
| `DCCSendEarly.cfg` (`DCCSend`) | `BytesAccounted` | IM progress after `listen_cb` and before accept: `dcc_send` reads a chunk and sends it on the listening socket, where it is lost (`dcc.cpp:185`). The spec says such a send is a no-op. |
| `ConversationChannelRename.cfg` (`MCConversationChannel`) | `NicknameValid` | Participant a renamed to "d@host" becomes the nickname "d@host" (`conversation_channel.cpp:119`). `ChatBuddy`'s constructor would have made it "d". |
| `DCCSendAcceptFail.cfg` | `Terminates` | `accept()` returns -1, `!conn` misses it, and the transfer hangs with a watcher on -1 (`dcc.cpp:88`). |
| `DCCSendTimeout.cfg` | `TimeoutHonoured` | After `listen_cb`, `updated()` does not tear down an expired offer that nobody accepted (`dcc.cpp:177`), contrary to spec §2 and §4.5. |
| `DCCSendShort.cfg` | `BytesAccounted` | With a socket buffer smaller than a chunk, `send()` is short and its result ignored (`dcc.cpp:200`). |
| `DCCSendSticky.cfg` | `Terminates` | With a sticky EOF indicator (glibc 2.28 and later), a file read while still growing stops at the first short read (`dcc.cpp:197`). |
| `DCCSendCancel.cfg` | `Terminates` | An IM-side cancel, `updated(true)` before the file is whole, leaves the connected DCC waiting forever (`dcc.cpp:174`). |
| `DCCGetLeak.cfg` | `DescriptorsReleased` (DCCGet) | `sock = -1` before `deinit` on EOF (`dcc.cpp:365`). |
| `DCCGetFopenFail.cfg` | `NoCallbackLeak` | The constructor throws on fopen failure without deleting the callback (`dcc.cpp:305`). |
| `DCCGetConnectFail.cfg` | `DescriptorsReleased` (DCCGet) | The constructor throws on connect failure with the file and socket open (`dcc.cpp:321`). |
| `DCCGetLongAck.cfg` | `AckExact` | On LP64 the ack is 8 bytes (`dcc.cpp:380`). |
| `DCCGetZero.cfg` | `Terminates` | A zero-byte offer never completes (`dcc.cpp:377`). |
| `DaemonForkSocketpair.cfg` | `MaxConRespected` | A child forked after socketpair failed is not in `childs` (`daemon_fork.cpp:199`). |
| `DaemonForkLongLine.cfg` | `UpstreamDrains` | A line longer than the 511-byte peek blocks its socket for good, even the child's EOF (`daemon_fork.cpp:374`). |
| `DaemonForkFullBuffer.cfg` | `EvictionCompletes` | An eviction DIE into a full IPC buffer is dropped (`daemon_fork.cpp:412`). |
| `GaAccountStall.cfg` (`MCGaAccount`) | `RequestsComplete` | `write()` of the login request returns EAGAIN; `http_post_or_get_connect_cb` returns with no watcher and nothing retries, so the login never ends (`http.c:325`). |
| `IrcMarkupReset.cfg` (`MCIrcMarkup`) | `MarkupFaithful` | `\002 \017 \002 1`: case `\017` writes `</B>` but leaves `bold` set, so the second `\002` writes another `</B>`, and the 1, bold on IRC, is shown plain (`util.cpp:285`). libpurple's later `irc_mirc2html` clears the flags there. |
| `IrcMarkupUnclosed.cfg` (`MCIrcMarkup`) | `TagsClosed` | `\002` alone returns `<B>`: the loop exits on `while (*cur)` after the code, without reaching case `\000` (`util.cpp:301`). |
| `IrcMarkupRoundTrip.cfg` (`MCIrcMarkup`) | `MarkupRoundTrip` | `\0031,,` becomes `<FONT COLOR="black">,` and then `\00301,`, where the comma of text is read as part of the colour code (`util.cpp:409`). A digit after `</FONT>`, written as a bare `\003`, is swallowed the same way. |
| `DCCSendHugeFile.cfg` (`DCCSend`) | `DescriptorsReleased` | A file at least as large as the ack word can hold (`AckBits = 2` against 4 bytes, for 4 GiB against 32 bits): no ack reaches `total_size` (`dcc.cpp:234`), so the transfer ends only by the client's close, through the EOF path that leaves the socket open. With `AckBits = 32` and the same client the property holds. |
| `AccountRegistryChannels.cfg` (`MCAccountRegistry`) | `StatusChannelsCreated` | Two accounts of one protocol with no stored id both get the id `jabber`; `getAccountsList` keeps only the later one, and `Account::init` creates no status channel for the first (`purple.cpp:244`). |
| `BuddyRoutingNoTransfers.cfg` (`MCBuddyRouting`) | `ChatReachesIM` | With file transfers disabled, `process_dcc_get` returns true for every text, so no message to any buddy reaches the IM (`buddy.cpp:142`). |

Each property of a passing run has a mutant in `PROJECT.json`: a
plausible bug in the code the property is about. TLC must catch it under the run's
own configuration.

- **Bridge mutants:**
  - `Unused` as a single `if` instead of a `while`;
  - `updateBuddy` without its `delMode`;
  - `renameBuddy` without the NICK line to the user;
  - the destructor without `~Channel`'s `removeChanUser`;
  - `m_nick` without its empty-argument check.
- **DaemonFork mutants:**
  - `m_user` evicting nobody;
  - the broadcast skipping children that have not reported USER;
  - the master taking a child as gone before reading its last lines;
  - the socket write never failing;
  - the maxcon test with `>` for `>=`.
- **DCCGet mutants:**
  - the completion test off by one, in either direction;
  - `bytes_received` advanced by the buffer size;
  - no `return` after a failed fwrite;
  - `deinit` without `delete callback`.
- **BuddyRouting mutants:**
  - `Buddy::send` not stripping the "nick:" word;
  - `rebuildWithQuotes` not cutting the closing quote;
  - the window test with `<=` for `<`.
- **IrcMarkup mutants:**
  - case `\003` closing the open FONT only when it opens another;
  - `\007` taken as two characters wide.
- **DCCSend mutants:**
  - `dcc_send` adding `sizeof buf` to `bytes_sent`;
  - the rxqueue append replacing the queue, which drops a partial ack;
  - `dcc_read` without its trailing `dcc_send`.

`DescriptorsReleased` is not a property of a passing run. The passing DCC
runs let the client close first, and on that path both `dcc_read`s leak the
socket.

### Bounds

Two buddy-list nicks "a" and "a_" and three participants with pool
`MaxCb = 3` let a participant named a need two underscores. They also let
renames collide with both the buddy list and other ChatBuddies. `MaxSuffix = 3`
is never reached (at most three Nicks share the stem a), so the saturation of
`Unused` never hides a collision. Two mode bits are the smallest set for which
one update both adds and removes a bit, and so exercises the set-then-delete
order. One channel suffices for the bridge properties, because channels share
only the nick map, and that is exercised by the buddy-list Nicks and NICK.
Symmetry: b and d collide with nothing and are interchangeable, and so are
the two mode bits.

DCC: `Size = 4` and `Chunk = 2` give two full chunks, so a transfer needs
several sends, several acks, and acks that split across reads (every split
point of the 4-byte word is reachable because the gateway reads any prefix of
the bytes the client wrote). Acks are counts below 128. The client's count is
reduced modulo `2^AckBits`; the passing runs use the code's 32 bits, where
these counts never wrap, and `DCCSendHugeFile.cfg` a 2-bit word to stand for
a file of 4 GiB or more. The passing runs keep the socket buffer
at least `Size` and have libpurple report progress only when no offer is
open (`EarlyProgress = FALSE`); the violation runs lift one of those limits
each. DCCGet: an 8-byte file with 3-byte reads needs at least three reads
and lets sends and reads interleave; `LongBytes = 4` (an ILP32 build) in
the passing runs, 8 in `DCCGetLongAck.cfg`.

DaemonFork: the passing run uses three connections of one user against
maxcon 2, so the third is refused while two sessions run, and every
interleaving of two sessions' USER lines, broadcasts and DIEs is a
duplicate-login race. `QCap = 3` with `MaxSend = 1` (one operator line per
session) lets a queue fill, which the mutant of `TypeOK` needs, and the
properties hold there; `DaemonForkFullBuffer.cfg` (two sessions sending two
lines each into a queue of 2) is where a full queue loses the eviction DIE.
Symmetry of connections and users is used only in the safety counterexample
configurations, since TLC may miss liveness violations under symmetry.

Buddy routing: a window of 2 ticks on a clock that stops at 3 reaches
every case of the expiry test:
- inside the window;
- exactly at its end, where the code's `<` keeps it open;
- past it.

Two messages each way let a public message be followed by a private one,
and an IM message fall before or after the expiry. At its bound the clock
stays where it is, so the model never runs out of steps. The offered names
are `a` and `a a`, which is one atom and then two atoms with a single space.
The names are single-spaced on purpose: `stringtok` collapses runs of
spaces, so a name with two spaces in a row comes back with one. That loss
is recorded as a hazard, not checked.

Accounts: three accounts of one protocol, stored ids with suffix 0 or 1
or none, in every order of the list, with every subset enabled. Two are
enough for the server leak and the map collision; the third lets an account
be added after startup and lets the scan of `getNewAccountName` restart
more than once. `AccountRegistryNames.cfg` checks `NewAccountNameLeast`
(with `TypeOK`) there: the restarting scan returns the least free name for
every list order and set of stored ids; a scan without the restart fails it.
It needs `CHECK_DEADLOCK FALSE` because the model creates at most three
accounts and deletes them, after which the gateway idles.

IPC relay: two texts, `a a` (an inner space, which survives) and `a `
(only a final space, which does not).

Formatting: strings of up to five symbols hold every pair of codes with
text between and after them, a colour with one and two digits of
foreground and background (1, 2, 11, 12 valid; 21, 22 over 15), a `,`
with and without digits after it, and a code as the last symbol. All
66,430 such strings over nine symbols are checked.

IRC session: two nicknames and two NICK lines, so that one `read()` can
return one line, a line and a half, or both lines. `ReadMax` (8 symbols)
is longer than both lines together, as the real 1023-byte buffer is. The
first violation needs only one whole line in one read. The client
closes (or resets) only after all its lines are read, so that the EOF and
reset reads are the last ones.

GayAttitude: one buddy list (`Lists = {checklist}`) stands for the six.
With the status check, the login callback starts two GETs that run beside
each other and beside the login connection, which is still live during its
callback. Three connection slots are therefore the most the login needs.
The timer fires only when a slot is free. `MaxDns = 3` lets every request
that misses the cache start its own lookup, as the code does when several
requests go out before the first answer.

### Fairness

The buddy runs and the IPC relay run are safety only: every step is the
user's, the IM's or the clock's.

The bridge runs are safety only. Every handler is driven by the IM backend
or the user, neither of which the code can force, so no fairness is assumed.

The DCC runs assume weak fairness of each callback the event loop delivers
when its descriptor is ready (`listen_cb`, `connected`, `dcc_read`), of the
client connecting, reading and closing after the whole file, and of
libpurple writing the file until it is whole. The clock (`Tick`) and
`ImEnd` get none: `Terminates` must hold whether or not the timeout passes.
For DCCGet: the offer is processed, the readable socket is read, the client
keeps sending and closes once it has the ack; the buddy leaving (`setPeer`)
gets no fairness.
For GaAccount: libpurple ends every proxy connect (it has its own
timeout), and a watched socket is eventually readable, since the server
answers or resets and closes. So the connect and read callbacks are weakly
fair per connection, and so is the DNS callback. An error reported on the
connection makes libpurple close the account, so `ga_account_free` is
weakly fair while the state is an error. The user's login and close, and
the timer, get no fairness.
For DaemonFork: the master's and each child's `ipc_read` are called while
their socket is readable (weak fairness); connections, logins, operator
commands and quits are the users' and get none.

## Plan

1. Done: `Channel` and `ConversationChannel`, the core of the spec.
2. Done: `DCCSend`, the `DCCServer`/`DCCSend` lifecycle.
3. Done: `DCCGet`. `DCCChat` is left: its `dcc_read` ignores input and its lifecycle is `DCCServer`'s.
4. Done: `DaemonFork`.
5. Done: `BuddyRouting`, with `IrcCodec` for the offer parsing.
6. Done: `IrcCodec`, `IpcRelay` and `IrcSession` (client-side framing in `IRC::readIO`).
7. Done: `HttpHandler` and `GaAccount`, the HTTP helper and the plugin that uses it.
8. Done: `IrcMarkup`, the formatting converters of `util.cpp`; and the EOF and reset reads of `IRC::readIO`.
9. Done: `AccountRegistry`, the account list, ids and RemoteServers of `account.cpp` and `purple.cpp`; and the width of the DCC ack word.

## Not modelled

- In `http.c`: the SSL callbacks (`HTTP_METHOD_SSL` is never used), gunzip, and `http_url_encode`. In the plugin: `ga_buddylist_parse_cb`, which is HTML and XPath into libpurple's buddy list, and `ga_account_logout`. `ga_message_check_received`, `ga_parsing` and every header of the plugins are missing from this tree.

- Topic handling (`Channel::setTopic` and the bridge's `getTopic` and `setTopic`), `Channel::m_mode` (replies only), and the PRIVMSG broadcast override. These only move text to the IM, and no file of this tree calls `setTopic`: the TOPIC command and the IM topic event that would are missing, so the order they come in cannot be taken from the code.
- The rest of the libpurple glue. Conversation, buddy and transfer events are the nondeterministic inputs of the other models; `protocol.cpp` and the plugin and protocol lists hold no state of minbif; `connecting`, `disconnect_reason`, the debug and prefs hooks only log. `account.h` declares a different `Account` from the one `account.cpp` defines (`getID(bool)` against `getID()`, and a `setID` nothing defines). `AccountRegistry` takes `getID(false)` to return the stored id alone, as the header documents, and `IRC::addServer`, `removeServer` and `getChannel`, which are in no file of this tree, to add, remove and look up by name.
- In `util.cpp`: `strlower`, `is_ip` (no caller; on `1.2` it reads past the terminator), `check_write_file` (file-system checks) and `glib_input_add` (the glib adapter; its callback's `return TRUE` is why `readIO` is never unregistered).
- The end of a session when the client leaves. `readIO` never notices EOF, and this tree has no code that would end the session, so `IrcSession` stays in a busy loop of EOF reads after the client closes.
- `inetd.cpp`, `poll.cpp`, `minbif.cpp`, `auth_local.cpp`, the settings and caca images. Their state is configuration or a single process's lifetime.

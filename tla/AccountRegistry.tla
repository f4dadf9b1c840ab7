--------------------------- MODULE AccountRegistry ---------------------------
(***************************************************************************)
(* The IM accounts as minbif sees them (src/src/im/account.cpp and         *)
(* purple.cpp): the list libpurple keeps (purple_accounts_get_all), the    *)
(* id each account may carry in its ui settings, the connection callbacks  *)
(* that add and remove the account's RemoteServer, and the status channels *)
(* Account::init creates.                                                  *)
(*                                                                         *)
(* An account's id is the "id" ui string, or when that is empty a name     *)
(* computed by Purple::getNewAccountName from the ids of the other         *)
(* accounts of its protocol.  The computed name is never stored (no        *)
(* setID is defined), so it is recomputed at every getID().  A RemoteServer*)
(* is named username:id, once in connected() and again in disconnected(). *)
(*                                                                         *)
(* libpurple is the environment: it calls connected() for an enabled      *)
(* account and disconnected() when a connection ends, and a delete         *)
(* disables (and so disconnects) the account before unlisting it.          *)
(***************************************************************************)
EXTENDS Naturals, Sequences, FiniteSets, Functions, FiniteSetsExt

CONSTANTS
    Accounts,     \* PurpleAccount objects that exist or may be created
    Proto,        \* Proto[a]: the protocol of account a
    User,         \* User[a]: its username (distinct per account and protocol)
    ChanOf,       \* ChanOf[a]: the "channel" ui string, a status channel or NoChan
    NoChan,
    MaxSuffix,    \* largest numeric suffix a stored id may carry
    SavedStatus   \* whether purple_savedstatus_get_current() is non-NULL: subset of BOOLEAN

ASSUME /\ Proto \in [Accounts -> Range(Proto)] /\ MaxSuffix \in Nat
       /\ SavedStatus \subseteq BOOLEAN /\ SavedStatus # {}

\* A protocol id followed by a number, or by nothing when the number is 0:
\* proto.getID() + (i ? t2s(i) : string()).
Name(p, i) == <<p, i>>
NoId == <<>>
Ids(a) == {Name(Proto[a], i) : i \in 0..MaxSuffix}

VARIABLES
    list,      \* purple_accounts_get_all(), in order
    storedId,  \* the "id" ui string of each account, NoId when empty
    created,   \* accounts that exist or existed (a PurpleAccount is never reused)
    enabled,   \* accounts enabled for the minbif ui
    online,    \* accounts whose connection libpurple reported as established
    servers,   \* names of the RemoteServers the IRC side holds
    chans,     \* status channels
    booted     \* Purple::inited has run

vars == <<list, storedId, created, enabled, online, servers, chans, booted>>

Listed == Range(list)

-----------------------------------------------------------------------------
(* Naming.                                                                *)

(* Mutant: the scan does not restart after a hit, so a name found taken  *)
(* earlier in the list than the candidate it matches is missed.          *)
RECURSIVE NameScanNoRestart(_, _, _)
NameScanNoRestart(p, k, i) ==
    IF k > Len(list) THEN i
    ELSE LET acc == list[k] IN
         IF Proto[acc] = p /\ storedId[acc] = Name(p, i)
         THEN NameScanNoRestart(p, k + 1, i + 1)
         ELSE NameScanNoRestart(p, k + 1, i)

(* The loop of Purple::getNewAccountName: walk the list; an account of    *)
(* the protocol whose stored id (getID(false)) is the current candidate   *)
(* moves the candidate to the next number and restarts the walk.  The     *)
(* only caller, getID, passes the default (invalid) butone, which equals  *)
(* no account.                                                            *)
RECURSIVE NameScan(_, _, _)
NameScan(p, k, i) ==
    IF k > Len(list) THEN i
    ELSE LET acc == list[k] IN
         IF Proto[acc] = p /\ storedId[acc] = Name(p, i)
         THEN NameScan(p, 1, i + 1)
         ELSE NameScan(p, k + 1, i)

getNewAccountName(p) == Name(p, NameScan(p, 1, 0))

\* Account::getID: the stored id, or a new name when it is empty.
getID(a) == IF storedId[a] # NoId THEN storedId[a] ELSE getNewAccountName(Proto[a])

\* Account::getServername: username:id.
getServername(a) == <<User[a], getID(a)>>

(* Purple::getAccountsList: a map from getID() to the account, filled in  *)
(* list order; an account whose id equals a later one's is overwritten.   *)
getAccountsList ==
    {list[k] : k \in {j \in 1..Len(list) :
                        \A l \in (j + 1)..Len(list) : getID(list[l]) # getID(list[j])}}

-----------------------------------------------------------------------------
Init ==
    \* The accounts libpurple loaded from accounts.xml, each with whatever
    \* id an earlier run or the user stored there.
    /\ list \in UNION {{f \in [1..n -> Accounts] : IsInjective(f)} : n \in 0..Cardinality(Accounts)}
    /\ storedId \in {s \in [Accounts -> {NoId} \cup UNION {Ids(a) : a \in Accounts}] :
                        \A a \in Accounts : s[a] \in {NoId} \cup Ids(a)
                                            /\ (a \notin Range(list) => s[a] = NoId)}
    /\ created = Range(list)
    /\ enabled \in SUBSET Range(list)
    /\ online = {}
    /\ servers = {}
    /\ chans = {}
    /\ booted = FALSE

(* Account::createStatusChannel: the channel named by the account's      *)
(* "channel" ui string, when that is a status channel name, is created    *)
(* unless it exists.                                                      *)
createStatusChannel(cs, a) == IF ChanOf[a] # NoChan THEN cs \cup {ChanOf[a]} ELSE cs

(* Purple::inited -> Account::init: createStatusChannel for each account  *)
(* of getAccountsList.                                                    *)
inited ==
    /\ ~booted
    /\ booted' = TRUE
    /\ chans' = FoldSet(LAMBDA a, cs : createStatusChannel(cs, a), chans, getAccountsList)
    /\ UNCHANGED <<list, storedId, created, enabled, online, servers>>

(* Purple::addAccount: a new PurpleAccount; when setOptions throws it is  *)
(* destroyed before it is listed.  Otherwise purple_accounts_add appends  *)
(* it, and it is enabled when there is a current saved status.  Its id    *)
(* is empty.                                                              *)
addAccount(a, optionsOk, saved) ==
    /\ booted
    /\ a \notin created
    /\ created' = created \cup {a}
    /\ IF optionsOk
       THEN /\ list' = Append(list, a)
            /\ enabled' = IF saved THEN enabled \cup {a} ELSE enabled
       ELSE UNCHANGED <<list, enabled>>
    /\ UNCHANGED <<storedId, online, servers, chans, booted>>

(* Account::connect and Account::disconnect: set the enabled flag.        *)
connect(a) ==
    /\ booted /\ a \in Listed /\ a \notin enabled
    /\ enabled' = enabled \cup {a}
    /\ UNCHANGED <<list, storedId, created, online, servers, chans, booted>>

\* The removal an Account::disconnected callback makes, by the name it
\* computes now (IRC::removeServer).
DropServer(a) == servers \ {getServername(a)}

(* A disable of a connected account makes libpurple call disconnected()  *)
(* at once.                                                               *)
disconnect(a) ==
    /\ booted /\ a \in enabled
    /\ enabled' = enabled \ {a}
    /\ online' = online \ {a}
    /\ servers' = IF a \in online THEN DropServer(a) ELSE servers
    /\ UNCHANGED <<list, storedId, created, chans, booted>>

(* Purple::delAccount -> purple_accounts_delete: the account is disabled  *)
(* (disconnected() runs while it is still listed), then unlisted.         *)
delAccount(a) ==
    /\ booted /\ a \in Listed
    /\ servers' = IF a \in online THEN DropServer(a) ELSE servers
    /\ online' = online \ {a}
    /\ enabled' = enabled \ {a}
    /\ list' = SelectSeq(list, LAMBDA b : b # a)
    /\ UNCHANGED <<storedId, created, chans, booted>>

(* Account::connected: libpurple established the connection of an        *)
(* enabled account; IRC::addServer(new RemoteServer(irc, account)) under  *)
(* getServername().                                                       *)
connected(a) ==
    /\ booted /\ a \in enabled /\ a \notin online
    /\ online' = online \cup {a}
    /\ servers' = servers \cup {getServername(a)}
    /\ UNCHANGED <<list, storedId, created, enabled, chans, booted>>

(* Account::disconnected: the connection was lost (network or server     *)
(* error); IRC::removeServer(getServername()).  libpurple reconnects an   *)
(* enabled account later.                                                 *)
disconnected(a) ==
    /\ a \in online
    /\ online' = online \ {a}
    /\ servers' = DropServer(a)
    /\ UNCHANGED <<list, storedId, created, enabled, chans, booted>>

Next ==
    \/ inited
    \/ \E a \in Accounts, ok, s \in BOOLEAN : s \in SavedStatus /\ addAccount(a, ok, s)
    \/ \E a \in Accounts :
          connect(a) \/ disconnect(a) \/ delAccount(a) \/ connected(a) \/ disconnected(a)

Spec == Init /\ [][Next]_vars

-----------------------------------------------------------------------------
(* Properties                                                              *)

TypeOK ==
    /\ list \in Seq(Accounts) /\ IsInjective(list)
    /\ created \subseteq Accounts /\ Listed \subseteq created
    /\ enabled \subseteq Listed /\ online \subseteq enabled
    /\ booted \in BOOLEAN

(* The ids of the accounts of a protocol that getNewAccountName must      *)
(* avoid, and the reference: the least numbered name none of them holds.  *)
Taken(p) == {storedId[b] : b \in {c \in Listed : Proto[c] = p}}
LeastFree(p) ==
    CHOOSE n \in 0..Len(list) : Name(p, n) \notin Taken(p)
                                /\ \A m \in 0..(n - 1) : Name(p, m) \in Taken(p)

(* getNewAccountName returns a fresh name, the least one free, whatever   *)
(* the order of the list and however the stored ids interleave in it.     *)
NewAccountNameLeast ==
    \A p \in Range(Proto) : getNewAccountName(p) = Name(p, LeastFree(p))

(* A RemoteServer lives exactly while its account is connected (spec 3:   *)
(* destroyed on disconnect): every server the IRC side holds is the       *)
(* server of an account that is online now.  connected() and             *)
(* disconnected() each compute the name with getID().                     *)
ServersTrackConnections ==
    \A s \in servers : \E a \in online : s[1] = User[a]

(* Account::init gives every account listed at startup that names a     *)
(* status channel that channel.  It walks getAccountsList, a map keyed by *)
(* getID().                                                               *)
StatusChannelsCreated ==
    [][~booted /\ booted' =>
         \A a \in Listed : ChanOf[a] # NoChan => ChanOf[a] \in chans']_vars

=============================================================================

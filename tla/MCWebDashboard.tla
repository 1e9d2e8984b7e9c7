---------------------------- MODULE MCWebDashboard ----------------------------
(***************************************************************************)
(* TLC instance of the dashboard's two kinds of WebSocket: those to the    *)
(* receivers (WebReceivers) and the one to the daemon (WebDaemon).  Their  *)
(* cards share no variable, so that a behaviour of the page is one of      *)
(* each side by side, and one side at a time is checked: focus says which. *)
(***************************************************************************)
EXTENDS WebReceivers, WebDaemon

VARIABLE focus

dashVars == <<rxVars, wdVars, focus>>

\* A browser that stored no list starts with one receiver.
MCDefaults == <<[host |-> CHOOSE h \in Hosts : TRUE, channel |-> CHOOSE ch \in Channels : TRUE]>>

Init == RxInit /\ WdInit /\ focus \in {"receivers", "daemon"}

Receivers(A) == focus = "receivers" /\ A /\ UNCHANGED <<wdVars, focus>>
Daemon(A) == focus = "daemon" /\ A /\ UNCHANGED <<rxVars, focus>>

Next == Receivers(RxNext) \/ Daemon(WdNext)

Spec == Init /\ [][Next]_dashVars

\* Of every connection object: a socket is opened in the end, one that was
\* closed reports it, onclose's timer fires, and an open one is served.
ReceiversFair(n) ==
    /\ WF_dashVars(Receivers(n \in DOMAIN conns /\ SocketOpen(n)))
    /\ WF_dashVars(Receivers(n \in DOMAIN conns /\ conns[n].ws = "closing" /\ SocketClosed(n)))
    /\ WF_dashVars(Receivers(n \in DOMAIN conns /\ Reconnect(n)))
    /\ WF_dashVars(Receivers(n \in DOMAIN conns /\ (Serve(n) \/ Answer(n))))

\* The socket to the daemon is retried and served.  Timers are fair in the
\* strong sense: only the bound on what is under way ever holds them back.
DaemonFair ==
    /\ WF_dashVars(Daemon(LocalOpen \/ LocalRetry))
    /\ WF_dashVars(Daemon(DaemonServes \/ LocalMessage))
    /\ SF_dashVars(Daemon(SysVolTimer))
    /\ SF_dashVars(Daemon(InputRecheck))
    /\ \A c \in Polled : SF_dashVars(Daemon(Poll(c)))

FairSpec == Spec /\ (\A n \in 1 .. MaxConns : ReceiversFair(n)) /\ DaemonFair

\* A receiver on the list gets an open connection again and again, unless it
\* is taken off the list (onclose of a card asks for a reconnection).
ListedReconnects == focus = "receivers" => ListedIsConnected
===============================================================================

--------------------------- MODULE ChannelMirror ---------------------------
(***************************************************************************)
(* What the ingestion of a Telegram channel promises, without processes,     *)
(* leases, rows in stages or retries: the site reads the channel once and in  *)
(* order, keeps of each message the newest update it has read until it shows   *)
(* it, shows no photo it does not store, removes none it shows or may yet      *)
(* show, and pays for a photo once, or as often as somebody agreed to.         *)
(***************************************************************************)
EXTENDS Naturals, Sequences

CONSTANTS Messages, MaxUpdates

VARIABLES
    channel,  \* the channel's posts and edits: of which message, with which photo
    read,     \* the next of them to read
    held,     \* held[m]: the update of m that is to be shown, 0 for none
    shown,    \* shown[m]: the update and the photo the site shows, 0 for none
    library,  \* photos stored
    credit    \* credit[k]: how often the photo of update k may be paid for

vars == <<channel, read, held, shown, library, credit>>

Init ==
    /\ channel = <<>>
    /\ read = 1
    /\ held = [m \in Messages |-> 0]
    /\ shown = [m \in Messages |-> [update |-> 0, photo |-> 0]]
    /\ library = {}
    /\ credit = [k \in 1..MaxUpdates |-> 1]

ChannelPost(m) ==
    /\ \E photo \in 0..(Len(channel) + 1) :
          channel' = Append(channel, [message |-> m, photo |-> photo])
    /\ UNCHANGED <<read, held, shown, library, credit>>

\* An edit of a message the site already shows may be missed.
Read ==
    LET m == channel[read].message
    IN /\ read <= Len(channel)
       /\ read' = read + 1
       /\ \/ held' = [held EXCEPT ![m] = read]
          \/ held[m] = 0 /\ shown[m].update # 0 /\ UNCHANGED held
       /\ UNCHANGED <<channel, shown, library, credit>>

Show(m) ==
    LET photo == channel[held[m]].photo
    IN /\ held[m] # 0
       /\ photo \in library \cup {0}
       /\ shown' = [shown EXCEPT ![m] = [update |-> held[m], photo |-> photo]]
       /\ held' = [held EXCEPT ![m] = 0]
       /\ UNCHANGED <<channel, read, library, credit>>

Store(k) ==
    /\ k < read
    /\ library' = library \cup {k}
    /\ UNCHANGED <<channel, read, held, shown, credit>>

\* The message of photo k was read with another one since.
Replaced(k) ==
    \E u \in k..(read - 1) :
        channel[u].message = channel[k].message /\ channel[u].photo # k

Remove(k) ==
    /\ Replaced(k)
    /\ \A m \in Messages : shown[m].photo # k
    /\ library' = library \ {k}
    /\ UNCHANGED <<channel, read, held, shown, credit>>

Pay(k) ==
    /\ credit[k] > 0
    /\ credit' = [credit EXCEPT ![k] = @ - 1]
    /\ UNCHANGED <<channel, read, held, shown, library>>

\* An administrator agrees to pay for the photo of m again.
Consent(m) ==
    /\ held[m] # 0
    /\ credit' = [credit EXCEPT ![channel[held[m]].photo] = @ + 1]
    /\ UNCHANGED <<channel, read, held, shown, library>>

Next ==
    \/ Read
    \/ \E m \in Messages : ChannelPost(m) \/ Show(m) \/ Consent(m)
    \/ \E k \in 1..MaxUpdates : Store(k) \/ Remove(k) \/ Pay(k)

Spec == Init /\ [][Next]_vars
=============================================================================

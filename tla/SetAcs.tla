-------------------------------- MODULE SetAcs --------------------------------
(***************************************************************************)
(* The choice of the ACS URL: the shell script src/extras/set-acs, its     *)
(* files in the configuration directory, and the code of cwmpd that runs   *)
(* it: tr/acs_config.py and the URL part of tr/cpe_management_server.py.   *)
(*                                                                         *)
(* Every source of URLs keeps up to six files.  A run of the script is one *)
(* step; the DHCP client scripts, the watchdog that times an URL out and   *)
(* the users who call it run between the steps of cwmpd.                   *)
(***************************************************************************)
EXTENDS Naturals, Sequences, FiniteSets

CONSTANTS
  Sources,      \* the sources in use, from: manual, dhcp6, dhcp, find-acs
  Urls,         \* the URLs that sources and the ACS give
  Permitted,    \* those that match restrict_acs_hosts
  Default,      \* the URL of last resort
  Legacy,       \* the URLs an old acs_url.cwmp may hold; None: there is no such file
  MaxAttempts,  \* max_attempts of _GetURL (20 in the code)
  MaxCommands   \* bound on the runs of the script

VARIABLES
  files,      \* source -> kind of file -> the URL in it
  holdOff,    \* TRUE: find-acs_hold_off is in the future
  legacy,     \* the URL in the old acs_url.cwmp, None once it is migrated
  using,      \* orig_acs_url of cwmpd's session
  attempts,   \* how often _GetURL may still ask; 0: it is not asking
  died,       \* cwmpd exited on an error of set-acs
  answer,     \* what the last set-acs print said
  commands    \* bound: runs of the script so far

configuration == <<files, holdOff, legacy>>
cwmpd == <<using, attempts, died, answer>>
vars == <<files, holdOff, legacy, using, attempts, died, answer, commands>>

None == "None"

Ranked == <<"manual", "dhcp6", "dhcp", "find-acs">>

Kinds == {"", "timed_out", "redir", "blessed", "blessed.redir", "blessed.redir.blessed"}

Nothing == [k \in Kinds |-> None]

\* What is assumed of the constants.
SetAcsAssumption ==
  /\ Sources \subseteq {"manual", "dhcp6", "dhcp", "find-acs"}
  /\ None \notin Urls /\ Default # None
  /\ Legacy \subseteq Urls \cup {None}
  /\ MaxAttempts \in Nat

\* The first URL, other than None, of a sequence of them.
FirstOf(urls) ==
  LET some == {i \in DOMAIN urls : urls[i] # None} IN
  IF some = {} THEN None ELSE urls[CHOOSE i \in some : \A j \in some : i <= j]

\* find_source_for_url looks at one file of a source, the first of this list.
Shown(f) ==
  FirstOf(<<f["redir"], f[""], f["blessed.redir"], f["blessed.redir.blessed"],
            f["blessed"], f["timed_out"]>>)

SourceOf(fs, url) ==
  FirstOf([i \in 1..Len(Ranked) |->
             IF Ranked[i] \in Sources /\ Shown(fs[Ranked[i]]) = url THEN Ranked[i] ELSE None])

\* What _consider lists for a source: redirects before what they redirect.
Offered(f) ==
  FirstOf(<<IF f[""] = None THEN None ELSE f["redir"], f[""],
            IF f["blessed"] = None THEN None ELSE f["blessed.redir"],
            IF f["blessed"] = None THEN None ELSE f["blessed.redir.blessed"],
            f["blessed"]>>)

Offering(fs) ==
  FirstOf([i \in 1..Len(Ranked) |->
             IF Ranked[i] \in Sources /\ Offered(fs[Ranked[i]]) # None THEN Ranked[i] ELSE None])

\* Mutation: an URL that was blessed can time out.
TimesOutBlessed(f, url) ==
  IF f["blessed"] = url THEN [f EXCEPT !["blessed"] = None, !["timed_out"] = url] ELSE f

SetTimedOut(f, url) ==
  IF f[""] = url THEN [f EXCEPT ![""] = None, !["timed_out"] = url]
  ELSE IF f["redir"] = url THEN [f EXCEPT !["redir"] = None]
  ELSE IF f["blessed.redir"] = url THEN [f EXCEPT !["blessed.redir"] = None]
  ELSE f

SetAllNotTimedOut(fs) ==
  [s \in Sources |->
     IF fs[s]["timed_out"] # None /\ fs[s][""] = None
       THEN [fs[s] EXCEPT !["timed_out"] = None, ![""] = fs[s]["timed_out"]]
       ELSE fs[s]]

BlessFile(f, url) ==
  IF f["redir"] = url
    THEN [f EXCEPT !["redir"] = None, !["blessed.redir.blessed"] = url,
                   ![""] = None, !["blessed"] = IF f[""] = None THEN @ ELSE f[""]]
  ELSE IF f["blessed.redir"] = url
    THEN [f EXCEPT ![""] = None, !["redir"] = None, !["blessed.redir"] = None,
                   !["blessed.redir.blessed"] = url]
  ELSE IF f["blessed"] # url
    THEN [Nothing EXCEPT !["timed_out"] = f["timed_out"], !["blessed"] = url]
  ELSE f

UpdateFile(s, f, url) ==
  IF s = "manual" THEN [f EXCEPT !["blessed"] = url]
  ELSE IF f["blessed"] = url
    THEN [f EXCEPT ![""] = None, !["redir"] = None, !["timed_out"] = None]
  ELSE IF f["timed_out"] = url \/ f[""] = url THEN f
  ELSE [f EXCEPT ![""] = url, !["redir"] = None]

-----------------------------------------------------------------------------
\* all_urls.  find-acs is asked, with its answer or "fail", only when no
\* source before it offers an URL; if then nothing is offered, the URLs that
\* timed out get another chance.  The first file considered takes the URL of
\* the old acs_url.cwmp as its redirect, once.

AsksFindAcs(fs) ==
  "find-acs" \in Sources /\ ~holdOff /\ Offering(fs) \in {None, "find-acs"}

FoundAcs(fs, found) ==
  IF AsksFindAcs(fs) /\ found # "fail"
    THEN [fs EXCEPT !["find-acs"] =
            UpdateFile("find-acs", @, IF found = "blank" THEN Default ELSE found)]
    ELSE fs

\* Mutation: an URL that timed out is never tried again.
NotRevived(fs) == fs

Revived(fs) == IF Offering(fs) = None THEN SetAllNotTimedOut(fs) ELSE fs

RedirectKind(f) == IF f[""] # None THEN "redir" ELSE "blessed.redir"

Migrated(fs) ==
  IF legacy = None \/ Offering(fs) = None THEN fs
  ELSE [fs EXCEPT ![Offering(fs)] = [@ EXCEPT ![RedirectKind(@)] = legacy]]

Listed(found) == Migrated(Revived(FoundAcs(files, found)))

\* The effects of all_urls other than on the files.
Listing(found) ==
  /\ holdOff' = (holdOff \/ AsksFindAcs(files))
  /\ legacy' = IF Offering(Listed(found)) = None THEN legacy ELSE None

Command(new) ==
  /\ commands < MaxCommands /\ commands' = commands + 1
  /\ files' = new

-----------------------------------------------------------------------------
Init ==
  /\ files = [s \in Sources |-> Nothing]
  /\ holdOff = FALSE
  /\ legacy \in Legacy
  /\ using = None /\ attempts = 0 /\ died = FALSE /\ answer = None
  /\ commands = 0

\* set-acs dhcp6|dhcp|manual URL, from a DHCP client script or a user.
Update(s, url) ==
  /\ s # "find-acs"
  /\ Command([files EXCEPT ![s] = UpdateFile(s, @, url)])
  /\ UNCHANGED <<holdOff, legacy, cwmpd>>

Clear(s) ==
  /\ s # "find-acs"
  /\ Command([files EXCEPT ![s] = Nothing])
  /\ UNCHANGED <<holdOff, legacy, cwmpd>>

\* set-acs timeout URL, by the watchdog, of the URL that cwmpd tries.
Timeout ==
  /\ using # None
  /\ LET s == SourceOf(files, using) IN
     Command(IF s = None THEN files ELSE [files EXCEPT ![s] = SetTimedOut(@, using)])
  /\ UNCHANGED <<holdOff, legacy, cwmpd>>

\* The network bounced, or the time to hold off find-acs is over.
Bounce == holdOff /\ holdOff' = FALSE /\ UNCHANGED <<files, legacy, cwmpd, commands>>

\* A session begins: _GetURL asks.
AskUrl ==
  /\ ~died /\ using = None /\ attempts = 0
  /\ attempts' = MaxAttempts /\ answer' = None
  /\ UNCHANGED <<configuration, using, died, commands>>

\* set-acs print, and an URL that matches the list is used.
GetAcsUrl(found) ==
  /\ attempts > 0
  /\ LET new == Listed(found)
         url == IF Offering(new) = None THEN None ELSE Offered(new[Offering(new)])
     IN /\ Command(new)
        /\ answer' = url
        /\ IF url \in Permitted \cup {None}
             THEN using' = url /\ attempts' = 0
             ELSE UNCHANGED <<using, attempts>>
  /\ Listing(found)
  /\ UNCHANGED died

\* An URL that does not match is timed out and _GetURL asks again; that
\* set-acs does not know it means that something is extremely broken.
InvalidateAcsUrl ==
  /\ attempts > 0 /\ answer \notin Permitted \cup {None}
  /\ LET s == SourceOf(files, answer) IN
     /\ Command(IF s = None THEN files ELSE [files EXCEPT ![s] = SetTimedOut(@, answer)])
     /\ died' = (s = None)
     /\ attempts' = IF s = None THEN 0 ELSE attempts - 1
  /\ answer' = None
  /\ UNCHANGED <<holdOff, legacy, using>>

\* The ACS sets ManagementServer.URL in a session, or clears it.  The first
\* file that all_urls lists gets the redirect.
SetAcsUrl(url, found) ==
  /\ ~died /\ using # None /\ attempts = 0
  /\ url \in Permitted \cup {None}
  /\ LET new == Listed(found)
         s == Offering(new)
     IN Command(IF s = None THEN new
                ELSE [new EXCEPT ![s] =
                       IF url # None THEN [@ EXCEPT ![RedirectKind(@)] = url]
                       ELSE IF @[""] # None THEN [@ EXCEPT !["redir"] = None]
                       ELSE [@ EXCEPT !["blessed.redir"] = None,
                                      !["blessed.redir.blessed"] = None]])
  /\ Listing(found)
  /\ UNCHANGED <<using, attempts, died, answer>>

\* The session ends well: the URL it began with is blessed.  An exit code of
\* 1, for an URL that is not in use, raises AttributeError in Run.
AcsAccessSuccess ==
  /\ ~died /\ using # None /\ attempts = 0
  /\ LET s == SourceOf(files, using) IN
     /\ Command(IF s = None THEN files ELSE [files EXCEPT ![s] = BlessFile(@, using)])
     /\ died' = (s = None)
  /\ using' = None
  /\ UNCHANGED <<holdOff, legacy, attempts, answer>>

\* The session ends in an error.
SessionFailed ==
  /\ using # None /\ using' = None
  /\ UNCHANGED <<configuration, attempts, died, answer, commands>>

\* handle_callback_exception or sys.exit ended the process: another starts.
Restart == died /\ died' = FALSE /\ using' = None /\ attempts' = 0 /\ answer' = None
           /\ UNCHANGED <<configuration, commands>>

Next ==
  \/ \E s \in Sources : Clear(s) \/ \E url \in Urls : Update(s, url)
  \/ Timeout \/ Bounce \/ AskUrl \/ InvalidateAcsUrl
  \/ AcsAccessSuccess \/ SessionFailed \/ Restart
  \/ \E found \in Urls \cup {"blank", "fail"} :
       GetAcsUrl(found) \/ \E url \in Urls \cup {None} : SetAcsUrl(url, found)

Spec == Init /\ [][Next]_vars

-----------------------------------------------------------------------------
TypeOK ==
  LET urls == Urls \cup {Default, None} IN
  /\ files \in [Sources -> [Kinds -> urls]]
  /\ holdOff \in BOOLEAN /\ died \in BOOLEAN
  /\ legacy \in urls /\ using \in urls /\ answer \in urls
  /\ attempts \in 0..MaxAttempts

\* A blessed URL is never timed out and never forgotten: a source loses it
\* only when it is cleared altogether, and another takes its place only when
\* a user sets it or when a session with it, or with what it redirects to,
\* has succeeded.  About bless, set_timed_out and update_acs_file.
BlessedStays ==
  [][\A s \in Sources :
       LET old == files[s]["blessed"] new == files'[s]["blessed"] IN
       old # None /\ new # old =>
         \/ files'[s] = Nothing
         \/ s = "manual" /\ new # None
         \/ new # None /\ using \in {new, files'[s]["blessed.redir.blessed"]}]_vars

\* set-acs print has no answer only if no source knows any URL, timed out or
\* not: if all else fails, the URLs that timed out are tried again.  About
\* all_urls, set_all_not_timed_out and the loop of _GetURL.
AnswersWhileAnyKnown ==
  [][attempts > 0 /\ attempts' = 0 /\ answer = None /\ answer' = None
       => \A s \in Sources : \A k \in {"", "timed_out", "blessed"} : files'[s][k] = None]_vars
=============================================================================

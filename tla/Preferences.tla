---------------------------- MODULE Preferences -----------------------------
(***************************************************************************)
(* The settings of an account (src/auth.rs): the start folder and the      *)
(* display settings share one row of user_preferences, which is there only *)
(* while it differs from the defaults.  Requests of one user, from several *)
(* devices, change and read it in transactions between which the others    *)
(* fall, and a start folder is judged against a disk that changes.         *)
(***************************************************************************)
EXTENDS Questions

\* DisplayPreferences::default, and the defaults of the columns.
DisplayDefaults == [show_hidden_files |-> FALSE, theme |-> "system", autosave |-> TRUE, wrap_lines |-> FALSE]

\* A row, with the start folder of the empty share when none is set.
NoFolder == [share |-> "", path |-> "root"]
Row(folder, display) == <<[folder |-> folder, display |-> display]>>

-----------------------------------------------------------------------------
(* The transactions                                                         *)

\* default_folder and read_display_preferences; <<>> is None, and no row.
DefaultFolder(row) == IF row = <<>> THEN <<>> ELSE IF row[1].folder.share = "" THEN <<>> ELSE <<row[1].folder>>
ReadDisplayPreferences(row) == IF row = <<>> THEN DisplayDefaults ELSE row[1].display

\* Mutant: the columns that the last version added are not among those compared.
DeleteOlderDefaults(row) ==
    IF row = <<>> THEN row
    ELSE IF row[1].folder.share = ""
            /\ \A f \in {"show_hidden_files", "theme"} : row[1].display[f] = DisplayDefaults[f] THEN <<>> ELSE row

DeleteDefaultPreferences(row) ==
    IF row = <<>> THEN row
    ELSE IF row[1].folder.share = "" /\ row[1].display = DisplayDefaults THEN <<>> ELSE row

SetDefaultFolder(row, folder) ==
    IF folder = <<>> THEN DeleteDefaultPreferences(IF row = <<>> THEN row ELSE Row(NoFolder, row[1].display))
    ELSE IF row = <<>> THEN Row(folder[1], DisplayDefaults) ELSE Row(folder[1], row[1].display)

\* COALESCE of each column: an update names the fields that it changes.
Over(update, display) == [f \in DOMAIN display |-> IF f \in DOMAIN update THEN update[f] ELSE display[f]]

\* The row with the fields of an update; what is answered is read before a row that is
\* the default is dropped.
UpdateDisplay(row, update) ==
    LET updated == IF row = <<>> THEN Row(NoFolder, Over(update, DisplayDefaults))
                   ELSE Row(row[1].folder, Over(update, row[1].display))
    IN [saved |-> ReadDisplayPreferences(updated), row |-> DeleteDefaultPreferences(updated)]

-----------------------------------------------------------------------------
(* The requests                                                             *)

\* valid_default_folder: a share that the user is granted, and its root or what is a
\* directory now.  A name that is not one of a share, or of a path, is neither.
ValidDefaultFolder(granted, folder, dirs) ==
    /\ folder.share \in granted
    /\ folder.path = "root" \/ <<folder.share, folder.path>> \in dirs

\* An answer, with how far the changes and the folders had come when it was given.
Answer(kind, folder, display, log, dirs) ==
    [kind |-> kind, folder |-> folder, display |-> display, log |-> Len(log), dirs |-> dirs]
Error(kind, s) == Answer(kind, <<>>, DisplayDefaults, s.log, s.dirs)

BeginPreferences ==
    /\ Asked("preferences")
    /\ LET all == DOMAIN question.requests IN
       Reply([pc |-> "run", row |-> question.row, dirs |-> question.dirs, log |-> <<>>,
              at |-> [i \in all |-> "start"], seen |-> [i \in all |-> <<>>],
              began |-> [i \in all |-> [log |-> 0, dirs |-> question.dirs]],
              result |-> [i \in all |-> Answer("none", <<>>, DisplayDefaults, <<>>, question.dirs)]])

Turn(i, at, kind) == Under("preferences") /\ Now.at[i] = at /\ question.requests[i].kind = kind
Started == [log |-> Len(Now.log), dirs |-> Now.dirs]
End(s, i, result) ==
    LET at == [s.at EXCEPT ![i] = "end"] IN
    Reply([s EXCEPT !.at = at, !.result[i] = result, !.pc = IF \A j \in DOMAIN at : at[j] = "end" THEN "done" ELSE "run"])
Refuse(i, error) == End([Now EXCEPT !.began[i] = Started], i, Error(error, Now))

\* update_preferences: the checks of the request, of which the first that fails is its
\* refusal, and the folder judged before it is stored.
JudgeUpdate(i) ==
    /\ Turn(i, "start", "folder")
    /\ LET r == question.requests[i] IN
       IF r.refused # "" THEN Refuse(i, r.refused)
       ELSE IF r.folder # <<>> /\ ~ValidDefaultFolder(question.granted, r.folder[1], Now.dirs) THEN Refuse(i, "not_found")
       ELSE Reply([Now EXCEPT !.at[i] = "store", !.began[i] = Started])
StoreFolder(i) ==
    /\ Turn(i, "store", "folder")
    /\ LET folder == question.requests[i].folder
           log == Append(Now.log, [folder |-> folder]) IN
       End([Now EXCEPT !.row = SetDefaultFolder(@, folder), !.log = log],
           i, Answer("folder", folder, DisplayDefaults, log, Now.dirs))

\* update_display_preferences.
UpdateDisplayPreferences(i) ==
    /\ Turn(i, "start", "display")
    /\ LET r == question.requests[i]
           u == UpdateDisplay(Now.row, r.update)
           log == Append(Now.log, r.update)
       IN IF r.refused # "" THEN Refuse(i, r.refused)
          ELSE End([Now EXCEPT !.began[i] = Started, !.row = u.row, !.log = log],
                   i, Answer("display", <<>>, u.saved, log, Now.dirs))

\* session_response: the folder is read, then judged, and then the display is read.
ReadFolder(i) ==
    /\ Turn(i, "start", "session")
    /\ IF question.requests[i].refused # "" THEN Refuse(i, question.requests[i].refused)
       ELSE Reply([Now EXCEPT !.began[i] = Started, !.seen[i] = DefaultFolder(Now.row),
                              !.at[i] = IF DefaultFolder(Now.row) = <<>> THEN "display" ELSE "judge"])
JudgeFolder(i) ==
    /\ Turn(i, "judge", "session")
    /\ Reply([Now EXCEPT !.at[i] = "display",
                         !.seen[i] = IF ValidDefaultFolder(question.granted, @[1], Now.dirs) THEN @ ELSE <<>>])
ReadDisplay(i) ==
    /\ Turn(i, "display", "session")
    /\ End(Now, i, Answer("session", Now.seen[i], ReadDisplayPreferences(Now.row), Now.log, Now.dirs))

\* with_connection: a transaction that fails changes nothing, and the request with it.
StoreFails(i) ==
    /\ \/ Turn(i, "store", "folder") \/ Turn(i, "display", "session")
       \/ question.requests[i].refused = "" /\ (Turn(i, "start", "display") \/ Turn(i, "start", "session"))
    /\ End(Now, i, Error("internal", Now))

\* A folder is deleted, or a file takes its place (external, see Trash).
FolderGoes ==
    /\ Under("preferences")
    /\ \E d \in Now.dirs : Reply([Now EXCEPT !.dirs = @ \ {d}])

PreferencesStep ==
    \/ BeginPreferences \/ FolderGoes
    \/ /\ Under("preferences")
       /\ \E i \in DOMAIN question.requests :
            \/ JudgeUpdate(i) \/ StoreFolder(i) \/ UpdateDisplayPreferences(i)
            \/ ReadFolder(i) \/ JudgeFolder(i) \/ ReadDisplay(i) \/ StoreFails(i)

-----------------------------------------------------------------------------
(* Properties                                                               *)

\* What the user set, by the first changes that were stored: a setting is as the last
\* change that names it has it, or as it was at first.
AtFirst(row, f) == IF f = "folder" THEN DefaultFolder(row) ELSE ReadDisplayPreferences(row)[f]
SetBy(row, log, n, f) ==
    LET named == {k \in 1 .. n : f \in DOMAIN log[k]} IN
    IF named = {} THEN AtFirst(row, f) ELSE log[Max(named)][f]
Display(row, log, n) == [f \in DOMAIN DisplayDefaults |-> SetBy(row, log, n, f)]

\* However the requests of a user's devices fall, every setting is the one last stored
\* for it: no request changes what it does not name, and a row is dropped only when all
\* that it holds is the default.  An answer has the settings of a moment of its request,
\* and a start folder that is answered was set, granted and a directory while the
\* request ran; one that all that time was these is answered (auth.rs,
\* delete_default_preferences, update_display_preferences and session_response).
SettingsAreKept ==
    question.what = "preferences" /\ answer # <<>> =>
        /\ Display(question.row, Now.log, Len(Now.log)) = ReadDisplayPreferences(Now.row)
        /\ SetBy(question.row, Now.log, Len(Now.log), "folder") = DefaultFolder(Now.row)
        /\ Now.row # <<>> => DefaultFolder(Now.row) # <<>> \/ Now.row[1].display # DisplayDefaults
        /\ \A i \in DOMAIN question.requests :
             LET a == Now.result[i]
                 b == Now.began[i]
                 Folder(n) == SetBy(question.row, Now.log, n, "folder")
             IN /\ a.kind \in {"display", "session"} => a.display = Display(question.row, Now.log, a.log)
                /\ a.kind = "session" /\ a.folder # <<>> =>
                     /\ \E n \in b.log .. a.log : Folder(n) = a.folder
                     /\ ValidDefaultFolder(question.granted, a.folder[1], b.dirs)
                /\ a.kind = "session" /\ a.folder = <<>> =>
                     \E n \in b.log .. a.log :
                        Folder(n) # <<>> => ~ValidDefaultFolder(question.granted, Folder(n)[1], a.dirs)

-----------------------------------------------------------------------------
(* The settings by themselves, for any requests on any row that the table    *)
(* may hold: no share has the empty name, and an update names settings.      *)
IsRow(row) ==
    row # <<>> =>
        /\ row = Row(row[1].folder, row[1].display)
        /\ row[1].folder.share = "" => row[1].folder = NoFolder
        /\ row[1].display = [f \in DOMAIN DisplayDefaults |-> row[1].display[f]]
        /\ row[1].folder.share = "" => row[1].display # DisplayDefaults
IsFolder(folder) == folder # <<>> => folder = <<folder[1]>>

SettingsQuestion(q) ==
    /\ q.what = "preferences" /\ "" \notin q.granted /\ IsRow(q.row)
    /\ \A i \in DOMAIN q.requests : LET r == q.requests[i] IN
         /\ r.kind \in {"folder", "display", "session"} /\ r.refused \notin {"folder", "display", "session"}
         /\ r.kind = "folder" => IsFolder(r.folder)
         /\ r.kind = "display" => DOMAIN r.update \subseteq DOMAIN DisplayDefaults

SettingsInit == answer = <<>> /\ SettingsQuestion(question)
SettingsSpec == SettingsInit /\ [][PreferencesStep]_<<question, answer>>

SettingsState == {"pc", "row", "dirs", "log", "at", "seen", "began", "result"}

\* What is stored is what the changes amount to, and a row is there for a reason.
Stored(q, s) ==
    /\ IsRow(s.row)
    /\ \A k \in 1 .. Len(s.log) : DOMAIN s.log[k] \subseteq DOMAIN DisplayDefaults \cup {"folder"}
    /\ Display(q.row, s.log, Len(s.log)) = ReadDisplayPreferences(s.row)
    /\ SetBy(q.row, s.log, Len(s.log), "folder") = DefaultFolder(s.row)

\* While a request ran, this folder was set and could be answered; or none that could be.
WasSet(q, s, i, folder, to) == \E n \in s.began[i].log .. to : SetBy(q.row, s.log, n, "folder") = folder
CouldBe(q, s, i, folder) == folder # <<>> => ValidDefaultFolder(q.granted, folder[1], s.began[i].dirs)
NoneFits(q, s, i, to, dirs) ==
    \E n \in s.began[i].log .. to : LET folder == SetBy(q.row, s.log, n, "folder") IN
        folder # <<>> => ~ValidDefaultFolder(q.granted, folder[1], dirs)

\* What a request that has come to at[i] knows.
Follows(q, s, i) ==
    LET r == q.requests[i]
        a == s.result[i]
        b == s.began[i] IN
    /\ s.at[i] \in {"start", "store", "judge", "display", "end"}
    /\ b.log \in 0 .. Len(s.log) /\ s.dirs \subseteq b.dirs
    /\ s.at[i] # "end" => a.kind = "none"
    /\ s.at[i] = "store" => r.kind = "folder" /\ (r.folder # <<>> => r.folder[1].share # "")
    /\ s.at[i] = "judge" => s.seen[i] # <<>> /\ WasSet(q, s, i, s.seen[i], Len(s.log))
    /\ s.at[i] = "display" =>
         IF s.seen[i] = <<>> THEN NoneFits(q, s, i, Len(s.log), s.dirs)
         ELSE WasSet(q, s, i, s.seen[i], Len(s.log)) /\ CouldBe(q, s, i, s.seen[i])
    /\ a.log \in 0 .. Len(s.log)
    /\ a.kind \in {"display", "session"} => a.display = Display(q.row, s.log, a.log)
    /\ a.kind = "session" =>
         IF a.folder = <<>> THEN NoneFits(q, s, i, a.log, a.dirs)
         ELSE WasSet(q, s, i, a.folder, a.log) /\ CouldBe(q, s, i, a.folder)

SettingsSound(q, s) ==
    /\ s = [f \in SettingsState |-> s[f]]
    /\ s.pc \in {"run", "done"} /\ s.log \in Seq(ToSet(s.log))
    /\ \A h \in {s.at, s.seen, s.began, s.result} : h = [i \in DOMAIN q.requests |-> h[i]]
    /\ Stored(q, s)
    /\ \A i \in DOMAIN q.requests : Follows(q, s, i)

SettingsInv ==
    /\ SettingsQuestion(question)
    /\ answer # <<>> => answer = <<Now>> /\ SettingsSound(question, Now)

=============================================================================

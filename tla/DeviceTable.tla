---------------------------- MODULE DeviceTable ----------------------------
(***************************************************************************)
(* What loading the .tablet files promises (the loop over load_tablet_files *)
(* in database_new_for_paths, libwacom-database.c), stated as one step: the *)
(* outcome depends on what is on disk alone, and not on the order in which  *)
(* readdir returns the files.                                               *)
(*                                                                          *)
(* A directory holds at most one file of each name.  The file of a name in  *)
(* the first directory that has one hides the files of that name in all the *)
(* later ones.  Loading succeeds when every directory can be read or does   *)
(* not exist and no match string belongs to two of the files that are left; *)
(* then the table sends each match string to the file that has it.  It fails *)
(* when two files of one directory have a match string.  Of a match string  *)
(* in files of two directories NEWS says that it is no conflict, while the  *)
(* loop makes it one: here loading may fail, or succeed with the file of    *)
(* the first directory in the table.                                        *)
(***************************************************************************)
EXTENDS Integers, Sequences

CONSTANTS
  NDirs,       \* number of data directories, 1 the first in precedence
  FileName,    \* names of .tablet files
  MatchString, \* match strings, as libwacom_match_get_match_string returns
  NoDevice     \* the absence of a device

Dir    == 1..NDirs
Device == Dir \X FileName   \* a device is the file it is parsed from

VARIABLES
  dirStatus, \* what opendir finds for each directory
  files,     \* the files there are
  matches,   \* the matches array parsed from each file, <<>> if it is invalid
  outcome,   \* "loading", "loaded" or "failed"
  table      \* the loaded table, match string to device

tableVars == <<dirStatus, files, matches, outcome, table>>

HasMatch(f, m) == \E i \in 1..Len(matches[f]) : matches[f][i] = m
Visible(f)     == f \in files /\ \A e \in Dir : e < f[1] => <<e, f[2]>> \notin files
Claims(f, m)   == Visible(f) /\ HasMatch(f, m)
Clash          == \E f, g \in files, m \in MatchString :
                    f # g /\ Claims(f, m) /\ Claims(g, m)
Unreadable     == \E d \in Dir : dirStatus[d] = "unreadable"

ClashWithin(d) == \E f, g \in files, m \in MatchString :
                    f # g /\ f[1] = d /\ g[1] = d /\ Claims(f, m) /\ Claims(g, m)
Conflict       == \E d \in Dir : ClashWithin(d)

ClaimsFirst(f, m) == Claims(f, m) /\ \A g \in files : Claims(g, m) => f[1] <= g[1]

EmptyTable == [m \in MatchString |-> NoDevice]
Owner(m)   == IF \E f \in files : ClaimsFirst(f, m)
              THEN CHOOSE f \in files : ClaimsFirst(f, m)
              ELSE NoDevice

TableInit == outcome = "loading" /\ table = EmptyTable

Succeed ==
  /\ outcome = "loading"
  /\ ~Conflict /\ ~Unreadable
  /\ outcome' = "loaded"
  /\ table' = [m \in MatchString |-> Owner(m)]
  /\ UNCHANGED <<dirStatus, files, matches>>

Fail ==
  /\ outcome = "loading"
  /\ Clash \/ Unreadable
  /\ outcome' = "failed"
  /\ UNCHANGED <<dirStatus, files, matches, table>>

TableNext == Succeed \/ Fail
TableSpec == TableInit /\ [][TableNext]_tableVars
=============================================================================

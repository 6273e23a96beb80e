----------------------------- MODULE ProjectTheme -----------------------------
(***************************************************************************)
(* The theme of one project: one row with an optimistic version, saved     *)
(* under a lock on the project.  The plugin a theme is taken from is       *)
(* checked before that transaction.                                        *)
(***************************************************************************)
EXTENDS Naturals

CONSTANTS
    ThemeAuthors,   \* who edits the theme
    MaxSaves        \* bound: saves of the theme

ASSUME ProjectThemeAssumption == MaxSaves \in Nat \ {0}

VARIABLES
    theme,          \* project_themes: its version, and which save it is
    author          \* what each author does, the theme it was shown, and whether its save
                    \* states the version of that (expectedVersion is optional)

projectThemeVars == <<theme, author>>

\* Without a row, readers are answered this: no save, and version 1.
DefaultTheme == [version |-> 1, save |-> 0]
Themes == [version : 1 .. MaxSaves, save : 0 .. MaxSaves]

\* The shape of the state.
ProjectThemeTypeOK ==
    /\ theme \in Themes
    /\ author \in [ThemeAuthors -> [at : {"idle", "editing", "checked"}, seen : Themes,
                                   states : BOOLEAN]]

ProjectThemeInit ==
    /\ theme = DefaultTheme
    /\ author = [a \in ThemeAuthors |-> [at |-> "idle", seen |-> DefaultTheme, states |-> FALSE]]

-----------------------------------------------------------------------------

\* getProjectTheme: without a row it answers the default, as version 1.
ReadTheme(a) ==
    /\ author[a].at = "idle"
    /\ \E states \in BOOLEAN :
          author' = [author EXCEPT ![a] = [at |-> "editing", seen |-> theme, states |-> states]]
    /\ UNCHANGED theme

\* The plugin a theme is taken from is checked before the transaction; a theme
\* whose plugin is not usable is refused.
CheckThemeReference(a) ==
    /\ author[a].at = "editing"
    /\ \E result \in {"checked", "idle"} : author' = [author EXCEPT ![a].at = result]
    /\ UNCHANGED theme

\* Mutant: the version expected is not compared in the transaction.
AnyVersion(a) == TRUE

\* expectedVersion, if it is given, is the version this author was shown: only then the
\* versions are compared.
VersionExpected(a) == author[a].states => author[a].seen.version = theme.version

\* The first save inserts version 1, a later one adds one.
NextTheme ==
    [version |-> IF theme = DefaultTheme THEN 1 ELSE theme.version + 1,
     save |-> theme.save + 1]

SaveTheme(a) ==
    /\ author[a].at = "checked"
    /\ VersionExpected(a)
    /\ theme.save < MaxSaves
    /\ theme' = NextTheme
    /\ author' = [author EXCEPT ![a].at = "idle"]

RefuseTheme(a) ==
    /\ author[a].at = "checked"
    /\ ~VersionExpected(a)
    /\ author' = [author EXCEPT ![a].at = "idle"]
    /\ UNCHANGED theme

ProjectThemeNext ==
    \E a \in ThemeAuthors :
        ReadTheme(a) \/ CheckThemeReference(a) \/ SaveTheme(a) \/ RefuseTheme(a)

ProjectThemeSpec == ProjectThemeInit /\ [][ProjectThemeNext]_projectThemeVars

-----------------------------------------------------------------------------

\* In this step a saves a theme and states the version it was shown.
SavesStated(a) ==
    /\ theme' # theme
    /\ author[a].at = "checked" /\ author'[a].at = "idle"
    /\ author[a].states

\* A save that states the version its author was shown never replaces a theme that author
\* was not shown, whoever else saves meanwhile, with or without a version; unless what it
\* replaces is the first save and it was shown the default, which has the same version
\* (updateProjectTheme in packages/chart/src/index.ts).
NoThemeLostUnseen ==
    [][\A a \in ThemeAuthors :
           SavesStated(a) =>
               author[a].seen = theme \/ (author[a].seen = DefaultTheme /\ theme.save = 1)
      ]_projectThemeVars

\* Of two saves that state the same version one is refused: 200 and 409, as
\* plugins.integration.test.ts:452-455 has it, so a save that states a version replaces what
\* its author was shown. The default is answered as version 1, and the first save is version
\* 1 again: both authors who were shown the default succeed.
StatedVersionProtects ==
    [][\A a \in ThemeAuthors : SavesStated(a) => author[a].seen = theme]_projectThemeVars
=============================================================================

------------------------- MODULE ReviewSessionProofs --------------------------
(***************************************************************************)
(* Proofs about the stores of a Review Session, for any Games, commands and*)
(* operations.  ImportedGames: an import answers with the review that is   *)
(* stored, and a delete leaves nothing of its Game behind, unless other    *)
(* commands ran beside it.  LanguageLayerSpend: a session is never under   *)
(* two envelopes, no reservation outlives its turn but where the ledger    *)
(* could not be read, and what the provider billed is settled once.        *)
(***************************************************************************)
EXTENDS ImportedGames, LanguageLayerSpend, CollectionLemmas

-----------------------------------------------------------------------------
(* Imported games.                                                         *)
CommandPC ==
    {"idle", "find", "analyse", "create", "winner", "card", "build", "list", "delete", "forget"}
CommandState ==
    [pc : CommandPC, import : Import \cup {NotIssued.import}, recording : BOOLEAN,
     review : Nat, addressed : SUBSET Import, undisturbed : BOOLEAN]

(* What a command read is still so, unless it was disturbed; and what a    *)
(* delete listed is all there is of its Game, unless it ran beside others. *)
Sound(state) ==
    /\ state \in CommandState
    /\ state.pc # "idle" => state.import \in Import
    /\ state.pc = "create" => state.review # 0
    /\ state.pc \in {"delete", "forget"} =>
           \A i \in state.addressed : GameOf[i] = GameOf[state.import]
    /\ ~state.undisturbed => GameOf[state.import] \in overlapped
    /\ state.pc \in {"card", "build"} /\ state.undisturbed =>
           state.review # 0 /\ state.review = stored[state.import]
    /\ state.pc = "delete" /\ GameOf[state.import] \notin overlapped =>
           \A i \in Import :
               GameOf[i] = GameOf[state.import] /\ stored[i] # 0 => i \in state.addressed

GoneOK(i) ==
    GameOf[i] \notin overlapped =>
        /\ card[GameOf[i]] = i => stored[i] # 0
        /\ i \in filed => stored[i] # 0 /\ card[GameOf[i]] # NoImport
        /\ resident[i] # 0 => resident[i] = stored[i] \/ Forgetting(i)

ImportsTypeOK ==
    /\ stored \in [Import -> Nat] /\ resident \in [Import -> Nat]
    /\ card \in [Game -> Import \cup {NoImport}]
    /\ command = [c \in Command |-> command[c]]
    /\ reviews \in Nat /\ filed \subseteq Import

ImportsInv ==
    /\ ImportsTypeOK /\ astray = {}
    /\ \A c \in Command : Sound(command[c])
    /\ \A i \in Import : GoneOK(i)

LEMMA GameOfIsGame == \A i \in Import : GameOf[i] \in Game
BY DEF Game

LEMMA NotIssuedIsSound == Sound(NotIssued) /\ Sound(NotIssued)' /\ NotIssued.pc = "idle"
BY DEF Sound, NotIssued, CommandState, CommandPC

LEMMA ImportsInitInv == ImportsInit => ImportsInv
<1> SUFFICES ASSUME ImportsInit PROVE ImportsInv
  OBVIOUS
<1>1. ImportsTypeOK
  BY DEF ImportsInit, ImportsTypeOK
<1>2. \A c \in Command : Sound(command[c])
  BY NotIssuedIsSound DEF ImportsInit
<1>3. \A i \in Import : GoneOK(i)
  BY ImportsAssumption, GameOfIsGame DEF ImportsInit, GoneOK
<1> QED BY <1>1, <1>2, <1>3 DEF ImportsInv, ImportsInit

-----------------------------------------------------------------------------
(* A step of c that touches no document and no session.                    *)
LEMMA CommandStepKeeps ==
    ASSUME ImportsInv, NEW c \in Command, NEW state, Sound(state),
           command' = [command EXCEPT ![c] = state], ~Doing(c, "forget"),
           UNCHANGED <<documents, resident, overlapped>>, reviews' \in Nat, astray' = {}
    PROVE  ImportsInv'
<1>1. /\ command'[c] = state
      /\ \A d \in Command : d # c => command'[d] = command[d]
  BY DEF ImportsInv, ImportsTypeOK
<1>2. ImportsTypeOK'
  BY DEF ImportsInv, ImportsTypeOK, documents
<1>3. ASSUME NEW d \in Command PROVE Sound(command[d])'
  BY <1>1 DEF ImportsInv, Sound, documents
<1>4. ASSUME NEW i \in Import PROVE GoneOK(i)'
  <2>1. Forgetting(i) => Forgetting(i)'
    BY <1>1 DEF Forgetting, Doing
  <2> QED BY <2>1 DEF ImportsInv, GoneOK, documents
<1> QED BY <1>2, <1>3, <1>4 DEF ImportsInv

LEMMA LeaveKeeps ==
    ASSUME ImportsInv, NEW c \in Command, Leave(c), ~Doing(c, "forget"),
           UNCHANGED <<documents, resident, overlapped>>, reviews' \in Nat, astray' = {}
    PROVE  ImportsInv'
BY NotIssuedIsSound, CommandStepKeeps DEF Leave

LEMMA GoOnKeeps ==
    ASSUME ImportsInv, NEW c \in Command, NEW pc \in {"analyse", "winner"}, GoOn(c, pc),
           InFlight(c), ~Doing(c, "forget"),
           UNCHANGED <<documents, resident, overlapped, reviews, astray>>
    PROVE  ImportsInv'
<1>1. Sound([command[c] EXCEPT !.pc = pc])
  BY DEF ImportsInv, Sound, CommandState, CommandPC, InFlight, Doing
<1> QED BY <1>1, CommandStepKeeps DEF GoOn, ImportsInv, ImportsTypeOK

LEMMA IssueKeeps ==
    ASSUME ImportsInv, NEW c \in Command, IssueImport(c) \/ IssueLoad(c) \/ IssueDelete(c)
    PROVE  ImportsInv'
<1>1. ~Doing(c, "forget") /\ UNCHANGED <<documents, resident, reviews, overlapped, astray>>
  BY DEF IssueImport, IssueLoad, IssueDelete, Doing
<1>2. ASSUME NEW i \in Import, NEW recording \in BOOLEAN
      PROVE  Sound([NotIssued EXCEPT !.pc = "find", !.import = i, !.recording = recording])
  BY DEF Sound, NotIssued, CommandState, CommandPC
<1>3. ASSUME NEW i \in Import, stored[i] # 0
      PROVE  /\ Sound([NotIssued EXCEPT !.pc = "build", !.import = i, !.review = stored[i]])
             /\ Sound([NotIssued EXCEPT !.pc = "list", !.import = i])
  BY <1>3 DEF ImportsInv, ImportsTypeOK, Sound, NotIssued, CommandState, CommandPC
<1>4. \E state : Sound(state) /\ command' = [command EXCEPT ![c] = state]
  BY <1>2, <1>3 DEF IssueImport, IssueLoad, IssueDelete
<1> QED BY <1>1, <1>4, CommandStepKeeps DEF ImportsInv, ImportsTypeOK

(* The stored review is the answer, now or once its card is filed.         *)
LEMMA AdoptStoredKeeps ==
    ASSUME ImportsInv, NEW c \in Command, AdoptStored(c), stored[Of(c)] # 0,
           InFlight(c), ~Doing(c, "forget"), UNCHANGED <<resident, reviews, overlapped>>
    PROVE  ImportsInv'
<1>1. CASE command[c].recording
  <2> DEFINE state == [command[c] EXCEPT !.pc = "card", !.review = stored[Of(c)]]
  <2>1. command' = [command EXCEPT ![c] = state] /\ UNCHANGED <<documents, astray>>
    BY <1>1 DEF AdoptStored
  <2>2. Sound(state)
    BY DEF ImportsInv, ImportsTypeOK, Sound, CommandState, CommandPC, InFlight, Doing, Of
  <2> QED BY <2>1, <2>2, CommandStepKeeps DEF ImportsInv, ImportsTypeOK
<1>2. CASE ~command[c].recording
  BY <1>2, LeaveKeeps DEF AdoptStored, Complete, documents, ImportsInv, ImportsTypeOK
<1> QED BY <1>1, <1>2

LEMMA FindKeeps ==
    ASSUME ImportsInv, NEW c \in Command, FindImport(c) \/ FindWinner(c)
    PROVE  ImportsInv'
<1>1. /\ InFlight(c) /\ ~Doing(c, "forget")
      /\ UNCHANGED <<resident, reviews, overlapped>>
  BY DEF FindImport, FindWinner, InFlight, Doing
<1>2. CASE stored[Of(c)] # 0
  BY <1>1, <1>2, AdoptStoredKeeps DEF FindImport, FindWinner
<1>3. CASE stored[Of(c)] = 0
  <2>1. GoOn(c, "analyse") \/ Leave(c)
    BY <1>3 DEF FindImport, FindWinner
  <2>2. UNCHANGED <<documents, astray>>
    BY <1>3 DEF FindImport, FindWinner
  <2> QED BY <1>1, <2>1, <2>2, GoOnKeeps, LeaveKeeps DEF ImportsInv, ImportsTypeOK
<1> QED BY <1>2, <1>3

LEMMA AnalyseKeeps ==
    ASSUME ImportsInv, NEW c \in Command, Analyse(c)
    PROVE  ImportsInv'
<1> DEFINE state == [command[c] EXCEPT !.pc = "create", !.review = reviews + 1]
<1>1. reviews \in Nat /\ reviews' = reviews + 1 /\ reviews + 1 \in Nat /\ reviews + 1 # 0
  BY DEF ImportsInv, ImportsTypeOK, Analyse
<1>2. Sound(state)
  BY <1>1 DEF ImportsInv, Sound, CommandState, CommandPC, Analyse, Doing
<1>3. command' = [command EXCEPT ![c] = state]
  BY <1>1 DEF Analyse
<1> QED BY <1>1, <1>2, <1>3, CommandStepKeeps DEF Analyse, Doing, ImportsInv

LEMMA ListKeeps ==
    ASSUME ImportsInv, NEW c \in Command, ListImports(c)
    PROVE  ImportsInv'
<1> DEFINE state == [command[c] EXCEPT !.pc = "delete", !.addressed = Addressed(c)]
<1>1. Of(c) \in Import
  BY DEF ImportsInv, Sound, ListImports, Doing, Of
<1>2. /\ Addressed(c) \subseteq Import
      /\ \A i \in Addressed(c) : GameOf[i] = GameOf[Of(c)]
      /\ \A i \in Import : GameOf[i] = GameOf[Of(c)] /\ stored[i] # 0 => i \in Addressed(c)
  BY <1>1 DEF Addressed
<1> HIDE DEF Addressed
<1>3. Sound(state)
  BY <1>2 DEF ImportsInv, Sound, CommandState, CommandPC, ListImports, Doing, Of
<1> QED BY <1>3, CommandStepKeeps DEF ListImports, Doing, ImportsInv, ImportsTypeOK

LEMMA GiveUpKeeps ==
    ASSUME ImportsInv, NEW c \in Command, GiveUp(c)
    PROVE  ImportsInv'
BY LeaveKeeps DEF GiveUp, ImportsInv, ImportsTypeOK

-----------------------------------------------------------------------------
(* What the other imports of the Game keep when the card comes to name c's.*)
LEMMA CardKeeps ==
    ASSUME ImportsInv, NEW c \in Command, Of(c) \in Import, CardFor(c),
           ~Doing(c, "forget"), Leave(c),
           UNCHANGED <<stored, resident, reviews, overlapped, astray>>,
           GameOf[Of(c)] \notin overlapped => stored[Of(c)] # 0
    PROVE  ImportsInv'
<1> PICK i : i = Of(c)
  OBVIOUS
<1>1. /\ card' = [card EXCEPT ![GameOf[i]] = i] /\ filed' = filed \cup {i}
      /\ i \in Import /\ GameOf[i] \in Game
      /\ GameOf[i] \notin overlapped => stored[i] # 0
  BY GameOfIsGame DEF CardFor
<1>2. /\ command'[c] = NotIssued
      /\ \A d \in Command : d # c => command'[d] = command[d]
  BY DEF ImportsInv, ImportsTypeOK, Leave
<1>3. ImportsTypeOK'
  BY <1>1 DEF ImportsInv, ImportsTypeOK, Leave
<1>4. ASSUME NEW d \in Command PROVE Sound(command[d])'
  BY <1>2, NotIssuedIsSound DEF ImportsInv, Sound
<1>5. ASSUME NEW j \in Import PROVE GoneOK(j)'
  <2>1. Forgetting(j) => Forgetting(j)'
    BY <1>2 DEF Forgetting, Doing
  <2>2. GameOf[j] \in Game /\ card \in [Game -> Import \cup {NoImport}] /\ GoneOK(j)
    BY GameOfIsGame DEF ImportsInv, ImportsTypeOK
  <2>3. CASE GameOf[j] = GameOf[i]
    <3>1. card'[GameOf[j]] = i /\ i # NoImport
      BY <1>1, <2>2, <2>3, ImportsAssumption
    <3> QED BY <1>1, <2>1, <2>2, <2>3, <3>1 DEF GoneOK
  <2>4. CASE GameOf[j] # GameOf[i]
    <3>1. card'[GameOf[j]] = card[GameOf[j]] /\ j # i
      BY <1>1, <2>2, <2>4
    <3> QED BY <1>1, <2>1, <2>2, <3>1 DEF GoneOK
  <2> QED BY <2>3, <2>4
<1> QED BY <1>3, <1>4, <1>5 DEF ImportsInv

LEMMA UpsertCardKeeps ==
    ASSUME ImportsInv, NEW c \in Command, UpsertCard(c)
    PROVE  ImportsInv'
<1>1. /\ Sound(command[c]) /\ command[c].pc = "card"
      /\ command[c].undisturbed \in BOOLEAN
  BY DEF ImportsInv, UpsertCard, Doing, Sound, CommandState
<1>2. Of(c) \in Import /\ (GameOf[Of(c)] \notin overlapped => stored[Of(c)] # 0)
  BY <1>1 DEF Sound, Of
<1>3. astray' = {} /\ Leave(c)
  BY <1>1 DEF UpsertCard, Complete, ImportsInv, Sound, Of
<1> QED BY <1>1, <1>2, <1>3, CardKeeps DEF UpsertCard, Doing, ImportsInv

(* The record of c's import is stored while there is none.                 *)
LEMMA CreateImportKeeps ==
    ASSUME ImportsInv, NEW c \in Command, CreateImport(c)
    PROVE  ImportsInv'
<1>1. /\ Sound(command[c]) /\ command[c].pc = "create" /\ Of(c) \in Import
      /\ command[c].review \in Nat \ {0}
  BY DEF ImportsInv, CreateImport, Doing, Sound, CommandState, Of
<1> PICK i : i = Of(c)
  OBVIOUS
<1> PICK r : r = command[c].review
  OBVIOUS
<1>2. /\ resident' = resident /\ reviews' = reviews /\ overlapped \subseteq overlapped'
      /\ \A d \in Beside(c) : Doing(d, "delete") => GameOf[i] \in overlapped'
  BY DEF CreateImport
<1>3. CASE stored[i] # 0
  <2>1. command' = [command EXCEPT ![c].pc = "winner"] /\ UNCHANGED <<documents, astray>>
    BY <1>3, <1>1 DEF CreateImport, GoOn
  <2>2. \A d \in Command :
           /\ d # c => command'[d] = command[d]
           /\ command'[c] = [command[c] EXCEPT !.pc = "winner"]
    BY <2>1 DEF ImportsInv, ImportsTypeOK
  <2>3. ImportsTypeOK'
    BY <1>2, <2>1 DEF ImportsInv, ImportsTypeOK, documents
  <2>4. Sound(command[c])'
    BY <1>1, <1>2, <2>1, <2>2 DEF Sound, CommandState, CommandPC, documents
  <2>5. ASSUME NEW d \in Command, d # c PROVE Sound(command[d])'
    BY <1>2, <2>1, <2>2, <2>5 DEF ImportsInv, Sound, documents
  <2>6. ASSUME NEW j \in Import PROVE GoneOK(j)'
    <3>1. Forgetting(j) => Forgetting(j)'
      BY <1>1, <2>2 DEF Forgetting, Doing
    <3> QED BY <1>2, <2>1, <3>1 DEF ImportsInv, GoneOK, documents
  <2> QED BY <2>1, <2>3, <2>4, <2>5, <2>6 DEF ImportsInv
<1>4. CASE stored[i] = 0
  <2>1. /\ stored' = [stored EXCEPT ![i] = r] /\ r \in Nat \ {0} /\ Leave(c)
        /\ \/ card' = [card EXCEPT ![GameOf[i]] = i] /\ filed' = filed \cup {i}
           \/ UNCHANGED <<card, filed>>
    BY <1>1, <1>4 DEF CreateImport, Complete, CardFor
  <2>2. stored \in [Import -> Nat] /\ i \in Import /\ GameOf[i] \in Game
    BY <1>1, GameOfIsGame DEF ImportsInv, ImportsTypeOK
  <2>3. stored' \in [Import -> Nat] /\ stored'[i] = r /\ \A j \in Import \ {i} : stored'[j] = stored[j]
    BY <2>1, <2>2
  <2>4. astray' = {}
    BY <1>4, <2>3 DEF CreateImport, Complete, ImportsInv
  <2>5. /\ command'[c] = NotIssued
        /\ \A d \in Command : d # c => command'[d] = command[d]
    BY <2>1 DEF ImportsInv, ImportsTypeOK, Leave
  <2>6. ImportsTypeOK'
    BY <1>2, <2>1, <2>2, <2>3 DEF ImportsInv, ImportsTypeOK, Leave
  <2>7. ASSUME NEW d \in Command, d # c PROVE Sound(command[d])'
    <3>1. Sound(command[d]) /\ command'[d] = command[d]
      BY <2>5, <2>7 DEF ImportsInv
    <3>2. command[d].pc = "delete" /\ GameOf[command[d].import] = GameOf[i] =>
              GameOf[i] \in overlapped'
      BY <1>2, <2>7 DEF Beside, InFlight, Doing, Of
    <3>3. command[d].pc \in {"card", "build"} /\ command[d].undisturbed => command[d].import # i
      BY <1>4, <3>1 DEF Sound
    <3> QED BY <1>2, <2>3, <3>1, <3>2, <3>3 DEF Sound
  <2>8. ASSUME NEW j \in Import PROVE GoneOK(j)'
    <3>1. Forgetting(j) => Forgetting(j)'
      BY <1>1, <2>5 DEF Forgetting, Doing
    <3>2. GameOf[j] \in Game /\ card \in [Game -> Import \cup {NoImport}] /\ GoneOK(j)
      BY GameOfIsGame DEF ImportsInv, ImportsTypeOK
    <3>3. /\ card'[GameOf[j]] # card[GameOf[j]] => card'[GameOf[j]] = i
          /\ card[GameOf[j]] # NoImport => card'[GameOf[j]] # NoImport
          /\ j \in filed' => j \in filed \/ (j = i /\ card'[GameOf[j]] = i)
      BY <2>1, <2>2, <3>2, ImportsAssumption
    <3> QED BY <1>2, <1>4, <2>1, <2>2, <2>3, <3>1, <3>2, <3>3, ImportsAssumption DEF GoneOK
  <2> QED BY <2>4, <2>5, <2>6, <2>7, <2>8, NotIssuedIsSound DEF ImportsInv
<1> QED BY <1>3, <1>4

-----------------------------------------------------------------------------
LEMMA BuildSessionKeeps ==
    ASSUME ImportsInv, NEW c \in Command, BuildSession(c)
    PROVE  ImportsInv'
<1>1. /\ Sound(command[c]) /\ command[c].pc = "build" /\ Of(c) \in Import
      /\ command[c].review \in Nat /\ command[c].undisturbed \in BOOLEAN
  BY DEF ImportsInv, BuildSession, Doing, Sound, CommandState, Of
<1> PICK i : i = Of(c)
  OBVIOUS
<1> PICK r : r = command[c].review
  OBVIOUS
<1>2. /\ resident' = [resident EXCEPT ![i] = IF resident[i] = 0 THEN r ELSE resident[i]]
      /\ UNCHANGED <<stored, card, filed, reviews, overlapped, astray>> /\ Leave(c)
      /\ i \in Import /\ r \in Nat
      /\ GameOf[i] \notin overlapped => r = stored[i]
  BY <1>1 DEF BuildSession, documents, Sound, Of
<1>3. /\ command'[c] = NotIssued
      /\ \A d \in Command : d # c => command'[d] = command[d]
  BY <1>2 DEF ImportsInv, ImportsTypeOK, Leave
<1>4. ImportsTypeOK'
  BY <1>2 DEF ImportsInv, ImportsTypeOK, Leave
<1>5. ASSUME NEW d \in Command PROVE Sound(command[d])'
  BY <1>2, <1>3, NotIssuedIsSound DEF ImportsInv, Sound
<1>6. ASSUME NEW j \in Import PROVE GoneOK(j)'
  <2>1. Forgetting(j) => Forgetting(j)'
    BY <1>1, <1>3 DEF Forgetting, Doing
  <2>2. GoneOK(j) /\ resident \in [Import -> Nat]
    BY DEF ImportsInv, ImportsTypeOK
  <2>3. resident'[j] = resident[j] \/ (j = i /\ resident'[j] = r)
    BY <1>2, <2>2
  <2> QED BY <1>2, <2>1, <2>2, <2>3 DEF GoneOK
<1> QED BY <1>2, <1>4, <1>5, <1>6 DEF ImportsInv

LEMMA SessionExpiresKeeps ==
    ASSUME ImportsInv, NEW i \in Import, SessionExpires(i)
    PROVE  ImportsInv'
<1>1. /\ resident' = [resident EXCEPT ![i] = 0]
      /\ UNCHANGED <<stored, card, filed, command, reviews, overlapped, astray>>
  BY DEF SessionExpires, documents
<1>2. ImportsTypeOK'
  BY <1>1 DEF ImportsInv, ImportsTypeOK
<1>3. ASSUME NEW d \in Command PROVE Sound(command[d])'
  BY <1>1 DEF ImportsInv, Sound
<1>4. ASSUME NEW j \in Import PROVE GoneOK(j)'
  <2>1. Forgetting(j) = Forgetting(j)'
    BY <1>1 DEF Forgetting, Doing
  <2>2. resident'[j] = resident[j] \/ resident'[j] = 0
    BY <1>1 DEF ImportsInv, ImportsTypeOK
  <2> QED BY <1>1, <2>1, <2>2 DEF GoneOK, ImportsInv
<1> QED BY <1>1, <1>2, <1>3, <1>4 DEF ImportsInv

LEMMA ProcessDiesKeeps ==
    ASSUME ImportsInv, ProcessDies
    PROVE  ImportsInv'
<1>1. /\ resident' = [i \in Import |-> 0] /\ command' = [c \in Command |-> NotIssued]
      /\ UNCHANGED <<stored, card, filed, reviews, overlapped, astray>>
  BY DEF ProcessDies, documents
<1>2. ImportsTypeOK'
  BY <1>1 DEF ImportsInv, ImportsTypeOK
<1>3. ASSUME NEW d \in Command PROVE Sound(command[d])'
  BY <1>1, NotIssuedIsSound
<1>4. ASSUME NEW j \in Import PROVE GoneOK(j)'
  BY <1>1 DEF GoneOK, ImportsInv
<1> QED BY <1>1, <1>2, <1>3, <1>4 DEF ImportsInv

(* What a delete listed is all there is of its Game, or it is overlapped.  *)
LEMMA DeleteImportsKeeps ==
    ASSUME ImportsInv, NEW c \in Command, DeleteImports(c)
    PROVE  ImportsInv'
<1>1. /\ Sound(command[c]) /\ command[c].pc = "delete" /\ Of(c) \in Import
      /\ command[c].addressed \subseteq Import
  BY DEF ImportsInv, DeleteImports, Doing, Sound, CommandState, Of
<1> PICK g : g = GameOf[Of(c)]
  OBVIOUS
<1> PICK S : S = command[c].addressed
  OBVIOUS
<1>2. /\ g \in Game /\ S \subseteq Import /\ \A i \in S : GameOf[i] = g
      /\ g \notin overlapped => \A i \in Import : GameOf[i] = g /\ stored[i] # 0 => i \in S
  BY <1>1, GameOfIsGame DEF Sound, Of
<1>3. /\ stored' = [i \in Import |-> IF i \in S THEN 0 ELSE stored[i]]
      /\ card' = [card EXCEPT ![g] = NoImport] /\ filed' = filed \ S
      /\ UNCHANGED <<resident, reviews, astray>>
      /\ overlapped' = IF Beside(c) # {} THEN overlapped \cup {g} ELSE overlapped
  BY DEF DeleteImports
<1>4. /\ command'[c] = [command[c] EXCEPT !.pc = "forget"]
      /\ \A d \in Command \ {c} :
             command'[d] = IF d \in Beside(c) THEN [command[d] EXCEPT !.undisturbed = FALSE]
                           ELSE command[d]
  BY DEF DeleteImports
<1>5. ImportsTypeOK'
  <2>1. stored' \in [Import -> Nat] /\ card' \in [Game -> Import \cup {NoImport}]
    BY <1>2, <1>3 DEF ImportsInv, ImportsTypeOK
  <2>2. command' = [d \in Command |-> command'[d]]
    BY DEF DeleteImports
  <2> QED BY <1>3, <2>1, <2>2 DEF ImportsInv, ImportsTypeOK
<1>6. ASSUME NEW d \in Command \ {c}, d \in Beside(c) PROVE Sound(command[d])'
  <2>1. Sound(command[d]) /\ GameOf[command[d].import] = g /\ g \in overlapped'
    BY <1>3, <1>6 DEF ImportsInv, Beside, Of
  <2>2. command'[d] = [command[d] EXCEPT !.undisturbed = FALSE]
    BY <1>4, <1>6
  <2> QED BY <2>1, <2>2 DEF Sound, CommandState
<1>7. ASSUME NEW d \in Command \ {c}, d \notin Beside(c) PROVE Sound(command[d])'
  <2>1. Sound(command[d]) /\ command'[d] = command[d] /\ overlapped \subseteq overlapped'
    BY <1>3, <1>4, <1>7 DEF ImportsInv
  <2>2. command[d].pc = "idle" \/ GameOf[command[d].import] # g
    BY <1>7 DEF Beside, InFlight, Doing, Of
  <2>3. \A i \in Import : GameOf[i] # g => stored'[i] = stored[i]
    BY <1>2, <1>3
  <2> QED BY <2>1, <2>2, <2>3 DEF Sound
<1>8. Sound(command[c])'
  BY <1>1, <1>3, <1>4 DEF Sound, CommandState, CommandPC
<1>9. ASSUME NEW j \in Import PROVE GoneOK(j)'
  <2>1. \A d \in Command : Doing(d, "forget") => Doing(d, "forget")'
    BY <1>1, <1>4 DEF ImportsInv, Sound, CommandState, Doing
  <2>2. \A d \in Command : command'[d].addressed = command[d].addressed
    BY <1>1, <1>4 DEF ImportsInv, Sound, CommandState
  <2>3. /\ Forgetting(j) => Forgetting(j)'
        /\ j \in S => Forgetting(j)'
    BY <1>1, <1>4, <2>1, <2>2 DEF Forgetting, Doing, Sound, CommandState
  <2>4. GoneOK(j) /\ GameOf[j] \in Game /\ card \in [Game -> Import \cup {NoImport}]
    BY GameOfIsGame DEF ImportsInv, ImportsTypeOK
  <2>5. CASE GameOf[j] = g
    <3> SUFFICES ASSUME g \notin overlapped' PROVE GoneOK(j)'
      BY <2>5 DEF GoneOK
    <3>1. g \notin overlapped /\ card'[g] = NoImport
      BY <1>2, <1>3, <2>4
    <3>2. j \in filed \/ stored[j] # 0 => j \in S
      BY <1>2, <2>4, <2>5, <3>1 DEF GoneOK
    <3>3. j \notin filed' /\ card'[GameOf[j]] # j
      BY <1>3, <2>5, <3>1, <3>2, ImportsAssumption
    <3> QED BY <1>3, <2>3, <2>4, <2>5, <3>1, <3>2, <3>3 DEF GoneOK
  <2>6. CASE GameOf[j] # g
    <3>1. /\ stored'[j] = stored[j] /\ card'[GameOf[j]] = card[GameOf[j]]
          /\ j \in filed' => j \in filed
          /\ GameOf[j] \notin overlapped' => GameOf[j] \notin overlapped
      BY <1>2, <1>3, <2>4, <2>6
    <3> QED BY <1>3, <2>3, <2>4, <3>1 DEF GoneOK
  <2> QED BY <2>5, <2>6
<1> QED BY <1>3, <1>5, <1>6, <1>7, <1>8, <1>9 DEF ImportsInv

LEMMA ForgetKeeps ==
    ASSUME ImportsInv, NEW c \in Command, Forget(c)
    PROVE  ImportsInv'
<1> PICK S : S = command[c].addressed
  OBVIOUS
<1>1. /\ resident' = [i \in Import |-> IF i \in S THEN 0 ELSE resident[i]]
      /\ UNCHANGED <<stored, card, filed, reviews, overlapped, astray>> /\ Leave(c)
  BY DEF Forget, documents
<1>2. /\ command'[c] = NotIssued
      /\ \A d \in Command : d # c => command'[d] = command[d]
  BY <1>1 DEF ImportsInv, ImportsTypeOK, Leave
<1>3. ImportsTypeOK'
  BY <1>1 DEF ImportsInv, ImportsTypeOK, Leave
<1>4. ASSUME NEW d \in Command PROVE Sound(command[d])'
  BY <1>1, <1>2, NotIssuedIsSound DEF ImportsInv, Sound
<1>5. ASSUME NEW j \in Import PROVE GoneOK(j)'
  <2>1. Forgetting(j) => j \in S \/ Forgetting(j)'
    BY <1>2 DEF Forgetting, Doing
  <2> QED BY <1>1, <2>1 DEF ImportsInv, GoneOK
<1> QED BY <1>1, <1>3, <1>4, <1>5 DEF ImportsInv

-----------------------------------------------------------------------------
LEMMA ImportsStep == ImportsInv /\ [ImportsNext]_importsVars => ImportsInv'
<1> SUFFICES ASSUME ImportsInv, [ImportsNext]_importsVars PROVE ImportsInv'
  OBVIOUS
<1>1. CASE UNCHANGED importsVars
  <2>1. UNCHANGED <<stored, card, filed, resident, command, reviews, overlapped, astray>>
    BY <1>1 DEF importsVars, documents
  <2> QED BY <2>1 DEF ImportsInv, ImportsTypeOK, Sound, GoneOK, Forgetting, Doing
<1>2. CASE ImportsNext
  BY <1>2, IssueKeeps, FindKeeps, AnalyseKeeps, CreateImportKeeps, UpsertCardKeeps,
     BuildSessionKeeps, ListKeeps, DeleteImportsKeeps, ForgetKeeps, GiveUpKeeps,
     SessionExpiresKeeps, ProcessDiesKeeps DEF ImportsNext
<1> QED BY <1>1, <1>2

LEMMA ImportsInvMeansAgree == ImportsInv => ImportsAgree
BY DEF ImportsInv, GoneOK, ImportsAgree, ImportsAnswerTheRecord, DeletedGamesAreGone

(* For any imports and commands: an import that no delete fell into        *)
(* answers with the review that finish_game_import left stored, and after  *)
(* delete_game_import no card, filed import or resident session of the     *)
(* Game is left alone, unless another command ran beside the delete.       *)
THEOREM ImportedGamesAgree == ImportsSpec => []ImportsAgree
<1> QED BY ImportsInitInv, ImportsStep, ImportsInvMeansAgree, PTL DEF ImportsSpec

-----------------------------------------------------------------------------
(* The spend of hosted generation.                                         *)
HostedPC ==
    {"idle", "reserve", "envelopePlayer", "envelopeGlobal", "begin", "check", "player",
     "global", "slot", "provider", "open", "settle", "release", "done"}
HostedState ==
    [pc : HostedPC, turn : BOOLEAN, session : Session \cup {NotStarted.session}, cost : Nat,
     total : Nat, calls : Nat, retried : BOOLEAN, denied : BOOLEAN]
TurnOnly == {"reserve", "envelopePlayer", "envelopeGlobal", "begin", "release"}

HostedOK(state) ==
    /\ state \in HostedState
    /\ state.pc \notin {"idle", "done"} => state.session \in Session
    /\ state.pc \in TurnOnly => state.turn
Holding(state) == state.turn /\ state.pc \notin {"idle", "reserve", "done"}

(* What the two properties rest on: a turn's room stays taken while it     *)
(* holds the envelope, reserved at first, committed in the end.            *)
Holders(s) == {h \in Hosted : Holding(hosted[h]) /\ hosted[h].session = s}
SessionOK(s) ==
    /\ spend[s] \in [committed : Nat, reserved : Nat]
    /\ \A g, h \in Holders(s) : g = h
    /\ Holders(s) # {} => Spent(s) >= Envelope
    /\ s \notin leaked => /\ spend[s].reserved <= Envelope
                          /\ spend[s].reserved > 0 => Holders(s) # {}

SpendInv ==
    /\ hosted = [h \in Hosted |-> hosted[h]] /\ \A h \in Hosted : HostedOK(hosted[h])
    /\ spend = [s \in Session |-> spend[s]] /\ \A s \in Session : SessionOK(s)

LEMMA EnvelopeIsNat == Envelope \in Nat
BY SpendAssumption DEF Envelope

LEMMA NotStartedOK ==
    /\ HostedOK(NotStarted) /\ ~Holding(NotStarted)
    /\ HostedOK([NotStarted EXCEPT !.pc = "done"])
    /\ ~Holding([NotStarted EXCEPT !.pc = "done"])
BY DEF HostedOK, HostedState, HostedPC, TurnOnly, NotStarted, Holding

LEMMA SpendInitInv == SpendInit => SpendInv
<1> SUFFICES ASSUME SpendInit PROVE SpendInv
  OBVIOUS
<1>1. ASSUME NEW h \in Hosted PROVE HostedOK(hosted[h]) /\ ~Holding(hosted[h])
  BY NotStartedOK DEF SpendInit
<1>2. ASSUME NEW s \in Session PROVE SessionOK(s)
  <2>1. Holders(s) = {}
    BY <1>1 DEF Holders
  <2> QED BY <2>1, EnvelopeIsNat DEF SpendInit, NoSpend, SessionOK
<1> QED BY <1>1, <1>2 DEF SpendInit, SpendInv, NoSpend

-----------------------------------------------------------------------------
(* A step of h that spends nothing, and neither takes an envelope nor      *)
(* gives one back.                                                         *)
LEMMA MoveKeeps ==
    ASSUME SpendInv, NEW h \in Hosted, NEW state, HostedOK(state),
           hosted' = [hosted EXCEPT ![h] = state], UNCHANGED <<spend, leaked>>,
           Holding(state) <=> Holding(hosted[h]),
           Holding(state) => state.session = hosted[h].session
    PROVE  SpendInv'
<1>1. /\ hosted'[h] = state
      /\ \A g \in Hosted : g # h => hosted'[g] = hosted[g]
  BY DEF SpendInv
<1>2. ASSUME NEW g \in Hosted PROVE HostedOK(hosted[g])'
  BY <1>1 DEF SpendInv, HostedOK, HostedState, NotStarted
<1>3. ASSUME NEW s \in Session PROVE SessionOK(s)'
  <2>1. Holders(s)' = Holders(s)
    BY <1>1 DEF Holders, Holding
  <2> QED BY <2>1 DEF SpendInv, SessionOK, Spent
<1> QED BY <1>2, <1>3 DEF SpendInv

(* A turn moves to another stage under the envelope it holds, or a comment *)
(* to another stage without one.                                           *)
LEMMA GoKeeps ==
    ASSUME SpendInv, NEW h \in Hosted, NEW pc \in HostedPC, Go(h, pc),
           UNCHANGED <<spend, leaked>>,
           hosted[h].pc \notin {"idle", "reserve", "done"},
           pc \notin {"idle", "reserve", "done"},
           pc \in TurnOnly => hosted[h].turn
    PROVE  SpendInv'
<1> DEFINE state == [hosted[h] EXCEPT !.pc = pc]
<1>1. hosted' = [hosted EXCEPT ![h] = state]
  BY DEF Go
<1>2. HostedOK(state)
  BY DEF SpendInv, HostedOK, HostedState
<1>3. (Holding(state) <=> Holding(hosted[h])) /\ state.session = hosted[h].session
  BY DEF SpendInv, HostedOK, HostedState, Holding
<1> QED BY <1>1, <1>2, <1>3, MoveKeeps

(* Refusing a comment ends it, and a turn settles first.                   *)
LEMMA RefuseKeeps ==
    ASSUME SpendInv, NEW h \in Hosted, NEW denied \in BOOLEAN, Refuse(h, denied),
           UNCHANGED <<spend, leaked>>,
           hosted[h].pc \notin {"idle", "reserve", "done"}
    PROVE  SpendInv'
<1>1. CASE hosted[h].turn
  <2> DEFINE state == [hosted[h] EXCEPT !.pc = "settle", !.denied = denied]
  <2>1. hosted' = [hosted EXCEPT ![h] = state]
    BY <1>1 DEF Refuse
  <2>2. HostedOK(state)
    BY DEF SpendInv, HostedOK, HostedState, HostedPC, TurnOnly
  <2>3. (Holding(state) <=> Holding(hosted[h])) /\ state.session = hosted[h].session
    BY DEF SpendInv, HostedOK, HostedState, Holding
  <2> QED BY <2>1, <2>2, <2>3, MoveKeeps
<1>2. CASE ~hosted[h].turn
  <2>1. ~Holding(hosted[h])
    BY <1>2 DEF Holding
  <2> QED BY <1>2, <2>1, NotStartedOK, MoveKeeps DEF Refuse, Finish
<1> QED BY <1>1, <1>2

(* A turn that holds the envelope ends, and what is left is released.      *)
LEMMA EndTurnKeeps ==
    ASSUME SpendInv, NEW h \in Hosted, EndTurn(h), Holding(hosted[h]), UNCHANGED leaked
    PROVE  SpendInv'
<1>0. PICK own \in Session : own = hosted[h].session
  BY DEF SpendInv, HostedOK, Holding
<1> DEFINE state == [NotStarted EXCEPT !.pc = "done"]
<1>1. /\ hosted' = [hosted EXCEPT ![h] = state]
      /\ spend' = [spend EXCEPT ![own] = Released(spend[own])]
  BY <1>0 DEF EndTurn, Finish
<1> HIDE DEF state
<1>2. /\ hosted'[h] = state /\ HostedOK(state) /\ ~Holding(state)
      /\ \A g \in Hosted : g # h => hosted'[g] = hosted[g]
  BY <1>1, NotStartedOK DEF SpendInv, state
<1>3. ASSUME NEW g \in Hosted PROVE HostedOK(hosted[g])'
  BY <1>2 DEF SpendInv, HostedOK, HostedState, NotStarted
<1>4. /\ spend'[own] \in [committed : Nat, reserved : Nat]
      /\ own \notin leaked => spend'[own].reserved = 0
      /\ \A s \in Session : s # own => spend'[s] = spend[s]
  BY <1>1, EnvelopeIsNat DEF SpendInv, SessionOK, Released, Smaller
<1>5. h \in Holders(own)
  BY <1>0 DEF Holders
<1>6. Holders(own)' = {}
  BY <1>1, <1>2, <1>5 DEF SpendInv, SessionOK, Holders, Holding
<1>7. ASSUME NEW s \in Session PROVE SessionOK(s)'
  <2>1. CASE s = own
    BY <1>4, <1>6, <2>1, EnvelopeIsNat DEF SessionOK
  <2>2. CASE s # own
    <3>1. Holders(s)' = Holders(s)
      BY <1>0, <1>2, <2>2 DEF Holders, Holding
    <3> QED BY <1>4, <2>2, <3>1 DEF SpendInv, SessionOK, Spent
  <2> QED BY <2>1, <2>2
<1> QED BY <1>1, <1>2, <1>3, <1>7 DEF SpendInv

(* A turn that holds the envelope leaves by `?`.                           *)
LEMMA UnreadKeeps ==
    ASSUME SpendInv, NEW h \in Hosted, Unread(h), Holding(hosted[h])
    PROVE  SpendInv'
<1> DEFINE own == hosted[h].session
           state == [NotStarted EXCEPT !.pc = "done"]
<1>1. /\ hosted' = [hosted EXCEPT ![h] = state]
      /\ leaked' = leaked \cup {own} /\ spend' = spend
  BY DEF Unread, Finish
<1> HIDE DEF state
<1>2. /\ hosted'[h] = state /\ HostedOK(state) /\ ~Holding(state)
      /\ \A g \in Hosted : g # h => hosted'[g] = hosted[g]
  BY <1>1, NotStartedOK DEF SpendInv, state
<1>3. ASSUME NEW g \in Hosted PROVE HostedOK(hosted[g])'
  BY <1>2 DEF SpendInv, HostedOK, HostedState, NotStarted
<1>4. ASSUME NEW s \in Session PROVE SessionOK(s)'
  <2>1. Holders(s)' = Holders(s) \ {h}
    BY <1>2 DEF Holders, Holding
  <2>2. s # own => h \notin Holders(s)
    BY DEF Holders
  <2> QED BY <1>1, <2>1, <2>2 DEF SpendInv, SessionOK, Spent
<1> QED BY <1>1, <1>2, <1>3, <1>4 DEF SpendInv

-----------------------------------------------------------------------------
LEMMA StartKeeps ==
    ASSUME SpendInv, NEW h \in Hosted, Start(h) PROVE SpendInv'
<1>1. PICK s \in Session, turn \in BOOLEAN :
          hosted' = [hosted EXCEPT ![h] = [NotStarted EXCEPT
              !.pc = IF turn THEN "reserve" ELSE "check", !.session = s, !.turn = turn]]
  BY DEF Start
<1> DEFINE state == [NotStarted EXCEPT
               !.pc = IF turn THEN "reserve" ELSE "check", !.session = s, !.turn = turn]
<1>2. HostedOK(state) /\ ~Holding(state)
  BY DEF HostedOK, HostedState, HostedPC, TurnOnly, NotStarted, Holding
<1>3. ~Holding(hosted[h])
  BY DEF Start, At, Holding
<1> QED BY <1>1, <1>2, <1>3, MoveKeeps DEF Start, history

(* Room for a second envelope is room that no first one has.               *)
LEMMA ReserveKeeps ==
    ASSUME SpendInv, NEW h \in Hosted, Reserve(h) PROVE SpendInv'
<1> DEFINE state == [hosted[h] EXCEPT !.pc = "envelopePlayer"]
<1>0. PICK own \in Session : own = hosted[h].session
  BY DEF SpendInv, HostedOK, Reserve, At
<1>1. ~Holding(hosted[h]) /\ hosted[h].turn
  BY DEF SpendInv, HostedOK, TurnOnly, Reserve, At, Holding
<1>2. CASE ~Fits(own)
  BY <1>0, <1>1, <1>2, NotStartedOK, MoveKeeps DEF Reserve, Finish, history
<1>3. CASE Fits(own)
  <2>1. /\ hosted' = [hosted EXCEPT ![h] = state]
        /\ spend' = [spend EXCEPT ![own].reserved = @ + Envelope]
        /\ UNCHANGED leaked
    BY <1>0, <1>3 DEF Reserve, Go, history
  <2>2. Holders(own) = {} /\ (own \notin leaked => spend[own].reserved = 0)
    BY <1>1, <1>3, EnvelopeIsNat, SpendAssumption DEF SpendInv, SessionOK, Spent, Fits
  <2>3. HostedOK(state) /\ Holding(state) /\ state.session = own
    BY <1>0, <1>1 DEF SpendInv, HostedOK, HostedState, HostedPC, TurnOnly, Holding
  <2>4. /\ hosted'[h] = state
        /\ \A g \in Hosted : g # h => hosted'[g] = hosted[g]
    BY <2>1 DEF SpendInv
  <2> HIDE DEF state
  <2>5. ASSUME NEW g \in Hosted PROVE HostedOK(hosted[g])'
    BY <2>3, <2>4 DEF SpendInv, HostedOK, HostedState, NotStarted
  <2>6. /\ spend'[own] = [committed |-> spend[own].committed,
                          reserved |-> spend[own].reserved + Envelope]
        /\ \A s \in Session : s # own => spend'[s] = spend[s]
    BY <1>1, <2>1 DEF SpendInv, SessionOK
  <2>7. ASSUME NEW s \in Session PROVE SessionOK(s)'
    <3>1. CASE s = own
      <4>1. Holders(own)' = {h}
        BY <2>2, <2>3, <2>4 DEF Holders, Holding
      <4> QED BY <2>1, <2>2, <2>6, <3>1, <4>1, EnvelopeIsNat DEF SpendInv, SessionOK, Spent
    <3>2. CASE s # own
      <4>1. Holders(s)' = Holders(s)
        BY <1>1, <2>3, <2>4, <3>2 DEF Holders, Holding
      <4> QED BY <2>1, <2>6, <3>2, <4>1 DEF SpendInv, SessionOK, Spent
    <3> QED BY <3>1, <3>2
  <2> QED BY <2>1, <2>5, <2>7 DEF SpendInv
<1> QED BY <1>2, <1>3

LEMMA EnvelopeChecksKeep ==
    ASSUME SpendInv, NEW h \in Hosted, EnvelopePlayer(h) \/ EnvelopeGlobal(h) \/ Begin(h)
    PROVE  SpendInv'
<1>1. Holding(hosted[h]) /\ hosted[h].pc \notin {"idle", "reserve", "done"} /\ hosted[h].turn
  BY DEF SpendInv, HostedOK, TurnOnly, EnvelopePlayer, EnvelopeGlobal, Begin, At, Holding
<1>2. \/ Unread(h)
      \/ EndTurn(h) /\ UNCHANGED leaked
      \/ /\ \E pc \in {"envelopeGlobal", "begin", "check"} : Go(h, pc)
         /\ UNCHANGED <<spend, leaked>>
  BY DEF EnvelopePlayer, EnvelopeGlobal, Begin, history
<1> QED BY <1>1, <1>2, UnreadKeeps, EndTurnKeeps, GoKeeps DEF HostedPC

LEMMA AttemptChecksKeep ==
    ASSUME SpendInv, NEW h \in Hosted,
           CheckSession(h) \/ CheckPlayer(h) \/ CheckGlobal(h) \/ AcquireSlot(h)
    PROVE  SpendInv'
<1>1. hosted[h].pc \notin {"idle", "reserve", "done"}
  BY DEF CheckSession, CheckPlayer, CheckGlobal, AcquireSlot, At
<1>2. /\ \/ \E denied \in BOOLEAN : Refuse(h, denied)
         \/ \E pc \in {"player", "global", "slot", "provider"} : Go(h, pc)
      /\ UNCHANGED <<spend, leaked>>
  BY DEF CheckSession, CheckPlayer, CheckGlobal, AcquireSlot, history
<1> QED BY <1>1, <1>2, RefuseKeeps, GoKeeps DEF HostedPC, TurnOnly

LEMMA ProviderAnswersKeeps ==
    ASSUME SpendInv, NEW h \in Hosted, ProviderAnswers(h) PROVE SpendInv'
<1>1. PICK cost \in 0..WorstCase :
          hosted' = [hosted EXCEPT ![h].pc = "open", ![h].cost = cost]
  BY DEF ProviderAnswers
<1> DEFINE state == [hosted[h] EXCEPT !.pc = "open", !.cost = cost]
<1>2. HostedOK(state)
  <2>1. cost \in Nat
    BY SpendAssumption
  <2> QED BY <2>1 DEF SpendInv, HostedOK, HostedState, HostedPC, TurnOnly, ProviderAnswers, At
<1>3. (Holding(state) <=> Holding(hosted[h])) /\ state.session = hosted[h].session
  BY DEF SpendInv, HostedOK, HostedState, ProviderAnswers, At, Holding
<1>4. hosted' = [hosted EXCEPT ![h] = state]
  BY <1>1
<1> HIDE DEF state
<1> QED BY <1>2, <1>3, <1>4, MoveKeeps DEF ProviderAnswers

LEMMA SettleKeeps ==
    ASSUME SpendInv, NEW h \in Hosted, Settle(h) PROVE SpendInv'
<1>1. CASE hosted[h].turn
  <2> DEFINE state == [hosted[h] EXCEPT !.pc = "release", !.total = 0]
  <2>1. hosted' = [hosted EXCEPT ![h] = state]
    BY <1>1 DEF Settle
  <2>2. HostedOK(state)
    BY <1>1 DEF SpendInv, HostedOK, HostedState, HostedPC, TurnOnly, Settle, At
  <2>3. (Holding(state) <=> Holding(hosted[h])) /\ state.session = hosted[h].session
    BY DEF SpendInv, HostedOK, HostedState, Settle, At, Holding
  <2> QED BY <2>1, <2>2, <2>3, MoveKeeps DEF Settle
<1>2. CASE ~hosted[h].turn
  <2>1. ~Holding(hosted[h])
    BY <1>2 DEF Holding
  <2> QED BY <1>2, <2>1, NotStartedOK, MoveKeeps DEF Settle, Finish
<1> QED BY <1>1, <1>2

LEMMA ReleaseEnvelopeKeeps ==
    ASSUME SpendInv, NEW h \in Hosted, ReleaseEnvelope(h) PROVE SpendInv'
<1>1. Holding(hosted[h]) /\ EndTurn(h) /\ UNCHANGED leaked
  BY DEF SpendInv, HostedOK, TurnOnly, ReleaseEnvelope, At, Holding, history
<1> QED BY <1>1, EndTurnKeeps

LEMMA RecordedIsHosted ==
    ASSUME NEW old \in HostedState, NEW next \in {"check", "settle"}, NEW total \in Nat,
           NEW retried \in BOOLEAN, NEW retry \in BOOLEAN
    PROVE  [old EXCEPT !.pc = next, !.cost = 0, !.total = total, !.retried = retried,
                       !.calls = IF retry THEN old.calls ELSE old.calls + 1] \in HostedState
<1>1. (IF retry THEN old.calls ELSE old.calls + 1) \in Nat
  BY DEF HostedState
<1> QED BY <1>1 DEF HostedState, HostedPC

(* What an attempt takes from the reservation it commits.                  *)
LEMMA RecordAttemptKeeps ==
    ASSUME SpendInv, NEW h \in Hosted, RecordAttempt(h) PROVE SpendInv'
<1>0. PICK own \in Session : own = hosted[h].session
  BY DEF SpendInv, HostedOK, RecordAttempt, At
<1>1. PICK next \in {"check", "settle"}, retry \in BOOLEAN :
          hosted' = [hosted EXCEPT ![h].pc = next, ![h].cost = 0, ![h].total = Total(h, retry),
              ![h].retried = hosted[h].retried \/ retry,
              ![h].calls = IF retry THEN hosted[h].calls ELSE hosted[h].calls + 1]
  BY DEF SpendInv, RecordAttempt
<1> DEFINE state == [hosted[h] EXCEPT !.pc = next, !.cost = 0, !.total = Total(h, retry),
               !.retried = hosted[h].retried \/ retry,
               !.calls = IF retry THEN hosted[h].calls ELSE hosted[h].calls + 1]
           cost == hosted[h].cost
<1>2. /\ spend' = [spend EXCEPT ![own] = Charged(spend[own], cost)]
      /\ UNCHANGED leaked /\ cost \in Nat
  BY <1>0 DEF SpendInv, HostedOK, HostedState, RecordAttempt, history
<1>3. HostedOK(state)
  <2>1. hosted[h].session \in Session
    BY <1>0
  <2>2. Total(h, retry) \in Nat
    BY DEF SpendInv, HostedOK, HostedState, Total
  <2>3. (hosted[h].retried \/ retry) \in BOOLEAN
    OBVIOUS
  <2>4. state \in HostedState
    BY <2>2, <2>3, RecordedIsHosted DEF SpendInv, HostedOK
  <2>5. state.pc = next /\ state.session = hosted[h].session
    BY DEF SpendInv, HostedOK, HostedState
  <2> QED BY <2>1, <2>4, <2>5 DEF HostedOK, TurnOnly
<1>4. (Holding(state) <=> Holding(hosted[h])) /\ state.session = hosted[h].session
  BY DEF SpendInv, HostedOK, HostedState, RecordAttempt, At, Holding
<1>5. /\ hosted'[h] = state
      /\ \A g \in Hosted : g # h => hosted'[g] = hosted[g]
  BY <1>1 DEF SpendInv
<1> HIDE DEF state, cost
<1>6. ASSUME NEW g \in Hosted PROVE HostedOK(hosted[g])'
  BY <1>3, <1>5 DEF SpendInv, HostedOK, HostedState, NotStarted
<1>7. ASSUME NEW s \in Session PROVE Holders(s)' = Holders(s)
  BY <1>4, <1>5 DEF Holders, Holding
<1>8. /\ spend'[own] \in [committed : Nat, reserved : Nat]
      /\ spend'[own].reserved <= spend[own].reserved
      /\ spend'[own].committed + spend'[own].reserved >=
             spend[own].committed + spend[own].reserved
      /\ \A s \in Session : s # own => spend'[s] = spend[s]
  <2>1. spend'[own] = Charged(spend[own], cost)
    BY <1>2 DEF SpendInv
  <2>2. /\ spend[own].committed \in Nat /\ spend[own].reserved \in Nat
    BY DEF SpendInv, SessionOK
  <2> QED BY <1>2, <2>1, <2>2 DEF SpendInv, Charged, Smaller
<1>9. ASSUME NEW s \in Session PROVE SessionOK(s)'
  <2>1. CASE s = own
    BY <1>2, <1>7, <1>8, <2>1, EnvelopeIsNat DEF SpendInv, SessionOK, Spent
  <2>2. CASE s # own
    BY <1>2, <1>7, <1>8, <2>2 DEF SpendInv, SessionOK, Spent
  <2> QED BY <2>1, <2>2
<1> QED BY <1>1, <1>2, <1>6, <1>9 DEF SpendInv

LEMMA RestartKeeps == ASSUME SpendInv, Restart PROVE SpendInv'
<1>1. ASSUME NEW h \in Hosted PROVE HostedOK(hosted[h])' /\ ~Holding(hosted[h])'
  <2>1. hosted'[h] \in {NotStarted, [NotStarted EXCEPT !.pc = "done"]}
    BY DEF Restart
  <2>2. HostedOK(hosted'[h]) /\ ~Holding(hosted'[h])
    BY <2>1, NotStartedOK
  <2> QED BY <2>2
<1>2. ASSUME NEW s \in Session PROVE SessionOK(s)'
  <2>1. Holders(s)' = {}
    BY <1>1 DEF Holders
  <2> QED BY <2>1, EnvelopeIsNat DEF Restart, NoSpend, SessionOK
<1> QED BY <1>1, <1>2 DEF Restart, SpendInv, NoSpend

-----------------------------------------------------------------------------
LEMMA SpendStep == SpendInv /\ [SpendNext]_spendVars => SpendInv'
<1> SUFFICES ASSUME SpendInv, [SpendNext]_spendVars PROVE SpendInv'
  OBVIOUS
<1>1. ASSUME NEW h \in Hosted,
             \/ Start(h) \/ Reserve(h) \/ EnvelopePlayer(h) \/ EnvelopeGlobal(h) \/ Begin(h)
             \/ CheckSession(h) \/ CheckPlayer(h) \/ CheckGlobal(h) \/ AcquireSlot(h)
             \/ ProviderAnswers(h) \/ RecordAttempt(h) \/ Settle(h) \/ ReleaseEnvelope(h)
      PROVE  SpendInv'
  BY <1>1, StartKeeps, ReserveKeeps, EnvelopeChecksKeep, AttemptChecksKeep,
     ProviderAnswersKeeps, RecordAttemptKeeps, SettleKeeps, ReleaseEnvelopeKeeps
<1>2. CASE CooldownEnds \/ UNCHANGED spendVars
  <2>1. UNCHANGED <<spend, hosted, leaked>>
    BY <1>2 DEF CooldownEnds, spendVars, history
  <2>2. \A s \in Session : Holders(s)' = Holders(s)
    BY <2>1 DEF Holders, Holding
  <2> QED BY <2>1, <2>2 DEF SpendInv, SessionOK, Spent, HostedOK, HostedState, NotStarted
<1>3. CASE Restart
  BY <1>3, RestartKeeps
<1> QED BY <1>1, <1>2, <1>3 DEF SpendNext

LEMMA SpendInvImplies == SpendInv => EnvelopeExclusive /\ ReservationsAreReleased
<1> SUFFICES ASSUME SpendInv PROVE EnvelopeExclusive /\ ReservationsAreReleased
  OBVIOUS
<1>1. \A h \in Hosted : /\ HoldingEnvelope(h) <=> Holding(hosted[h])
                        /\ Holding(hosted[h]) => hosted[h].session \in Session
  BY DEF SpendInv, HostedOK, HoldingEnvelope, Holding
<1>2. EnvelopeExclusive
  <2> SUFFICES ASSUME NEW g \in Hosted, NEW h \in Hosted, HoldingEnvelope(g),
                      HoldingEnvelope(h), hosted[g].session = hosted[h].session
               PROVE  g = h
    BY DEF EnvelopeExclusive
  <2>1. g \in Holders(hosted[g].session) /\ h \in Holders(hosted[g].session)
    BY <1>1 DEF Holders
  <2> QED BY <1>1, <2>1 DEF SpendInv, SessionOK
<1>3. ReservationsAreReleased
  BY <1>1 DEF SpendInv, SessionOK, Holders, ReservationsAreReleased
<1> QED BY <1>2, <1>3

LEMMA SpendInvHolds == SpendSpec => []SpendInv
BY SpendInitInv, SpendStep, PTL DEF SpendSpec

(* A session is never under the envelopes of two host turns, although what *)
(* comments consume of a reservation is committed beside it: the ceiling   *)
(* is less than two envelopes.                                             *)
THEOREM EnvelopesAreExclusive == SpendSpec => []EnvelopeExclusive
BY SpendInvHolds, SpendInvImplies, PTL

(* No reservation outlives its turn, by whichever exit the turn leaves,    *)
(* except in a session whose ledger could not be read.                     *)
THEOREM EnvelopesAreReleased == SpendSpec => []ReservationsAreReleased
BY SpendInvHolds, SpendInvImplies, PTL

-----------------------------------------------------------------------------
(* What was billed.  A comment or turn is given up only while it owes the  *)
(* ledger nothing.                                                         *)
Owed == [h \in Hosted |-> Unsettled(h)]
PaidUp(state) ==
    /\ state.pc # "open" => state.cost = 0
    /\ (state.turn => state.pc \in TurnOnly \cup {"idle", "done"}) /\ state.pc # "settle"
           => state.total = 0
BilledInv ==
    /\ SpendInv /\ \A h \in Hosted : PaidUp(hosted[h])
    /\ playerSpend = [p \in Player |-> playerSpend[p]]
    /\ \A p \in Player : playerSpend[p] \in Nat
    /\ globalSpend \in Nat /\ billed \in Nat /\ lost \in Nat
    /\ BilledOnce

LEMMA OwedIs ==
    ASSUME SpendInv
    PROVE  /\ \A h \in Hosted : Owed[h] = Unsettled(h) /\ Unsettled(h) \in Nat
           /\ IntegersOn(Owed, Hosted) /\ SumFunction(Owed) = SumFunctionOnSet(Owed, Hosted)
           /\ SumFunctionOnSet(Owed, Hosted) \in Nat
<1>1. \A h \in Hosted : Owed[h] = Unsettled(h) /\ Unsettled(h) \in Nat
  BY DEF SpendInv, HostedOK, HostedState, Owed, Unsettled
<1>2. IntegersOn(Owed, Hosted)
  BY <1>1 DEF IntegersOn
<1>3. SumFunction(Owed) = SumFunctionOnSet(Owed, Hosted)
  BY DEF SumFunction, Owed
<1>4. SumFunctionOnSet(Owed, Hosted) \in Nat
  BY <1>1, SpendAssumption, SumIsNatural
<1> QED BY <1>1, <1>2, <1>3, <1>4

LEMMA OwedChanges ==
    ASSUME SpendInv, SpendInv', NEW h \in Hosted, NEW state,
           hosted' = [hosted EXCEPT ![h] = state]
    PROVE  /\ SumFunction(Owed') =
                  SumFunction(Owed) + ((state.cost + state.total) - Unsettled(h))
           /\ hosted'[h] = state /\ \A g \in Hosted : g # h => hosted'[g] = hosted[g]
<1>1. hosted'[h] = state /\ \A g \in Hosted : g # h => hosted'[g] = hosted[g]
  BY DEF SpendInv
<1>2. /\ \A g \in Hosted : Owed[g] = Unsettled(g) /\ Unsettled(g) \in Nat
      /\ IntegersOn(Owed, Hosted) /\ SumFunction(Owed) = SumFunctionOnSet(Owed, Hosted)
  BY OwedIs
<1>3. /\ \A g \in Hosted : Owed'[g] = Unsettled(g)' /\ Unsettled(g)' \in Nat
      /\ IntegersOn(Owed', Hosted) /\ SumFunction(Owed') = SumFunctionOnSet(Owed', Hosted)
  <2>1. \A g \in Hosted : Owed'[g] = Unsettled(g)' /\ Unsettled(g)' \in Nat
    BY DEF SpendInv, HostedOK, HostedState, Owed, Unsettled
  <2>2. IntegersOn(Owed', Hosted)
    BY <2>1 DEF IntegersOn
  <2>3. SumFunction(Owed') = SumFunctionOnSet(Owed', Hosted)
    BY DEF SumFunction, Owed
  <2> QED BY <2>1, <2>2, <2>3
<1>4. \A g \in Hosted : g # h => Owed'[g] = Owed[g]
  BY <1>1, <1>2, <1>3 DEF Unsettled
<1>5. Owed'[h] = state.cost + state.total /\ Owed[h] = Unsettled(h)
  BY <1>1, <1>2, <1>3 DEF Unsettled
<1>6. ASSUME NEW f, NEW e, IntegersOn(f, Hosted), IntegersOn(e, Hosted),
             \A g \in Hosted : g # h => e[g] = f[g]
      PROVE  SumFunctionOnSet(e, Hosted) = SumFunctionOnSet(f, Hosted) + (e[h] - f[h])
  BY <1>6, SpendAssumption, SumChanges
<1>7. SumFunctionOnSet(Owed', Hosted) = SumFunctionOnSet(Owed, Hosted) + (Owed'[h] - Owed[h])
  BY <1>2, <1>3, <1>4, <1>6
<1>8. SumFunction(Owed') = SumFunction(Owed) + (Owed'[h] - Owed[h])
  BY <1>2, <1>3, <1>7
<1>9. Owed'[h] - Owed[h] = (state.cost + state.total) - Unsettled(h)
  BY <1>5
<1> QED BY <1>1, <1>8, <1>9

(* A step of h that neither bills nor settles anything.                    *)
LEMMA UnbilledKeeps ==
    ASSUME BilledInv, SpendInv', NEW h \in Hosted, NEW state, PaidUp(state),
           hosted' = [hosted EXCEPT ![h] = state], state.cost + state.total = Unsettled(h),
           UNCHANGED <<ledger, billed, lost>>
    PROVE  BilledInv'
<1>1. /\ SumFunction(Owed') = SumFunction(Owed) + ((state.cost + state.total) - Unsettled(h))
      /\ hosted'[h] = state /\ \A g \in Hosted : g # h => hosted'[g] = hosted[g]
  BY OwedChanges DEF BilledInv
<1>2. SumFunction(Owed) \in Nat /\ Unsettled(h) \in Nat
  BY OwedIs DEF BilledInv
<1>3. SumFunction(Owed') = SumFunction(Owed)
  BY <1>1, <1>2
<1>4. BilledOnce'
  BY <1>3 DEF BilledInv, BilledOnce, Owed, ledger
<1>5. (\A g \in Hosted : PaidUp(hosted[g]))'
  BY <1>1 DEF BilledInv
<1>6. /\ playerSpend' = [p \in Player |-> playerSpend'[p]]
      /\ \A p \in Player : playerSpend'[p] \in Nat
      /\ globalSpend' \in Nat /\ billed' \in Nat /\ lost' \in Nat
  BY DEF BilledInv, ledger
<1> QED BY <1>4, <1>5, <1>6 DEF BilledInv

LEMMA GoBills ==
    ASSUME BilledInv, SpendInv', NEW h \in Hosted, NEW pc, Go(h, pc), hosted[h].pc # "open",
           pc # "settle", hosted[h].pc # "settle",
           hosted[h].turn /\ pc \in TurnOnly \cup {"idle", "done"} =>
               hosted[h].pc \in TurnOnly \cup {"idle", "done"},
           UNCHANGED <<ledger, billed, lost>>
    PROVE  BilledInv'
<1> DEFINE state == [hosted[h] EXCEPT !.pc = pc]
<1>1. hosted' = [hosted EXCEPT ![h] = state]
  BY DEF Go
<1>2. /\ state.pc = pc /\ state.turn = hosted[h].turn /\ state.cost = hosted[h].cost
      /\ state.total = hosted[h].total
  BY DEF BilledInv, SpendInv, HostedOK, HostedState
<1> HIDE DEF state
<1>3. PaidUp(state) /\ state.cost + state.total = Unsettled(h)
  BY <1>2 DEF BilledInv, PaidUp, Unsettled
<1> QED BY <1>1, <1>3, UnbilledKeeps

(* Who owes nothing may stop.                                              *)
LEMMA FinishBills ==
    ASSUME BilledInv, SpendInv', NEW h \in Hosted, Finish(h), UNCHANGED <<ledger, billed, lost>>,
           hosted[h].pc \notin {"open", "settle"},
           hosted[h].turn => hosted[h].pc \in TurnOnly \cup {"idle", "done"}
    PROVE  BilledInv'
<1> DEFINE state == [NotStarted EXCEPT !.pc = "done"]
<1>1. hosted' = [hosted EXCEPT ![h] = state]
  BY DEF Finish
<1>2. state.cost = 0 /\ state.total = 0
  BY DEF NotStarted
<1> HIDE DEF state
<1>3. PaidUp(state)
  BY <1>2 DEF PaidUp
<1>4. state.cost + state.total = Unsettled(h)
  BY <1>2 DEF BilledInv, PaidUp, Unsettled
<1> QED BY <1>1, <1>3, <1>4, UnbilledKeeps

LEMMA RefuseBills ==
    ASSUME BilledInv, SpendInv', NEW h \in Hosted, NEW denied, Refuse(h, denied),
           hosted[h].pc \in {"check", "player", "global", "slot"},
           UNCHANGED <<ledger, billed, lost>>
    PROVE  BilledInv'
<1>1. CASE hosted[h].turn
  <2> DEFINE state == [hosted[h] EXCEPT !.pc = "settle", !.denied = denied]
  <2>1. hosted' = [hosted EXCEPT ![h] = state]
    BY <1>1 DEF Refuse
  <2>2. state.pc = "settle" /\ state.cost = hosted[h].cost /\ state.total = hosted[h].total
    BY DEF BilledInv, SpendInv, HostedOK, HostedState
  <2> HIDE DEF state
  <2>3. PaidUp(state) /\ state.cost + state.total = Unsettled(h)
    BY <2>2 DEF BilledInv, PaidUp, Unsettled
  <2> QED BY <2>1, <2>3, UnbilledKeeps
<1>2. CASE ~hosted[h].turn
  BY <1>2, FinishBills DEF Refuse
<1> QED BY <1>1, <1>2

LEMMA StartBills ==
    ASSUME BilledInv, SpendInv', NEW h \in Hosted, Start(h) PROVE BilledInv'
<1>1. PICK s \in Session, turn \in BOOLEAN :
          hosted' = [hosted EXCEPT ![h] = [NotStarted EXCEPT
              !.pc = IF turn THEN "reserve" ELSE "check", !.session = s, !.turn = turn]]
  BY DEF Start
<1> DEFINE state == [NotStarted EXCEPT
               !.pc = IF turn THEN "reserve" ELSE "check", !.session = s, !.turn = turn]
<1>2. state.cost = 0 /\ state.total = 0
  BY DEF NotStarted
<1>3. hosted' = [hosted EXCEPT ![h] = state]
  BY <1>1
<1> HIDE DEF state
<1>4. PaidUp(state)
  BY <1>2 DEF PaidUp
<1>5. state.cost + state.total = Unsettled(h)
  BY <1>2 DEF BilledInv, PaidUp, Unsettled, Start, At
<1>6. UNCHANGED <<ledger, billed, lost>>
  BY DEF Start, history
<1> QED BY <1>3, <1>4, <1>5, <1>6, UnbilledKeeps

LEMMA EnvelopeBills ==
    ASSUME BilledInv, SpendInv', NEW h \in Hosted,
           \/ Reserve(h) \/ EnvelopePlayer(h) \/ EnvelopeGlobal(h) \/ Begin(h)
           \/ ReleaseEnvelope(h)
    PROVE  BilledInv'
<1>1. /\ hosted[h].pc \in TurnOnly /\ UNCHANGED <<ledger, billed, lost>>
      /\ \/ Finish(h)
         \/ \E pc \in {"envelopePlayer", "envelopeGlobal", "begin", "check"} : Go(h, pc)
  BY DEF Reserve, EnvelopePlayer, EnvelopeGlobal, Begin, ReleaseEnvelope, At, TurnOnly,
         history, Unread, EndTurn
<1> QED BY <1>1, FinishBills, GoBills DEF TurnOnly

LEMMA AttemptChecksBill ==
    ASSUME BilledInv, SpendInv', NEW h \in Hosted,
           CheckSession(h) \/ CheckPlayer(h) \/ CheckGlobal(h) \/ AcquireSlot(h)
    PROVE  BilledInv'
<1>1. /\ hosted[h].pc \in {"check", "player", "global", "slot"}
      /\ UNCHANGED <<ledger, billed, lost>>
      /\ \/ \E denied \in BOOLEAN : Refuse(h, denied)
         \/ \E pc \in {"player", "global", "slot", "provider"} : Go(h, pc)
  BY DEF CheckSession, CheckPlayer, CheckGlobal, AcquireSlot, At, history
<1> QED BY <1>1, RefuseBills, GoBills DEF TurnOnly

LEMMA ProviderAnswersBills ==
    ASSUME BilledInv, SpendInv', NEW h \in Hosted, ProviderAnswers(h) PROVE BilledInv'
<1>1. PICK cost \in 0..WorstCase :
          /\ hosted' = [hosted EXCEPT ![h].pc = "open", ![h].cost = cost]
          /\ billed' = billed + cost
  BY DEF ProviderAnswers
<1> DEFINE state == [hosted[h] EXCEPT !.pc = "open", !.cost = cost]
<1>2. hosted' = [hosted EXCEPT ![h] = state]
  BY <1>1
<1>3. /\ state.pc = "open" /\ state.cost = cost /\ state.total = hosted[h].total
      /\ state.turn = hosted[h].turn
  BY DEF BilledInv, SpendInv, HostedOK, HostedState
<1> HIDE DEF state
<1>4. /\ SumFunction(Owed') = SumFunction(Owed) + ((state.cost + state.total) - Unsettled(h))
      /\ hosted'[h] = state /\ \A g \in Hosted : g # h => hosted'[g] = hosted[g]
  BY <1>2, OwedChanges DEF BilledInv
<1>5. Unsettled(h) = hosted[h].total /\ hosted[h].total \in Nat
      /\ (~hosted[h].turn => hosted[h].total = 0)
  BY DEF BilledInv, PaidUp, Unsettled, ProviderAnswers, At, SpendInv, HostedOK, HostedState
<1>6. SumFunction(Owed) \in Nat /\ cost \in Nat
  BY OwedIs, SpendAssumption DEF BilledInv
<1>7. SumFunction(Owed') = SumFunction(Owed) + cost
  BY <1>3, <1>4, <1>5, <1>6
<1>8. UNCHANGED <<ledger, lost>>
  BY DEF ProviderAnswers
<1>9. BilledOnce'
  <2>1. globalSpend' = SumFunction(playerSpend')
    BY <1>8 DEF BilledInv, BilledOnce, ledger
  <2>2. billed = globalSpend + lost + SumFunction(Owed)
    BY DEF BilledInv, BilledOnce, Owed
  <2>3. billed' = globalSpend' + lost' + SumFunction(Owed')
    BY <1>1, <1>6, <1>7, <1>8, <2>2 DEF BilledInv, ledger
  <2> QED BY <2>1, <2>3 DEF BilledOnce, Owed
<1>10. PaidUp(state)
  BY <1>3, <1>5 DEF PaidUp, TurnOnly
<1>11. (\A g \in Hosted : PaidUp(hosted[g]))'
  BY <1>4, <1>10 DEF BilledInv
<1>12. /\ playerSpend' = [p \in Player |-> playerSpend'[p]]
       /\ \A p \in Player : playerSpend'[p] \in Nat
       /\ globalSpend' \in Nat /\ lost' \in Nat
  BY <1>8 DEF BilledInv, ledger
<1>13. billed' \in Nat
  BY <1>1, <1>6 DEF BilledInv
<1> QED BY <1>9, <1>11, <1>12, <1>13 DEF BilledInv

LEMMA RecordAttemptBills ==
    ASSUME BilledInv, SpendInv', NEW h \in Hosted, RecordAttempt(h) PROVE BilledInv'
<1>1. PICK next \in {"check", "settle"}, retry \in BOOLEAN :
          /\ ~hosted[h].turn => next = "settle"
          /\ hosted' = [hosted EXCEPT ![h].pc = next, ![h].cost = 0,
                 ![h].total = Total(h, retry), ![h].retried = hosted[h].retried \/ retry,
                 ![h].calls = IF retry THEN hosted[h].calls ELSE hosted[h].calls + 1]
  BY DEF BilledInv, SpendInv, RecordAttempt
<1> DEFINE state == [hosted[h] EXCEPT !.pc = next, !.cost = 0, !.total = Total(h, retry),
               !.retried = hosted[h].retried \/ retry,
               !.calls = IF retry THEN hosted[h].calls ELSE hosted[h].calls + 1]
<1>2. hosted' = [hosted EXCEPT ![h] = state]
  BY <1>1
<1>3. /\ state.pc = next /\ state.cost = 0 /\ state.turn = hosted[h].turn
      /\ state.total = hosted[h].total + hosted[h].cost
  BY DEF BilledInv, SpendInv, HostedOK, HostedState, Total
<1> HIDE DEF state
<1>4. hosted[h].total \in Nat /\ hosted[h].cost \in Nat
  BY DEF BilledInv, SpendInv, HostedOK, HostedState
<1>5. PaidUp(state) /\ state.cost + state.total = Unsettled(h)
  BY <1>1, <1>3, <1>4 DEF PaidUp, Unsettled, TurnOnly
<1>6. UNCHANGED <<ledger, billed, lost>>
  BY DEF RecordAttempt, history
<1> QED BY <1>2, <1>5, <1>6, UnbilledKeeps

(* The settled cost of h, either in both counters or lost.                 *)
LEMMA SettleBills ==
    ASSUME BilledInv, SpendInv', NEW h \in Hosted, Settle(h) PROVE BilledInv'
<1> DEFINE total == hosted[h].total
<1>1. /\ hosted[h].pc = "settle" /\ total \in Nat /\ Unsettled(h) = total
      /\ hosted[h].session \in Session
  BY DEF Settle, At, BilledInv, SpendInv, HostedOK, HostedState, PaidUp, Unsettled
<1>2. PICK owner \in Player : owner = Owner(h)
  BY <1>1, SpendAssumption DEF Owner
<1>3. PICK state : /\ hosted' = [hosted EXCEPT ![h] = state] /\ PaidUp(state)
                   /\ state.cost = 0 /\ state.total = 0
  <2>1. CASE hosted[h].turn
    <3> DEFINE state == [hosted[h] EXCEPT !.pc = "release", !.total = 0]
    <3>1. hosted' = [hosted EXCEPT ![h] = state]
      BY <2>1 DEF Settle
    <3>2. state.cost = 0 /\ state.total = 0
      BY <1>1 DEF BilledInv, PaidUp, SpendInv, HostedOK, HostedState
    <3> HIDE DEF state
    <3> QED BY <3>1, <3>2 DEF PaidUp
  <2>2. CASE ~hosted[h].turn
    <3> DEFINE state == [NotStarted EXCEPT !.pc = "done"]
    <3>1. hosted' = [hosted EXCEPT ![h] = state]
      BY <2>2 DEF Settle, Finish
    <3>2. state.cost = 0 /\ state.total = 0
      BY DEF NotStarted
    <3> HIDE DEF state
    <3> QED BY <3>1, <3>2 DEF PaidUp
  <2> QED BY <2>1, <2>2
<1>4. /\ SumFunction(Owed') = SumFunction(Owed) + ((state.cost + state.total) - Unsettled(h))
      /\ hosted'[h] = state /\ \A g \in Hosted : g # h => hosted'[g] = hosted[g]
  BY <1>3, OwedChanges DEF BilledInv
<1>5. SumFunction(Owed) \in Nat
  BY OwedIs DEF BilledInv
<1>6. SumFunction(Owed') = SumFunction(Owed) - total
  BY <1>1, <1>3, <1>4, <1>5
<1>7. (\A g \in Hosted : PaidUp(hosted[g]))'
  BY <1>3, <1>4 DEF BilledInv
<1>8. billed' = billed /\ billed = globalSpend + lost + SumFunction(Owed)
  BY DEF Settle, BilledInv, BilledOnce, Owed
<1> HIDE DEF total
<1>9. CASE lost' = lost + total /\ UNCHANGED ledger
  <2>1. BilledOnce'
    <3>1. globalSpend' = SumFunction(playerSpend')
      BY <1>9 DEF BilledInv, BilledOnce, ledger
    <3>2. billed' = globalSpend' + lost' + SumFunction(Owed')
      BY <1>1, <1>5, <1>6, <1>8, <1>9 DEF BilledInv, ledger
    <3> QED BY <3>1, <3>2 DEF BilledOnce, Owed
  <2> QED BY <1>1, <1>7, <1>8, <1>9, <2>1 DEF BilledInv, ledger
<1>10. CASE /\ playerSpend' = [playerSpend EXCEPT ![owner] = playerSpend[owner] + total]
            /\ globalSpend' = globalSpend + total /\ lost' = lost
  <2> DEFINE was == playerSpend
             is == playerSpend'
  <2>1. /\ is[owner] = was[owner] + total
        /\ \A p \in Player : p # owner => is[p] = was[p]
        /\ \A p \in Player : was[p] \in Nat
        /\ is = [p \in Player |-> is[p]] /\ was = [p \in Player |-> was[p]]
    BY <1>10 DEF BilledInv
  <2>2. \A p \in Player : is[p] \in Nat
    BY <1>1, <2>1
  <2> HIDE DEF was, is
  <2>3. IntegersOn(was, Player) /\ IntegersOn(is, Player)
    BY <2>1, <2>2 DEF IntegersOn
  <2>4. SumFunctionOnSet(is, Player) = SumFunctionOnSet(was, Player) + (is[owner] - was[owner])
    BY <2>1, <2>3, SpendAssumption, SumChanges
  <2>5. /\ SumFunction(is) = SumFunctionOnSet(is, Player)
        /\ SumFunction(was) = SumFunctionOnSet(was, Player)
    <3>1. DOMAIN is = Player /\ DOMAIN was = Player
      BY <2>1
    <3> QED BY <3>1 DEF SumFunction
  <2>6. SumFunctionOnSet(was, Player) \in Int
    BY <2>3, SpendAssumption, SumIsInteger
  <2>7. globalSpend' = SumFunction(playerSpend')
    <3>1. globalSpend = SumFunction(was)
      BY DEF BilledInv, BilledOnce, was
    <3>2. is[owner] - was[owner] = total
      BY <1>1, <2>1
    <3>3. globalSpend' = SumFunction(is)
      BY <1>10, <2>4, <2>5, <2>6, <3>1, <3>2
    <3> QED BY <3>3 DEF is
  <2>8. billed' = globalSpend' + lost' + SumFunction(Owed')
    BY <1>1, <1>5, <1>6, <1>8, <1>10 DEF BilledInv
  <2>9. BilledOnce'
    BY <2>7, <2>8 DEF BilledOnce, Owed
  <2>10. playerSpend' = [p \in Player |-> playerSpend'[p]]
         /\ \A p \in Player : playerSpend'[p] \in Nat
    BY <2>1, <2>2 DEF is
  <2>11. billed' \in Nat /\ globalSpend' \in Nat /\ lost' \in Nat
    BY <1>1, <1>8, <1>10 DEF BilledInv
  <2> QED BY <1>7, <2>9, <2>10, <2>11 DEF BilledInv
<1> QED BY <1>2, <1>9, <1>10 DEF Settle, total, BilledInv

LEMMA RestartBills == ASSUME BilledInv, SpendInv', Restart PROVE BilledInv'
<1>1. ASSUME NEW h \in Hosted
      PROVE  PaidUp(hosted'[h]) /\ Unsettled(h)' = 0
  <2>1. hosted'[h] \in {NotStarted, [NotStarted EXCEPT !.pc = "done"]}
    BY DEF Restart
  <2>2. hosted'[h].cost = 0 /\ hosted'[h].total = 0
    <3>1. NotStarted.cost = 0 /\ NotStarted.total = 0
      BY DEF NotStarted
    <3> DEFINE done == [NotStarted EXCEPT !.pc = "done"]
    <3>2. done.cost = 0 /\ done.total = 0
      BY DEF NotStarted
    <3> HIDE DEF done
    <3>3. hosted'[h] = NotStarted \/ hosted'[h] = done
      BY <2>1 DEF done
    <3> QED BY <3>1, <3>2, <3>3
  <2> QED BY <2>2 DEF PaidUp, Unsettled
<1>2. SumFunction(Owed') = 0
  <2>1. DOMAIN Owed' = Hosted /\ \A h \in Hosted : Owed'[h] = 0
    BY <1>1 DEF Owed
  <2>2. ASSUME NEW f, \A h \in Hosted : f[h] = 0
        PROVE  SumFunctionOnSet(f, Hosted) = 0
    BY <2>2, SpendAssumption, SumOfZeros
  <2> QED BY <2>1, <2>2 DEF SumFunction
<1>3. SumFunction(Owed) \in Nat /\ lost' = lost + SumFunction(Owed)
  BY OwedIs DEF BilledInv, Restart, Owed
<1>4. UNCHANGED <<ledger, billed>>
  BY DEF Restart
<1>5. BilledOnce'
  <2>1. globalSpend' = SumFunction(playerSpend')
    BY <1>4 DEF BilledInv, BilledOnce, ledger
  <2>2. billed = globalSpend + lost + SumFunction(Owed)
    BY DEF BilledInv, BilledOnce, Owed
  <2>3. billed' = globalSpend' + lost' + SumFunction(Owed')
    BY <1>2, <1>3, <1>4, <2>2 DEF BilledInv, ledger
  <2> QED BY <2>1, <2>3 DEF BilledOnce, Owed
<1> QED BY <1>1, <1>3, <1>4, <1>5 DEF BilledInv, ledger

LEMMA BilledInitInv == SpendInit => BilledInv
<1> SUFFICES ASSUME SpendInit PROVE BilledInv
  OBVIOUS
<1>1. \A h \in Hosted : PaidUp(hosted[h]) /\ Unsettled(h) = 0
  BY DEF SpendInit, NotStarted, PaidUp, Unsettled
<1>2. SumFunction(Owed) = 0
  <2>1. DOMAIN Owed = Hosted /\ \A h \in Hosted : Owed[h] = 0
    BY <1>1 DEF Owed
  <2> QED BY <2>1, SpendAssumption, SumOfZeros DEF SumFunction
<1>3. SumFunction(playerSpend) = 0
  <2>1. DOMAIN playerSpend = Player /\ \A p \in Player : playerSpend[p] = 0
    BY DEF SpendInit
  <2> QED BY <2>1, SpendAssumption, SumOfZeros DEF SumFunction
<1>4. BilledOnce
  BY <1>2, <1>3 DEF SpendInit, BilledOnce, Owed
<1> QED BY <1>1, <1>4, SpendInitInv DEF SpendInit, BilledInv

LEMMA BilledStep == BilledInv /\ [SpendNext]_spendVars => BilledInv'
<1> SUFFICES ASSUME BilledInv, [SpendNext]_spendVars PROVE BilledInv'
  OBVIOUS
<1>1. SpendInv'
  BY SpendStep DEF BilledInv
<1>2. ASSUME NEW h \in Hosted,
             \/ Start(h) \/ Reserve(h) \/ EnvelopePlayer(h) \/ EnvelopeGlobal(h) \/ Begin(h)
             \/ CheckSession(h) \/ CheckPlayer(h) \/ CheckGlobal(h) \/ AcquireSlot(h)
             \/ ProviderAnswers(h) \/ RecordAttempt(h) \/ Settle(h) \/ ReleaseEnvelope(h)
      PROVE  BilledInv'
  BY <1>1, <1>2, StartBills, EnvelopeBills, AttemptChecksBill, ProviderAnswersBills,
     RecordAttemptBills, SettleBills
<1>3. CASE CooldownEnds \/ UNCHANGED spendVars
  <2>1. UNCHANGED <<ledger, hosted, billed, lost>>
    BY <1>3 DEF CooldownEnds, spendVars, history
  <2>2. Owed' = Owed
    BY <2>1 DEF Owed, Unsettled
  <2>3. BilledOnce'
    BY <2>1, <2>2 DEF BilledInv, BilledOnce, Owed, ledger
  <2> QED BY <1>1, <2>1, <2>3 DEF BilledInv, ledger
<1>4. CASE Restart
  BY <1>1, <1>4, RestartBills
<1> QED BY <1>2, <1>3, <1>4 DEF SpendNext

(* Whatever the provider billed is in the ledger once, on its way there,   *)
(* or lost with a crash or a failed settlement, for any number of Players  *)
(* and operations (language_layer.rs): nothing is given up while it owes.  *)
THEOREM BillsAreSettledOnce == SpendSpec => []BilledOnce
<1>1. BilledInv => BilledOnce
  BY DEF BilledInv
<1> QED BY <1>1, BilledInitInv, BilledStep, PTL DEF SpendSpec

===============================================================================

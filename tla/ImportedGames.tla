----------------------------- MODULE ImportedGames -----------------------------
(***************************************************************************)
(* The imported Games of one Player: the frozen review of each Game Import *)
(* and one card per Game in the database, the Review Sessions resident in  *)
(* the process, and the commands that import a Game, load its session and  *)
(* delete it.  A Game reviewed at several Elo profiles is several imports. *)
(* One action is what happens between two awaits.                          *)
(***************************************************************************)
EXTENDS Integers, FiniteSets

CONSTANTS
    Import, GameOf,        \* GameOf[i]: the Game and side that import i reviews
    NoImport,
    Command,               \* who issues commands, one at a time
    MaxReviews             \* bound: reviews made

Game == {GameOf[i] : i \in Import}

ASSUME ImportsAssumption ==
    /\ NoImport \notin Import
    /\ MaxReviews \in Nat

VARIABLES
    stored,        \* stored[i]: the review frozen for import i; 0 is none
    card,          \* card[g]: the import that the card of Game g names
    resident,      \* resident[i]: the review that the resident session of i shows
    command,       \* command[c]: where command c is
    reviews,       \* how many reviews were made
    filed,         \* history: imports that a card was committed for
    overlapped,    \* history: Games of which a delete ran beside another command
    astray         \* history: imports answered with another review than the stored one

documents == <<stored, card, filed>>
importsVars == <<documents, resident, command, reviews, overlapped, astray>>

NotIssued ==
    [pc |-> "idle", import |-> CHOOSE i \in Import : TRUE, recording |-> FALSE,
     review |-> 0, addressed |-> {}, undisturbed |-> TRUE]

ImportsInit ==
    /\ stored = [i \in Import |-> 0]
    /\ card = [g \in Game |-> NoImport]
    /\ resident = [i \in Import |-> 0]
    /\ command = [c \in Command |-> NotIssued]
    /\ reviews = 0
    /\ filed = {} /\ overlapped = {} /\ astray = {}

-----------------------------------------------------------------------------
Doing(c, pc) == command[c].pc = pc
GoOn(c, pc) == command' = [command EXCEPT ![c].pc = pc]
Leave(c) == command' = [command EXCEPT ![c] = NotIssued]
Of(c) == command[c].import
InFlight(c) == ~Doing(c, "idle")
Beside(c) ==             \* the other commands about the Game
    {d \in Command \ {c} : InFlight(d) /\ GameOf[Of(d)] = GameOf[Of(c)]}

IssueImport(c) ==        \* the local coach and a local PGN file no card
    /\ Doing(c, "idle")
    /\ \E i \in Import, recording \in BOOLEAN :
           command' = [command EXCEPT ![c] = [NotIssued EXCEPT
               !.pc = "find", !.import = i, !.recording = recording]]
    /\ UNCHANGED <<documents, resident, reviews, overlapped, astray>>

(* Completion follows the last commit or read without an await.            *)
Complete(c, review) ==
    /\ astray' = IF command[c].undisturbed /\ review # stored'[Of(c)]
                 THEN astray \cup {Of(c)} ELSE astray
    /\ Leave(c)

(* The stored review is the answer; its card is brought up to date first.  *)
AdoptStored(c) ==
    IF command[c].recording
    THEN /\ command' = [command EXCEPT ![c].pc = "card", ![c].review = stored[Of(c)]]
         /\ UNCHANGED <<documents, astray>>
    ELSE UNCHANGED documents /\ Complete(c, stored[Of(c)])

FindImport(c) ==
    /\ Doing(c, "find")
    /\ \/ stored[Of(c)] # 0 /\ AdoptStored(c)
       \/ stored[Of(c)] = 0 /\ GoOn(c, "analyse") /\ UNCHANGED <<documents, astray>>
    /\ UNCHANGED <<resident, reviews, overlapped>>

(* From the shared cache or by the engine; either is a review of its own.  *)
Analyse(c) ==
    /\ Doing(c, "analyse") /\ reviews < MaxReviews
    /\ reviews' = reviews + 1
    /\ command' = [command EXCEPT ![c].pc = "create", ![c].review = reviews']
    /\ UNCHANGED <<documents, resident, overlapped, astray>>

CardFor(c) ==
    /\ card' = [card EXCEPT ![GameOf[Of(c)]] = Of(c)]
    /\ filed' = filed \cup {Of(c)}

CreateImport(c) ==       \* one commit of the record and its card, unless it exists
    /\ Doing(c, "create")
    /\ \/ /\ stored[Of(c)] # 0
          /\ GoOn(c, "winner") /\ UNCHANGED <<documents, astray>>
       \/ /\ stored[Of(c)] = 0
          /\ stored' = [stored EXCEPT ![Of(c)] = command[c].review]
          /\ IF command[c].recording THEN CardFor(c) ELSE UNCHANGED <<card, filed>>
          /\ Complete(c, command[c].review)
    /\ overlapped' = overlapped \cup
           {g \in {GameOf[Of(c)]} : \E d \in Beside(c) : Doing(d, "delete")}
    /\ UNCHANGED <<resident, reviews>>

FindWinnerOwn(c) ==      \* mutant: the loser answers with the review it made
    /\ Doing(c, "winner")
    /\ UNCHANGED documents /\ Complete(c, command[c].review)
    /\ UNCHANGED <<resident, reviews, overlapped>>
FindWinner(c) ==
    /\ Doing(c, "winner")
    /\ \/ stored[Of(c)] # 0 /\ AdoptStored(c)
       \/ stored[Of(c)] = 0 /\ Leave(c) /\ UNCHANGED <<documents, astray>>
    /\ UNCHANGED <<resident, reviews, overlapped>>

UpsertCard(c) ==
    /\ Doing(c, "card")
    /\ CardFor(c) /\ UNCHANGED stored
    /\ Complete(c, command[c].review)
    /\ UNCHANGED <<resident, reviews, overlapped>>

-----------------------------------------------------------------------------
IssueLoad(c) ==          \* resident_session, or find and build
    /\ Doing(c, "idle")
    /\ \E i \in Import :
           /\ resident[i] = 0 /\ stored[i] # 0
           /\ command' = [command EXCEPT ![c] = [NotIssued EXCEPT
                  !.pc = "build", !.import = i, !.review = stored[i]]]
    /\ UNCHANGED <<documents, resident, reviews, overlapped, astray>>

BuildSession(c) ==       \* an earlier insert wins
    /\ Doing(c, "build")
    /\ resident' = [resident EXCEPT ![Of(c)] = IF @ = 0 THEN command[c].review ELSE @]
    /\ Leave(c)
    /\ UNCHANGED <<documents, reviews, overlapped, astray>>

SessionExpires(i) ==
    /\ resident[i] # 0 /\ resident' = [resident EXCEPT ![i] = 0]
    /\ UNCHANGED <<documents, command, reviews, overlapped, astray>>

-----------------------------------------------------------------------------
IssueDelete(c) ==        \* an import that is not there is unknown
    /\ Doing(c, "idle")
    /\ \E i \in Import :
           /\ stored[i] # 0
           /\ command' = [command EXCEPT ![c] = [NotIssued EXCEPT !.pc = "list", !.import = i]]
    /\ UNCHANGED <<documents, resident, reviews, overlapped, astray>>

AddressedOne(c) == {Of(c)}      \* mutant: the delete takes the addressed import alone
Addressed(c) ==
    {i \in Import : stored[i] # 0 /\ GameOf[i] = GameOf[Of(c)]} \cup {Of(c)}

ListImports(c) ==
    /\ Doing(c, "list")
    /\ command' = [command EXCEPT ![c].pc = "delete", ![c].addressed = Addressed(c)]
    /\ UNCHANGED <<documents, resident, reviews, overlapped, astray>>

DeleteImports(c) ==      \* one commit
    LET g == GameOf[Of(c)]
    IN  /\ Doing(c, "delete")
        /\ stored' = [i \in Import |-> IF i \in command[c].addressed THEN 0 ELSE stored[i]]
        /\ card' = [card EXCEPT ![g] = NoImport]
        /\ filed' = filed \ command[c].addressed
        /\ command' = [d \in Command |->
               IF d = c THEN [command[c] EXCEPT !.pc = "forget"]
               ELSE IF d \in Beside(c) THEN [command[d] EXCEPT !.undisturbed = FALSE]
               ELSE command[d]]
        /\ overlapped' = IF Beside(c) # {} THEN overlapped \cup {g} ELSE overlapped
        /\ UNCHANGED <<resident, reviews, astray>>

ForgetNothing(c) ==      \* mutant: resident sessions stay
    /\ Doing(c, "forget") /\ Leave(c)
    /\ UNCHANGED <<documents, resident, reviews, overlapped, astray>>
Forget(c) ==
    /\ Doing(c, "forget")
    /\ resident' = [i \in Import |-> IF i \in command[c].addressed THEN 0 ELSE resident[i]]
    /\ Leave(c)
    /\ UNCHANGED <<documents, reviews, overlapped, astray>>

-----------------------------------------------------------------------------
(* The database, the engine or the digest archive refuses: the command     *)
(* ends with an error where it is.                                         *)
GiveUp(c) ==
    /\ InFlight(c) /\ ~Doing(c, "forget")
    /\ Leave(c)
    /\ UNCHANGED <<documents, resident, reviews, overlapped, astray>>

ProcessDies ==
    /\ resident' = [i \in Import |-> 0]
    /\ command' = [c \in Command |-> NotIssued]
    /\ UNCHANGED <<documents, reviews, overlapped, astray>>

ImportsNext ==
    \/ \E c \in Command :
          \/ IssueImport(c) \/ FindImport(c) \/ Analyse(c) \/ CreateImport(c)
          \/ FindWinner(c) \/ UpsertCard(c) \/ IssueLoad(c) \/ BuildSession(c)
          \/ IssueDelete(c) \/ ListImports(c) \/ DeleteImports(c) \/ Forget(c) \/ GiveUp(c)
    \/ \E i \in Import : SessionExpires(i)
    \/ ProcessDies

ImportsSpec == ImportsInit /\ [][ImportsNext]_importsVars

-----------------------------------------------------------------------------
(* "Subsequent imports return that exact record" (finish_game_import): an  *)
(* import that no delete fell into answers with the review that is stored, *)
(* also when it made another one while a rival stored its own.             *)
ImportsAnswerTheRecord == astray = {}

Forgetting(i) == \E c \in Command : Doing(c, "forget") /\ i \in command[c].addressed

(* A delete spans the Game, whatever import it was addressed by: no card   *)
(* stands without its review, no import that was filed stands without the  *)
(* card of its Game, and no resident session answers from a review that is *)
(* gone, once the delete has forgotten it.  This is of Games of which no   *)
(* delete ran beside another command, which may put back what it had read. *)
DeletedGamesAreGone ==
    \A i \in Import :
        GameOf[i] \notin overlapped =>
            /\ card[GameOf[i]] = i => stored[i] # 0
            /\ i \in filed => card[GameOf[i]] # NoImport
            /\ resident[i] # 0 => resident[i] = stored[i] \/ Forgetting(i)

ImportsAgree == ImportsAnswerTheRecord /\ DeletedGamesAreGone

===============================================================================

---------------------------- MODULE MCAlgorithms ----------------------------
\* The four parts whose difficulty is a computation on data, read plans,
\* scripts, the cache of scripts and the indexes of the job queue, in one
\* instance: a behaviour is a reading, a run of a script, a life of the cache or
\* a sequence of calls of the queue.
EXTENDS MCLivePoll, MCScript, JobQueue, ScriptCache, TLC

CONSTANTS k1, k2, k3

NoReading == /\ prog = "none" /\ wanted = {} /\ plan = <<>> /\ sent = 0 /\ frames = <<>>
             /\ shown = <<>> /\ phase = "none" /\ failed = {}
NoScript  == /\ wrote = NoProgram /\ text = <<>> /\ limit = 0 /\ stage = "none" /\ spin = 0
             /\ tree = <<>> /\ code = <<>> /\ keys = {} /\ steps = 0 /\ ip = 0 /\ stack = <<>>
             /\ env = <<>> /\ regs = <<>> /\ emits = <<>> /\ asked = {}

NoCache   == /\ table = <<>> /\ started = {} /\ shared = <<>> /\ cache = <<>> /\ copies = <<>>
             /\ told = <<>> /\ rowEdits = 0

MCGroupsOf == k1 :> {1} @@ k2 :> {1, 2}

MCInit ==
  /\ Init
  /\ \/ PollInit /\ NoScript /\ NoCache
     \/ NoReading /\ ScriptInit /\ NoCache
     \/ NoReading /\ NoScript /\ (NoCache \/ CacheInit)
Queueing == prog = "none" /\ stage = "none" /\ table = <<>>
MCNext ==
  \/ PollNext /\ UNCHANGED <<allVars, vars, cacheVars>>
  \/ ScriptNext /\ UNCHANGED <<pollVars, vars, cacheVars>>
  \/ table # <<>> /\ CacheNext /\ UNCHANGED <<pollVars, allVars, vars>>
  \/ Next /\ Queueing /\ UNCHANGED <<pollVars, allVars, cacheVars>>
MCSpec == MCInit /\ [][MCNext]_<<allVars, pollVars, vars, cacheVars>> /\ WF_allVars(ScriptNext)

-----------------------------------------------------------------------------
(* What a job runs is the text of the row, as it is written and means: the *)
(* cache serves the rows (script_cache.rs:155), and the parser, the        *)
(* instructions and the machine do what the text says (script.rs:36).      *)
ScriptsRunAsWritten == RunsAsMeant /\ ServesTheRows
=============================================================================

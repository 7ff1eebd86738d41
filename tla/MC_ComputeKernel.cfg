\* A chat node, a voice node, a node whose push_task raises and two llama nodes with
\* one id, of which three join; two of a completion, a speech and a picture.
CONSTANTS
  chat = chat
  voice = voice
  llama = llama
  llama2 = llama2
  test = test
  llm = llm
  speech = speech
  picture = picture
  None = None
  Nodes = {chat, voice, test, llama, llama2}
  Tasks = {llm, speech, picture}
  Pictures = {picture}
  Fragile = {test}
  CheckLimit = 1
  MaxNodes = 3
  MaxCalls = 2
  Kind <- MC_Kind
  NodeId <- MC_NodeId
  Supports <- MC_Supports
  Weight <- MC_Weight
SPECIFICATION FairSpec
INVARIANTS TypeOK Outcomes HitsAreProportional
PROPERTIES EndIsFinal PromiseSpec CallsAndQueuesEnd
CHECK_DEADLOCK FALSE

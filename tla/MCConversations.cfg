CONSTANTS
    hi = hi pad = pad yes = yes Yes = Yes no = no none = none
    m1 = m1 m2 = m2 m3 = m3 c1 = c1 c2 = c2 i1 = i1 i2 = i2
    f1 = f1 f2 = f2 e1 = e1 e2 = e2 a = a b = b c = c q = q
    NodeIds = {a, b, c}
    Variables <- MCVariables
    Texts <- MCTexts
    Norm <- MCNorm
    Lower <- MCLower
    Includes <- MCIncludes
    None = none
    Messages = {m1, m2, m3}
    Chats = {c1, c2}
    Mail <- MCMail
    InstanceOf <- MCInstanceOf
    Instances = {i1, i2}
    FlowIds = {f1, f2}
    Edits = {e1, e2}
    Graphs <- MCGraphs
    StartName = a
    Seeds <- MCSeeds
SPECIFICATION Spec
INVARIANTS Sound ApiFlowsNeverAnswer NoCrossTalk HangsOnlyOnCycles
PROPERTIES EditsKept AnswersKept
CHECK_DEADLOCK FALSE

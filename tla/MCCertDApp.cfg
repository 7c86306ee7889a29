\* A POST request and a submission of the form race for the account's
\* nonces; a request pays the fee of its block, low or high; one reader.
CONSTANTS
  id0 = id0
  id1 = id1
  blank = blank
  gold = gold
  none = none
  chemistry = chemistry
  Post = {p1}
  Submit = {s1}
  Reader = {r1}
  Id = {id0, id1}
  Certificate = {blank, gold}
  Course = {none, chemistry}
  CourseOf <- CoursesOf
  BlankId = id0
  Blank = blank
  Requested <- OneIssue
  Question <- Asked
  Fee = {1, 2}
SPECIFICATION FairSpec
INVARIANTS
  IssuedAsAsked
  AnswersAreTrue
  ReadsFollowReceipts
  ListenerShowsInOrder
PROPERTY RequestsAreAnswered

CONSTANTS
    CredFile <- MCCredFile
    CsFile <- MCCsFile
    EeFile <- MCEeFile
    Logins <- MCLogins
    Lines <- MCLines
    Categories <- MCCategories
    Stale <- MCStale
    Accounts <- MCAccounts
    Courses <- MCCourses
    Meaning <- MCMeaning
SPECIFICATION Spec
INVARIANTS TypeOK VerdictIsRight ShowsTheValue ShowsTheTable
